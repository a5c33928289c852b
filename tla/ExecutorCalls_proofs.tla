------------------------- MODULE ExecutorCalls_proofs -------------------------
(***************************************************************************)
(* What the calls of a request do, for any applications, depth of calls,   *)
(* gas, messages and moments at which a timer expires.  Every step of a    *)
(* request that runs is one of a dozen moves of its stack, and each of     *)
(* them keeps the stack, the locks, the loaded heap and the signal masks   *)
(* in order; then its gas is shared, what a failed call has stored is not  *)
(* seen unless a later call begins on what is left in the lists, and a     *)
(* message is used once.                                                   *)
(***************************************************************************)
EXTENDS ExecutorCalls, OrderedMaps_proofs, FiniteSetTheorems, SequenceTheorems, TLAPS

-----------------------------------------------------------------------------
(* Version lists *)

ListsOf(S) == UNION {[D -> S] : D \in SUBSET Nat}

LEMMA LeastOf ==
    ASSUME NEW T \in SUBSET Nat, T # {}
    PROVE  \E x \in T : \A y \in T : x <= y
<1> DEFINE R == OpToRel(<, Nat)
<1>1. PICK x \in T : \A y \in T : ~(<<y, x>> \in R)
  BY NatLessThanWellFounded, WFMin
<1>2. \A y \in T : ~(y < x)
  BY <1>1 DEF OpToRel
<1> QED
  BY <1>2

\* The entries of a list that a version can see, and the newest of them.
LEMMA ListFacts ==
    ASSUME NEW S, NEW list \in ListsOf(S), NEW v \in Nat
    PROVE  /\ DOMAIN list \subseteq Nat /\ \A n \in DOMAIN list : list[n] \in S
           /\ UpTo(list, v) \subseteq DOMAIN list
           /\ UpTo(list, v) # {} => /\ Newest(UpTo(list, v)) \in UpTo(list, v)
                                    /\ \A m \in UpTo(list, v) : m <= Newest(UpTo(list, v))
<1>1. PICK D \in SUBSET Nat : list \in [D -> S]
  BY DEF ListsOf
<1>2. UpTo(list, v) \subseteq 0 .. v
  <2>1. DOMAIN list \subseteq Nat
    BY <1>1
  <2> QED
    BY <2>1 DEF UpTo
<1>3. ASSUME UpTo(list, v) # {}
      PROVE  \E x \in UpTo(list, v) : \A y \in UpTo(list, v) : y <= x
  <2> DEFINE T == {v - n : n \in UpTo(list, v)}
  <2>1. T \subseteq Nat /\ T # {}
    BY <1>2, <1>3
  <2>2. PICK k \in T : \A l \in T : k <= l
    <3> HIDE DEF T
    <3> QED
      BY <2>1, LeastOf
  <2>3. PICK x \in UpTo(list, v) : k = v - x
    OBVIOUS
  <2>4. ASSUME NEW y \in UpTo(list, v) PROVE y <= x
    <3>1. v - x <= v - y
      BY <2>2, <2>3
    <3> QED
      BY <1>2, <3>1
  <2> QED
    BY <2>4
<1> QED
  BY <1>1, <1>3 DEF UpTo, Newest

LEMMA SeenType ==
    ASSUME NEW S, NEW list \in ListsOf(S), NEW v \in Nat, NEW memory \in S
    PROVE  Seen(list, v, memory) \in S
BY ListFacts DEF Seen

\* Popping later entries takes nothing away from a version and those before it.
LEMMA SyncToFacts ==
    ASSUME NEW S, NEW list \in ListsOf(S), NEW v \in Nat
    PROVE  /\ SyncTo(list, v) \in ListsOf(S)
           /\ \A u \in Nat : \A memory : u <= v => Seen(SyncTo(list, v), u, memory) = Seen(list, u, memory)
<1>1. DOMAIN list \subseteq Nat /\ UpTo(list, v) \subseteq DOMAIN list
      /\ \A n \in DOMAIN list : list[n] \in S
  BY ListFacts
<1>2. SyncTo(list, v) \in [UpTo(list, v) -> S] /\ UpTo(list, v) \in SUBSET Nat
  BY <1>1 DEF SyncTo
<1>3. SyncTo(list, v) \in ListsOf(S)
  BY <1>2 DEF ListsOf
<1>4. ASSUME NEW u \in Nat, NEW memory, u <= v
      PROVE  Seen(SyncTo(list, v), u, memory) = Seen(list, u, memory)
  <2>1. UpTo(SyncTo(list, v), u) = UpTo(list, u)
    BY <1>1, <1>4 DEF UpTo, SyncTo
  <2>2. \A n \in UpTo(list, u) : SyncTo(list, v)[n] = list[n]
    BY <1>1, <1>4 DEF UpTo, SyncTo
  <2>3. UpTo(list, u) # {} => Newest(UpTo(list, u)) \in UpTo(list, u)
    BY ListFacts
  <2> QED
    BY <2>1, <2>2, <2>3 DEF Seen
<1> QED
  BY <1>3, <1>4

\* A store is seen by its version, and not by those before it.
LEMMA WithLastFacts ==
    ASSUME NEW S, NEW list \in ListsOf(S), NEW v \in Nat, NEW content \in S
    PROVE  /\ WithLast(list, v, content) \in ListsOf(S)
           /\ \A memory : Seen(WithLast(list, v, content), v, memory) = content
           /\ \A u \in Nat : \A memory : u < v =>
                 Seen(WithLast(list, v, content), u, memory) = Seen(list, u, memory)
<1> DEFINE w == WithLast(list, v, content)
<1>1. DOMAIN list \subseteq Nat /\ UpTo(list, v) \subseteq DOMAIN list
      /\ \A n \in DOMAIN list : list[n] \in S
  BY ListFacts
<1>2. /\ DOMAIN w = UpTo(list, v) \cup {v} /\ w[v] = content
      /\ \A n \in UpTo(list, v) : n # v => w[n] = list[n]
      /\ w \in [UpTo(list, v) \cup {v} -> S]
  BY <1>1 DEF WithLast
<1>3. w \in ListsOf(S)
  <2>1. UpTo(list, v) \cup {v} \in SUBSET Nat
    BY <1>1
  <2> HIDE DEF w
  <2> QED
    BY <1>2, <2>1 DEF ListsOf
<1> HIDE DEF w
<1>4. v \in UpTo(w, v) /\ \A m \in UpTo(w, v) : m <= v
  BY <1>2 DEF UpTo
<1>5. Newest(UpTo(w, v)) = v
  <2>1. Newest(UpTo(w, v)) \in UpTo(w, v) /\ v <= Newest(UpTo(w, v))
    BY <1>3, <1>4, ListFacts
  <2>2. UpTo(w, v) \subseteq Nat
    BY <1>3, ListFacts
  <2> QED
    BY <1>4, <2>1, <2>2
<1>6. \A memory : Seen(w, v, memory) = content
  BY <1>2, <1>4, <1>5 DEF Seen
<1>7. ASSUME NEW u \in Nat, NEW memory, u < v
      PROVE  Seen(w, u, memory) = Seen(list, u, memory)
  <2>1. UpTo(w, u) = UpTo(list, u)
    BY <1>1, <1>2, <1>7 DEF UpTo
  <2>2. \A n \in UpTo(list, u) : w[n] = list[n]
    BY <1>1, <1>2, <1>7 DEF UpTo
  <2>3. UpTo(list, u) # {} => Newest(UpTo(list, u)) \in UpTo(list, u)
    BY ListFacts
  <2> QED
    BY <2>1, <2>2, <2>3 DEF Seen
<1> QED
  BY <1>3, <1>6, <1>7 DEF w

\* A number that is not in the list sees what the one before it does.
LEMMA SeenAhead ==
    ASSUME NEW S, NEW list \in ListsOf(S), NEW v \in Nat, v + 1 \notin DOMAIN list, NEW memory
    PROVE  Seen(list, v + 1, memory) = Seen(list, v, memory)
<1>1. DOMAIN list \subseteq Nat
  BY ListFacts
<1>2. UpTo(list, v + 1) = UpTo(list, v)
  BY <1>1 DEF UpTo
<1> QED
  BY <1>2 DEF Seen

\* Lists of sets and of numbers of which no later entry has less than an earlier one.
SetsGrow(list) == \A m, n \in DOMAIN list : m <= n => list[m] \subseteq list[n]
NumbersGrow(list) == \A m, n \in DOMAIN list : m <= n => list[m] <= list[n]

LEMMA SetsSeen ==
    ASSUME NEW S, NEW list \in ListsOf(S), SetsGrow(list), NEW v \in Nat
    PROVE  /\ \A n \in UpTo(list, v) : list[n] \subseteq Seen(list, v, {})
           /\ \A u \in Nat : u <= v => Seen(list, u, {}) \subseteq Seen(list, v, {})
<1>1. ASSUME NEW n \in UpTo(list, v) PROVE list[n] \subseteq Seen(list, v, {})
  <2>1. UpTo(list, v) # {} /\ UpTo(list, v) \subseteq DOMAIN list
    BY <1>1, ListFacts
  <2>2. Newest(UpTo(list, v)) \in UpTo(list, v) /\ n <= Newest(UpTo(list, v))
    BY <1>1, <2>1, ListFacts
  <2>3. list[n] \subseteq list[Newest(UpTo(list, v))]
    BY <1>1, <2>1, <2>2 DEF SetsGrow
  <2> QED
    BY <2>1, <2>3 DEF Seen
<1>2. ASSUME NEW u \in Nat, u <= v PROVE Seen(list, u, {}) \subseteq Seen(list, v, {})
  <2>1. CASE UpTo(list, u) = {}
    BY <2>1 DEF Seen
  <2>2. CASE UpTo(list, u) # {}
    <3>1. Newest(UpTo(list, u)) \in UpTo(list, u) /\ DOMAIN list \subseteq Nat
      BY <2>2, ListFacts
    <3>2. UpTo(list, u) \subseteq UpTo(list, v)
      BY <1>2, <3>1 DEF UpTo
    <3>3. list[Newest(UpTo(list, u))] \subseteq Seen(list, v, {})
      BY <1>1, <3>1, <3>2
    <3> QED
      BY <2>2, <3>3 DEF Seen
  <2> QED
    BY <2>1, <2>2
<1> QED
  BY <1>1, <1>2

LEMMA SetsKeepGrowing ==
    ASSUME NEW S, NEW list \in ListsOf(S), SetsGrow(list), NEW v \in Nat, NEW content,
           Seen(list, v, {}) \subseteq content
    PROVE  SetsGrow(SyncTo(list, v)) /\ SetsGrow(WithLast(list, v, content))
<1>1. UpTo(list, v) \subseteq DOMAIN list /\ DOMAIN list \subseteq Nat
      /\ \A n \in UpTo(list, v) : list[n] \subseteq content /\ n <= v
  <2>1. UpTo(list, v) \subseteq DOMAIN list /\ DOMAIN list \subseteq Nat
    BY ListFacts
  <2>2. \A n \in UpTo(list, v) : list[n] \subseteq content
    BY SetsSeen
  <2> QED
    BY <2>1, <2>2 DEF UpTo
<1>2. SetsGrow(SyncTo(list, v))
  BY <1>1 DEF SetsGrow, SyncTo
<1> DEFINE w == WithLast(list, v, content)
<1>3. /\ DOMAIN w = UpTo(list, v) \cup {v} /\ w[v] = content
      /\ \A n \in UpTo(list, v) : n # v => w[n] = list[n]
  BY DEF WithLast
<1> HIDE DEF w
<1>4. ASSUME NEW m \in DOMAIN w, NEW n \in DOMAIN w, m <= n PROVE w[m] \subseteq w[n]
  <2>1. CASE n = v
    BY <1>1, <1>3, <1>4, <2>1
  <2>2. CASE n # v
    <3>1. n \in UpTo(list, v) /\ m \in UpTo(list, v) /\ m # v
      BY <1>1, <1>3, <1>4, <2>2
    <3> QED
      BY <1>1, <1>3, <1>4, <3>1 DEF SetsGrow
  <2> QED
    BY <2>1, <2>2
<1> QED
  BY <1>2, <1>4 DEF SetsGrow, w

LEMMA NumberSeen ==
    ASSUME NEW S \in SUBSET Nat, NEW list \in ListsOf(S), NEW v \in Nat
    PROVE  Seen(list, v, 0) \in Nat
<1>1. UpTo(list, v) # {} => list[Newest(UpTo(list, v))] \in S
  BY ListFacts
<1> QED
  BY <1>1 DEF Seen

LEMMA NumbersSeen ==
    ASSUME NEW S \in SUBSET Nat, NEW list \in ListsOf(S), NumbersGrow(list), NEW v \in Nat
    PROVE  /\ \A n \in UpTo(list, v) : list[n] <= Seen(list, v, 0)
           /\ \A u \in Nat : u <= v => Seen(list, u, 0) <= Seen(list, v, 0)
<1>1. ASSUME NEW n \in UpTo(list, v) PROVE list[n] <= Seen(list, v, 0)
  <2>1. UpTo(list, v) # {} /\ UpTo(list, v) \subseteq DOMAIN list
    BY <1>1, ListFacts
  <2>2. Newest(UpTo(list, v)) \in UpTo(list, v) /\ n <= Newest(UpTo(list, v))
    BY <1>1, <2>1, ListFacts
  <2>3. list[n] <= list[Newest(UpTo(list, v))]
    BY <1>1, <2>1, <2>2 DEF NumbersGrow
  <2> QED
    BY <2>1, <2>3 DEF Seen
<1>2. ASSUME NEW u \in Nat, u <= v PROVE Seen(list, u, 0) <= Seen(list, v, 0)
  <2>1. CASE UpTo(list, u) = {}
    <3>1. Seen(list, v, 0) \in Nat
      BY NumberSeen
    <3> QED
      BY <2>1, <3>1 DEF Seen
  <2>2. CASE UpTo(list, u) # {}
    <3>1. Newest(UpTo(list, u)) \in UpTo(list, u) /\ DOMAIN list \subseteq Nat
      BY <2>2, ListFacts
    <3>2. UpTo(list, u) \subseteq UpTo(list, v)
      BY <1>2, <3>1 DEF UpTo
    <3>3. list[Newest(UpTo(list, u))] <= Seen(list, v, 0)
      BY <1>1, <3>1, <3>2
    <3> QED
      BY <2>2, <3>3 DEF Seen
  <2> QED
    BY <2>1, <2>2
<1> QED
  BY <1>1, <1>2

LEMMA NumbersKeepGrowing ==
    ASSUME NEW S \in SUBSET Nat, NEW list \in ListsOf(S), NumbersGrow(list), NEW v \in Nat,
           NEW content \in Nat, Seen(list, v, 0) <= content
    PROVE  NumbersGrow(SyncTo(list, v)) /\ NumbersGrow(WithLast(list, v, content))
<1>1. UpTo(list, v) \subseteq DOMAIN list /\ DOMAIN list \subseteq Nat
      /\ \A n \in UpTo(list, v) : list[n] <= content /\ n <= v
  <2>1. UpTo(list, v) \subseteq DOMAIN list /\ DOMAIN list \subseteq Nat
        /\ \A n \in DOMAIN list : list[n] \in S
    BY ListFacts
  <2>2. \A n \in UpTo(list, v) : list[n] <= Seen(list, v, 0)
    BY NumbersSeen
  <2>3. Seen(list, v, 0) \in Nat
    BY NumberSeen
  <2>4. \A n \in UpTo(list, v) : n <= v /\ list[n] \in Nat
    BY <2>1 DEF UpTo
  <2>5. ASSUME NEW n \in UpTo(list, v) PROVE list[n] <= content
    BY <2>2, <2>3, <2>4
  <2> QED
    BY <2>1, <2>4, <2>5
<1>2. NumbersGrow(SyncTo(list, v))
  BY <1>1 DEF NumbersGrow, SyncTo
<1> DEFINE w == WithLast(list, v, content)
<1>3. /\ DOMAIN w = UpTo(list, v) \cup {v} /\ w[v] = content
      /\ \A n \in UpTo(list, v) : n # v => w[n] = list[n]
  BY DEF WithLast
<1> HIDE DEF w
<1>4. ASSUME NEW m \in DOMAIN w, NEW n \in DOMAIN w, m <= n PROVE w[m] <= w[n]
  <2>1. CASE n = v
    BY <1>1, <1>3, <1>4, <2>1
  <2>2. CASE n # v
    <3>1. n \in UpTo(list, v) /\ m \in UpTo(list, v) /\ m # v
      BY <1>1, <1>3, <1>4, <2>2
    <3> QED
      BY <1>1, <1>3, <1>4, <3>1 DEF NumbersGrow
  <2> QED
    BY <2>1, <2>2
<1> QED
  BY <1>2, <1>4 DEF NumbersGrow, w

\* A list of numbers that only grows stays one, and no version sees less than it did.
LEMMA NumbersRise ==
    ASSUME NEW S \in SUBSET Nat, NEW list \in ListsOf(S), NumbersGrow(list), NEW v \in Nat,
           NEW after,
           \/ after \in {list, SyncTo(list, v)}
           \/ /\ after = WithLast(list, v, Seen(list, v, 0) + 1)
              /\ Seen(list, v, 0) + 1 \in S
    PROVE  /\ NumbersGrow(after) /\ after \in ListsOf(S)
           /\ \A u \in Nat : u <= v => Seen(list, u, 0) <= Seen(after, u, 0)
<1> DEFINE c == Seen(list, v, 0) + 1
<1>1. \A u \in Nat : Seen(list, u, 0) \in Nat
  BY NumberSeen
<1>2. CASE after = list
  BY <1>1, <1>2
<1>3. CASE after = SyncTo(list, v)
  <2>1. NumbersGrow(after)
    <3>1. Seen(list, v, 0) \in Nat /\ Seen(list, v, 0) <= Seen(list, v, 0)
      BY <1>1
    <3> QED
      BY <1>3, <3>1, NumbersKeepGrowing
  <2>2. /\ after \in ListsOf(S)
        /\ \A u \in Nat : u <= v => Seen(after, u, 0) = Seen(list, u, 0)
    BY <1>3, SyncToFacts
  <2> QED
    BY <1>1, <2>1, <2>2
<1>4. CASE after = WithLast(list, v, c) /\ c \in S
  <2>1. c \in S /\ c \in Nat /\ Seen(list, v, 0) <= c
    BY <1>1, <1>4
  <2> HIDE DEF c
  <2>2. NumbersGrow(after)
    BY <1>4, <2>1, NumbersKeepGrowing
  <2>3. /\ Seen(after, v, 0) = c /\ after \in ListsOf(S)
        /\ \A u \in Nat : u < v => Seen(after, u, 0) = Seen(list, u, 0)
    BY <1>4, <2>1, WithLastFacts
  <2>4. ASSUME NEW u \in Nat, u <= v PROVE Seen(list, u, 0) <= Seen(after, u, 0)
    <3>1. CASE u = v
      BY <2>1, <2>3, <3>1
    <3>2. CASE u # v
      BY <1>1, <2>3, <2>4, <3>2
    <3> QED
      BY <3>1, <3>2
  <2> QED
    BY <2>2, <2>3, <2>4
<1> QED
  BY <1>2, <1>3, <1>4

-----------------------------------------------------------------------------
(* The stack of contexts *)

Frames ==
    [app : Apps \cup {NoApp}, kind : {"root", "call", "deferred"},
     pc : {"start", "entering", "waiting", "app", "finishing", "returning", "returned"},
     hasLock : BOOLEAN, deferred : Seq(Apps),
     timer : {"none", "armed", "pending", "spent"}, blocked : BOOLEAN, ok : BOOLEAN]

\* Where the code of a context may be.
Places(kind) ==
    IF kind = "root" THEN {"start", "waiting", "returned"}
    ELSE {"entering", "waiting", "app", "finishing"}
             \cup (IF kind = "call" THEN {"returning"} ELSE {})

\* executeOne's own context is at the bottom and only there; a context is waiting
\* exactly if the next one is that of a call, and makes deferred calls when it ends.
Shape ==
    /\ frames \in Seq(Frames) /\ Depth >= 1
    /\ \A i \in 1 .. Depth :
          /\ frames[i].kind = "root" <=> i = 1
          /\ frames[i].app = NoApp <=> i = 1
          /\ frames[i].pc \in Places(frames[i].kind)
    /\ \A i \in 1 .. Depth - 1 :
          frames[i].pc = IF frames[i + 1].kind = "call" THEN "waiting" ELSE "finishing"
    /\ ~request.controlled => \A i \in 1 .. Depth : frames[i].pc # "returning"

\* The calls that have a handler: all but the deferred ones, and executeOne's own only if
\* the request is controlled.
CallFrames == {i \in 1 .. Depth : frames[i].kind # "deferred"}

Handlers ==
    /\ Len(resources) = Cardinality(CallFrames) - (IF request.controlled THEN 0 ELSE 1)
    /\ request.controlled => callDepth = Len(resources) /\ callDepth <= MaxDepth

StackInv == Running => Shape /\ Handlers

Nonces(account) == [NonceTable[account] -> ListsOf(0 .. NonceMax)]
NonceMaps ==
    {f \in [Accounts -> UNION {Nonces(c) : c \in Accounts}] : \A c \in Accounts : f[c] \in Nonces(c)}
Heaps == [stored : ListsOf(SUBSET Nat), nonce : NonceMaps]

HandlerRecords ==
    [id : Nat, gas : Nat, remaining : Nat, external : Nat, before : Nat, version : Nat]

Marks == [index : Nat, issuer : Accounts, text : Texts, by : Nat]
Verified == [index : Nat, issuer : Accounts, text : Texts \cup {Used}]

TypeInv ==
    /\ request \in Requests
    /\ resources \in Seq(HandlerRecords)
    /\ lastGeneratedID \in Nat /\ granted \in Nat /\ currentVersion \in Nat
    /\ heap \in Heaps
    /\ messages \in Seq([issuer : Accounts, text : Texts \cup {Used}])
    /\ accepted \in [once : Seq(Marks), again : SUBSET Verified]

\* A lock is held by one context, which is executing its application's code or waits for a
\* call that this code has made.
Locks ==
    /\ isLocked \in [Apps -> BOOLEAN]
    /\ \A i \in 1 .. Depth : frames[i].hasLock => frames[i].pc \in {"app", "waiting"} /\ i > 1
    /\ \A i \in 1 .. Depth : frames[i].hasLock => isLocked[frames[i].app]
    /\ \A i, j \in 1 .. Depth :
          frames[i].hasLock /\ frames[j].hasLock /\ frames[i].app = frames[j].app => i = j
    /\ \A a \in Apps : isLocked[a] => \E i \in 1 .. Depth : frames[i].hasLock /\ frames[i].app = a

LockInv == Running => Locks

\* Whoever is below the running thread is masked, and the running thread is masked exactly
\* while it is in a guarded function.
Masks ==
    /\ \A i \in 1 .. Depth : frames[i].timer # "none" <=> frames[i].kind = "call"
    /\ \A i \in 1 .. Depth : frames[i].kind = "call" /\ i < Base =>
          frames[i].blocked /\ frames[i].timer \in {"armed", "pending"}
    /\ Top.pc = "entering" => frames[Base].blocked /\ frames[Base].timer \in {"armed", "pending"}
    /\ Top.pc \in {"app", "finishing"} =>
          ~guardedArea /\ ~frames[Base].blocked /\ frames[Base].timer = "armed"

MaskInv == Running /\ request.controlled => Masks

-----------------------------------------------------------------------------
(* The thread that runs *)

IsThread(fs, i) ==
    /\ i \in 1 .. Len(fs) /\ fs[i].kind # "deferred"
    /\ \A j \in i + 1 .. Len(fs) : fs[j].kind = "deferred"

\* The calls above the first context are not all deferred ones, as there is a last one
\* that is none.
LEMMA ThreadExists ==
    ASSUME NEW fs \in Seq(Frames), Len(fs) >= 1, fs[1].kind # "deferred"
    PROVE  \E i \in 1 .. Len(fs) : IsThread(fs, i)
<1> DEFINE T == {k \in Nat : k < Len(fs) /\ fs[Len(fs) - k].kind # "deferred"}
<1>1. Len(fs) \in Nat /\ Len(fs) - 1 \in T
  OBVIOUS
<1>2. PICK k \in T : \A l \in T : ~(<<l, k>> \in OpToRel(<, Nat))
  <2> HIDE DEF T
  <2>1. T \subseteq Nat /\ T # {}
    BY <1>1 DEF T
  <2> QED
    BY <2>1, WFMin, NatLessThanWellFounded, Zenon
<1>3. \A l \in T : ~(l < k)
  BY <1>2 DEF OpToRel
<1>4. ASSUME NEW j \in Len(fs) - k + 1 .. Len(fs) PROVE fs[j].kind = "deferred"
  <2>1. Len(fs) - j \in Nat /\ Len(fs) - j < k /\ Len(fs) - (Len(fs) - j) = j
    BY <1>1, <1>4
  <2> QED
    BY <2>1, <1>3
<1>5. IsThread(fs, Len(fs) - k)
  BY <1>1, <1>4 DEF IsThread
<1> QED
  BY <1>1, <1>5

\* ThreadOf is what it says, and there is one such context.
LEMMA ThreadIs ==
    ASSUME request.controlled, NEW fs \in Seq(Frames), NEW i, IsThread(fs, i)
    PROVE  ThreadOf(fs) = i
<1>1. ASSUME NEW j, IsThread(fs, j) PROVE i = j
  BY <1>1 DEF IsThread
<1>2. DOMAIN fs = 1 .. Len(fs)
  OBVIOUS
<1> QED
  BY <1>1, <1>2 DEF ThreadOf, IsThread

LEMMA ThreadFacts ==
    ASSUME request.controlled, NEW fs \in Seq(Frames), Len(fs) >= 1, fs[1].kind # "deferred"
    PROVE  IsThread(fs, ThreadOf(fs))
BY ThreadExists, ThreadIs

-----------------------------------------------------------------------------
(* The contexts of a running request *)

LEMMA RequestFacts ==
    ASSUME TypeInv
    PROVE  request.controlled \in BOOLEAN /\ request.app \in Apps /\ request.maxClocks \in Nat
BY ExecutorCallsAssumption DEF TypeInv

LEMMA ContextFacts ==
    ASSUME Shape
    PROVE  /\ frames \in Seq(Frames) /\ Depth \in Nat /\ Depth >= 1 /\ Len(frames) = Depth
           /\ Top \in Frames
           /\ frames[1].kind = "root" /\ frames[1].pc \in {"start", "waiting", "returned"}
           /\ \A i \in 1 .. Depth :
                 /\ frames[i] \in Frames
                 /\ i > 1 => /\ frames[i].kind \in {"call", "deferred"} /\ frames[i].app \in Apps
                             /\ frames[i].pc \in {"entering", "waiting", "app", "finishing", "returning"}
                             /\ frames[i].pc = "returning" => frames[i].kind = "call"
<1>1. frames \in Seq(Frames) /\ Depth \in Nat /\ Depth >= 1 /\ Len(frames) = Depth
  BY DEF Shape, Depth
<1>2. \A i \in 1 .. Depth : frames[i] \in Frames
  BY <1>1, ElementOfSeq
<1>3. frames[1].kind = "root"
  BY <1>1 DEF Shape
<1>4. frames[1].pc \in Places("root")
  BY <1>1, <1>3 DEF Shape
<1>5. ASSUME NEW i \in 1 .. Depth, i > 1
      PROVE  /\ frames[i].kind \in {"call", "deferred"} /\ frames[i].app \in Apps
             /\ frames[i].pc \in Places(frames[i].kind)
  <2>1. frames[i].kind \in {"root", "call", "deferred"} /\ frames[i].app \in Apps \cup {NoApp}
    BY <1>2 DEF Frames
  <2> QED
    BY <2>1, <1>5 DEF Shape
<1>6. Top \in Frames
  BY <1>1, <1>2 DEF Top
<1> QED
  BY <1>1, <1>2, <1>3, <1>4, <1>5, <1>6 DEF Places

\* The thread of a call begins with the context of that call, and its caller waits.
LEMMA BaseFacts ==
    ASSUME Shape, request.controlled
    PROVE  /\ IsThread(frames, Base) /\ Base \in 1 .. Depth
           /\ Depth = 1 => Base = 1
           /\ Depth >= 2 => /\ Base >= 2 /\ frames[Base].kind = "call"
                            /\ frames[Base - 1].pc = "waiting"
           /\ \A j \in Base .. Depth - 1 : frames[j].pc = "finishing"
<1>1. frames \in Seq(Frames) /\ Depth \in Nat /\ Depth >= 1 /\ frames[1].kind = "root"
      /\ frames[1].pc # "finishing"
  BY ContextFacts
<1>2. IsThread(frames, Base)
  BY <1>1, ThreadFacts DEF Base, Depth
<1>3. Base \in 1 .. Depth /\ frames[Base].kind # "deferred"
      /\ \A j \in Base + 1 .. Depth : frames[j].kind = "deferred"
  BY <1>2 DEF IsThread, Depth
<1> HIDE DEF Base
<1>4. \A j \in Base .. Depth - 1 : frames[j].pc = "finishing"
  BY <1>1, <1>3 DEF Shape
<1>5. ASSUME Depth >= 2 PROVE Base >= 2
  BY <1>1, <1>3, <1>4, <1>5
<1>6. ASSUME Depth >= 2 PROVE frames[Base].kind = "call"
  BY <1>1, <1>3, <1>5, <1>6, ContextFacts
<1>7. ASSUME Depth >= 2 PROVE frames[Base - 1].pc = "waiting"
  BY <1>1, <1>3, <1>5, <1>6, <1>7 DEF Shape
<1> QED
  BY <1>1, <1>2, <1>3, <1>4, <1>5, <1>6, <1>7

LEMMA CallFramesFinite ==
    ASSUME Shape
    PROVE  IsFiniteSet(CallFrames) /\ Cardinality(CallFrames) \in Nat
<1>1. IsFiniteSet(1 .. Depth) /\ CallFrames \subseteq 1 .. Depth
  BY FS_Interval DEF CallFrames, Shape, Depth
<1> QED
  BY <1>1, FS_Subset, FS_CardinalityType

\* Whoever is not executeOne has been called.
LEMMA TwoCalls ==
    ASSUME Shape, Depth >= 2
    PROVE  Cardinality(CallFrames) >= 2
<1>1. Depth \in Nat /\ frames[1].kind = "root" /\ frames[2].kind # "deferred"
  <2>1. Depth \in Nat /\ frames[1].kind = "root"
    BY DEF Shape, Depth
  <2>2. frames[1].pc # "finishing"
    BY <2>1, ContextFacts
  <2> QED
    BY <2>1, <2>2 DEF Shape
<1>2. {1, 2} \subseteq CallFrames
  BY <1>1 DEF CallFrames
<1>3. Cardinality({1, 2}) = 2 /\ IsFiniteSet({1, 2})
  <2>1. {1, 2} = {1} \cup {2} /\ 2 \notin {1}
    OBVIOUS
  <2>2. IsFiniteSet({1}) /\ Cardinality({1}) = 1
    BY FS_Singleton
  <2> QED
    BY <2>1, <2>2, FS_AddElement
<1>4. IsFiniteSet(CallFrames)
  BY CallFramesFinite
<1> HIDE DEF CallFrames
<1> QED
  BY <1>2, <1>3, <1>4, FS_Subset

LEMMA HandlersAlive ==
    ASSUME TypeInv, Shape, Handlers, Depth >= 2 \/ request.controlled
    PROVE  /\ Len(resources) >= 1
           /\ request.controlled /\ Depth >= 2 => Len(resources) >= 2
           /\ Resources \in HandlerRecords
<1>1. Cardinality(CallFrames) >= 1
  <2>1. 1 \in CallFrames
    BY DEF Shape, CallFrames, Depth
  <2> HIDE DEF CallFrames
  <2> QED
    BY <2>1, CallFramesFinite, FS_EmptySet
<1>2. Len(resources) >= 1
  BY <1>1, TwoCalls, CallFramesFinite, RequestFacts DEF Handlers
<1>3. request.controlled /\ Depth >= 2 => Len(resources) >= 2
  BY TwoCalls, CallFramesFinite, RequestFacts DEF Handlers
<1>4. Resources \in HandlerRecords
  BY <1>2, ElementOfSeq DEF TypeInv, Resources
<1> QED
  BY <1>2, <1>3, <1>4

-----------------------------------------------------------------------------
(* What guards do to the contexts *)

\* The same context, up to the signal mask of its thread.
Alike(f, g) ==
    f.app = g.app /\ f.kind = g.kind /\ f.pc = g.pc /\ f.hasLock = g.hasLock /\ f.timer = g.timer

LEMMA MaskedFacts ==
    ASSUME NEW fs \in Seq(Frames), NEW t \in 1 .. Len(fs), NEW b \in BOOLEAN
    PROVE  /\ Masked(fs, t, b) \in Seq(Frames) /\ Len(Masked(fs, t, b)) = Len(fs)
           /\ \A i \in 1 .. Len(fs) : Alike(Masked(fs, t, b)[i], fs[i])
           /\ \A i \in 1 .. Len(fs) : i # t => Masked(fs, t, b)[i] = fs[i]
           /\ request.controlled => Masked(fs, t, b)[t].blocked = b
<1> DEFINE e == [fs[t] EXCEPT !.blocked = b]
<1>1. fs[t] \in Frames
  BY ElementOfSeq
<1>2. e \in Frames /\ e.blocked = b /\ Alike(e, fs[t])
  BY <1>1 DEF Frames, Alike
<1>3. CASE request.controlled
  <2>1. Masked(fs, t, b) = [fs EXCEPT ![t] = e]
    BY <1>3 DEF Masked
  <2> HIDE DEF e
  <2>2. /\ Masked(fs, t, b) \in Seq(Frames) /\ Len(Masked(fs, t, b)) = Len(fs)
        /\ \A i \in 1 .. Len(fs) : Masked(fs, t, b)[i] = IF i = t THEN e ELSE fs[i]
    BY <2>1, <1>2, ExceptSeq
  <2> QED
    BY <2>2, <1>2 DEF Alike
<1>4. CASE ~request.controlled
  BY <1>4 DEF Masked, Alike
<1> QED
  BY <1>3, <1>4

LEMMA UnGuardFacts ==
    ASSUME NEW fs \in Seq(Frames), NEW t \in 1 .. Len(fs), UnGuard(fs, t), Running, Running'
    PROVE  /\ frames' \in Seq(Frames) /\ Len(frames') = Len(fs)
           /\ \A i \in 1 .. Len(fs) : Alike(frames'[i], fs[i])
           /\ \A i \in 1 .. Len(fs) : i # t => frames'[i] = fs[i]
           /\ request.controlled =>
                 ~frames'[t].blocked /\ ~guardedArea' /\ fs[t].timer # "pending"
<1>1. CASE ~request.controlled
  BY <1>1 DEF UnGuard, Alike
<1>2. CASE request.controlled
  <2>1. frames' = Masked(fs, t, FALSE) /\ guardedArea' = FALSE /\ fs[t].timer # "pending"
    BY <1>2 DEF UnGuard, Running
  <2> DEFINE m == Masked(fs, t, FALSE)
  <2>2. /\ m \in Seq(Frames) /\ Len(m) = Len(fs)
        /\ \A i \in 1 .. Len(fs) : Alike(m[i], fs[i])
        /\ \A i \in 1 .. Len(fs) : i # t => m[i] = fs[i]
        /\ request.controlled => m[t].blocked = FALSE
    BY MaskedFacts, Zenon
  <2> QED
    BY <2>1, <2>2, <1>2
<1> QED
  BY <1>1, <1>2

LEMMA GuardedFacts ==
    ASSUME NEW fs \in Seq(Frames), NEW t \in 1 .. Len(fs), Guarded(fs, t)
    PROVE  /\ frames' \in Seq(Frames) /\ Len(frames') = Len(fs)
           /\ \A i \in 1 .. Len(fs) : Alike(frames'[i], fs[i])
           /\ \A i \in 1 .. Len(fs) : i # t => frames'[i] = fs[i]
           /\ request.controlled => frames'[t].blocked
<1> DEFINE m == Masked(fs, t, TRUE)
<1>1. /\ m \in Seq(Frames) /\ Len(m) = Len(fs)
      /\ \A i \in 1 .. Len(fs) : Alike(m[i], fs[i])
      /\ \A i \in 1 .. Len(fs) : i # t => m[i] = fs[i]
      /\ request.controlled => m[t].blocked = TRUE
  BY MaskedFacts, Zenon
<1> QED
  BY <1>1 DEF Guarded

-----------------------------------------------------------------------------
(* What a step of a running request does to its contexts *)

\* Contexts from the n-th on are gone, up to the n-th itself, whose code is now at pc.
Reduced(fs, n, pc, lock) ==
    /\ fs \in Seq(Frames) /\ n \in 1 .. Depth /\ Len(fs) = n
    /\ \A i \in 1 .. n - 1 : fs[i] = frames[i]
    /\ fs[n].app = frames[n].app /\ fs[n].kind = frames[n].kind
    /\ fs[n].pc = pc /\ fs[n].hasLock = lock
    /\ fs[n].timer = frames[n].timer /\ fs[n].blocked = frames[n].blocked

\* The same for the contexts after the step, up to the mask of a thread t.
Cut(n, pc, lock, t) ==
    /\ frames' \in Seq(Frames) /\ n \in 1 .. Depth /\ Depth' = n /\ t \in 1 .. n
    /\ \A i \in 1 .. n : frames'[i].app = frames[i].app /\ frames'[i].kind = frames[i].kind
    /\ \A i \in 1 .. n - 1 : frames'[i].pc = frames[i].pc /\ frames'[i].hasLock = frames[i].hasLock
    /\ frames'[n].pc = pc /\ frames'[n].hasLock = lock
    /\ \A i \in 1 .. n : i # t =>
          frames'[i].timer = frames[i].timer /\ frames'[i].blocked = frames[i].blocked

Kept(t) ==
    /\ frames'[t].timer = frames[t].timer /\ frames'[t].blocked = frames[t].blocked
    /\ guardedArea' = guardedArea

Freed(t) ==
    /\ frames'[t].timer = frames[t].timer /\ frames'[t].timer # "pending"
    /\ ~frames'[t].blocked /\ ~guardedArea'

Pushed(app, kind) ==
    /\ frames' \in Seq(Frames) /\ Depth' = Depth + 1
    /\ \A i \in 1 .. Depth : /\ frames'[i].app = frames[i].app /\ frames'[i].kind = frames[i].kind
                             /\ frames'[i].hasLock = frames[i].hasLock
                             /\ frames'[i].timer = frames[i].timer
    /\ \A i \in 1 .. Depth - 1 : frames'[i].pc = frames[i].pc
    /\ \A i \in 1 .. Depth : i # Base => frames'[i].blocked = frames[i].blocked
    /\ request.controlled => frames'[Base].blocked
    /\ frames'[Depth].pc = IF kind = "call" THEN "waiting" ELSE "finishing"
    /\ LET f == frames'[Depth + 1]
       IN  f.app = app /\ f.kind = kind /\ f.pc = "entering" /\ ~f.hasLock

Count(d) ==
    /\ Len(resources') = Len(resources) + d
    /\ request.controlled => callDepth' = callDepth + d

SameLocks == isLocked' = isLocked

Stays == Cut(Depth, Top.pc, Top.hasLock, Depth) /\ Kept(Depth) /\ SameLocks /\ context' = context

Ticks ==
    /\ request.controlled /\ frames' \in Seq(Frames) /\ Depth' = Depth
    /\ \A i \in 1 .. Depth :
          /\ frames'[i].app = frames[i].app /\ frames'[i].kind = frames[i].kind
          /\ frames'[i].pc = frames[i].pc /\ frames'[i].hasLock = frames[i].hasLock
          /\ frames'[i].blocked = frames[i].blocked
          /\ \/ frames'[i].timer = frames[i].timer
             \/ frames[i].blocked /\ frames[i].timer = "armed" /\ frames'[i].timer = "pending"
    /\ UNCHANGED <<guardedArea, isLocked, context>>

Refuses ==
    /\ Top.pc \in {"app", "start"} /\ request.controlled
    /\ Cut(Depth, AfterCall(Depth), Top.hasLock, Base) /\ Freed(Base)
    /\ SameLocks /\ context' \in {context, Top.app}

PushesCall ==
    /\ Top.pc \in {"app", "start"}
    /\ \E app \in Apps : Pushed(app, "call")
    /\ request.controlled =>
          frames'[Depth + 1].blocked /\ frames'[Depth + 1].timer = "armed" /\ ~TooDeep
    /\ SameLocks /\ UNCHANGED context

PushesDeferred ==
    /\ Top.pc = "finishing"
    /\ \E app \in Apps : Pushed(app, "deferred")
    /\ frames'[Depth + 1].timer = "none"
    /\ SameLocks /\ UNCHANGED context

Enters ==
    /\ Top.pc = "entering" /\ Exists
    /\ Cut(Depth, "app", Top.hasLock, Base) /\ (request.controlled => Freed(Base))
    /\ SameLocks /\ context' = Top.app

Answers ==
    /\ Top.pc \in {"entering", "finishing"} /\ Top.kind = "call" /\ request.controlled
    /\ Cut(Depth, "returning", Top.hasLock, Depth) /\ Kept(Depth)
    /\ SameLocks

Fails ==
    /\ Top.pc \in {"app", "entering", "finishing"} /\ request.controlled
    /\ Cut(Base, "returning", FALSE, Base)
    /\ frames'[Base].timer \in {frames[Base].timer, "spent"}
    /\ isLocked' = LocksWithout(Base)

SetsLock(held) ==
    /\ Top.pc = "app" /\ Top.hasLock # held /\ (held => ~isLocked[Top.app])
    /\ Cut(Depth, "app", held, Depth) /\ Kept(Depth)
    /\ isLocked' = [isLocked EXCEPT ![Top.app] = held] /\ UNCHANGED context

Returns ==
    /\ Top.pc = "app"
    /\ Cut(Depth, "finishing", FALSE, Depth) /\ Kept(Depth)
    /\ isLocked' = LocksWithout(Depth)

PopsDeferred ==
    /\ Top.pc = "finishing" /\ Top.kind = "deferred" /\ Depth >= 2
    /\ Cut(Depth - 1, "finishing", frames[Depth - 1].hasLock, Depth - 1) /\ Kept(Depth - 1)
    /\ SameLocks

PopsCall ==
    /\ Top.pc \in {"finishing", "returning"} /\ Top.kind = "call" /\ Depth >= 2
    /\ \E t \in 1 .. Depth - 1 :
          /\ Cut(Depth - 1, AfterCall(Depth - 1), frames[Depth - 1].hasLock, t)
          /\ request.controlled => Freed(t) /\ IsThread(frames', t)
    /\ SameLocks /\ context' = frames[Depth - 1].app

Moves ==
    \/ /\ Count(0)
       /\ \/ Stays \/ Ticks \/ Refuses \/ PushesDeferred \/ Enters \/ Answers \/ Fails
          \/ (\E held \in BOOLEAN : SetsLock(held))
          \/ Returns \/ PopsDeferred
    \/ Count(1) /\ PushesCall
    \/ Count(-1) /\ PopsCall

LEMMA UnGuardCut ==
    ASSUME NEW fs, NEW n, NEW pc, NEW lock, Reduced(fs, n, pc, lock), Shape,
           NEW t \in 1 .. n, UnGuard(fs, t), Running, Running'
    PROVE  Cut(n, pc, lock, t) /\ (request.controlled => Freed(t))
<1>1. /\ frames' \in Seq(Frames) /\ Len(frames') = Len(fs)
      /\ \A i \in 1 .. Len(fs) : Alike(frames'[i], fs[i])
      /\ \A i \in 1 .. Len(fs) : i # t => frames'[i] = fs[i]
      /\ request.controlled => ~frames'[t].blocked /\ ~guardedArea' /\ fs[t].timer # "pending"
  BY UnGuardFacts DEF Reduced
<1>2. n \in 1 .. Depth /\ Depth \in Nat /\ Len(fs) = n
  BY ContextFacts DEF Reduced
<1>3. \A i \in 1 .. n : /\ fs[i].app = frames[i].app /\ fs[i].kind = frames[i].kind
                        /\ fs[i].timer = frames[i].timer /\ fs[i].blocked = frames[i].blocked
                        /\ i # n => fs[i].pc = frames[i].pc /\ fs[i].hasLock = frames[i].hasLock
  BY <1>2 DEF Reduced
<1>4. fs[n].pc = pc /\ fs[n].hasLock = lock
  BY DEF Reduced
<1>5. Cut(n, pc, lock, t)
  BY <1>1, <1>2, <1>3, <1>4 DEF Cut, Alike, Depth
<1>6. request.controlled => Freed(t)
  BY <1>1, <1>2, <1>3 DEF Freed, Alike
<1> QED
  BY <1>5, <1>6

LEMMA PlainCut ==
    ASSUME NEW fs, NEW n, NEW pc, NEW lock, Reduced(fs, n, pc, lock), Shape,
           frames' = fs, guardedArea' = guardedArea
    PROVE  Cut(n, pc, lock, n) /\ Kept(n)
<1>1. n \in 1 .. Depth /\ Depth \in Nat /\ Depth' = n /\ frames' \in Seq(Frames)
  BY ContextFacts DEF Reduced, Depth
<1>2. \A i \in 1 .. n - 1 : frames'[i] = frames[i]
  BY DEF Reduced
<1> QED
  BY <1>1, <1>2 DEF Reduced, Cut, Kept

LEMMA TopReduced ==
    ASSUME Shape, NEW e \in Frames, e.app = Top.app, e.kind = Top.kind,
           e.timer = Top.timer, e.blocked = Top.blocked
    PROVE  Reduced([frames EXCEPT ![Depth] = e], Depth, e.pc, e.hasLock)
<1> DEFINE fs == [frames EXCEPT ![Depth] = e]
<1>1. /\ frames \in Seq(Frames) /\ Depth \in Nat /\ Depth >= 1 /\ Len(frames) = Depth
  BY ContextFacts
<1>2. /\ fs \in Seq(Frames) /\ Len(fs) = Depth
      /\ \A i \in 1 .. Depth : fs[i] = IF i = Depth THEN e ELSE frames[i]
  BY <1>1, ExceptSeq
<1> HIDE DEF fs
<1> QED
  BY <1>1, <1>2 DEF Reduced, Top, fs

LEMMA FramesPopped ==
    ASSUME Shape, Depth >= 2
    PROVE  /\ Pop(frames) \in Seq(Frames) /\ Len(Pop(frames)) = Depth - 1
           /\ \A i \in 1 .. Depth - 1 : Pop(frames)[i] = frames[i]
<1>1. Depth \in Nat /\ \A i \in 1 .. Depth : frames[i] \in Frames
  BY ContextFacts
<1>2. Pop(frames) = SubSeq(frames, 1, Depth - 1)
  BY DEF Pop, Depth
<1>3. \A i \in 1 .. Depth - 1 : frames[i] \in Frames
  BY <1>1
<1> QED
  BY <1>1, <1>2, <1>3, SubSeqProperties

LEMMA PopReduced ==
    ASSUME Shape, Depth >= 2, NEW pc \in {"app", "returned", "finishing"}
    PROVE  /\ Reduced(Pop(frames), Depth - 1, frames[Depth - 1].pc, frames[Depth - 1].hasLock)
           /\ Reduced([Pop(frames) EXCEPT ![Depth - 1].pc = pc], Depth - 1, pc,
                      frames[Depth - 1].hasLock)
<1> DEFINE fs == Pop(frames)
           e == [fs[Depth - 1] EXCEPT !.pc = pc]
           gs == [fs EXCEPT ![Depth - 1] = e]
<1>1. Depth \in Nat /\ \A i \in 1 .. Depth : frames[i] \in Frames
  BY ContextFacts
<1>2. fs \in Seq(Frames) /\ Len(fs) = Depth - 1 /\ \A i \in 1 .. Depth - 1 : fs[i] = frames[i]
  BY FramesPopped
<1>3. Reduced(fs, Depth - 1, frames[Depth - 1].pc, frames[Depth - 1].hasLock)
  BY <1>1, <1>2 DEF Reduced
<1>4. fs[Depth - 1] = frames[Depth - 1] /\ frames[Depth - 1] \in Frames
  BY <1>1, <1>2
<1>5. e \in Frames /\ e.pc = pc /\ e.hasLock = frames[Depth - 1].hasLock
      /\ e.app = frames[Depth - 1].app /\ e.kind = frames[Depth - 1].kind
      /\ e.timer = frames[Depth - 1].timer /\ e.blocked = frames[Depth - 1].blocked
  BY <1>4 DEF Frames
<1>6. [Pop(frames) EXCEPT ![Depth - 1].pc = pc] = gs
  OBVIOUS
<1> HIDE DEF e, fs
<1>7. gs \in Seq(Frames) /\ Len(gs) = Depth - 1
      /\ \A i \in 1 .. Depth - 1 : gs[i] = IF i = Depth - 1 THEN e ELSE fs[i]
  BY <1>1, <1>2, <1>5, ExceptSeq
<1> HIDE DEF gs
<1>8. Reduced(gs, Depth - 1, pc, frames[Depth - 1].hasLock)
  BY <1>1, <1>2, <1>5, <1>7 DEF Reduced
<1> QED
  BY <1>3, <1>6, <1>8 DEF fs

LEMMA TopAt ==
    ASSUME Shape, NEW pc \in {"app", "finishing", "returning", "returned", "waiting"}
    PROVE  Reduced([frames EXCEPT ![Depth].pc = pc], Depth, pc, Top.hasLock)
<1> DEFINE e == [Top EXCEPT !.pc = pc]
<1>1. Top \in Frames
  BY ContextFacts
<1>2. e \in Frames /\ e.pc = pc /\ e.hasLock = Top.hasLock /\ e.app = Top.app
      /\ e.kind = Top.kind /\ e.timer = Top.timer /\ e.blocked = Top.blocked
  BY <1>1 DEF Frames
<1>3. [frames EXCEPT ![Depth].pc = pc] = [frames EXCEPT ![Depth] = e]
  BY DEF Top
<1> HIDE DEF e
<1> QED
  BY <1>2, <1>3, TopReduced

LEMMA PushFacts ==
    ASSUME Shape, TypeInv, NEW e \in Frames, NEW f \in Frames,
           e.app = Top.app, e.kind = Top.kind, e.hasLock = Top.hasLock,
           e.timer = Top.timer, e.blocked = Top.blocked,
           e.pc = IF f.kind = "call" THEN "waiting" ELSE "finishing",
           f.pc = "entering", ~f.hasLock,
           Guarded(Append([frames EXCEPT ![Depth] = e], f), Base)
    PROVE  Pushed(f.app, f.kind) /\ frames'[Depth + 1] = f
<1> DEFINE gs == [frames EXCEPT ![Depth] = e]
           fs == Append(gs, f)
<1>1. frames \in Seq(Frames) /\ Depth \in Nat /\ Depth >= 1 /\ Len(frames) = Depth
      /\ Base \in 1 .. Depth
  <2>1. Base \in 1 .. Depth
    BY RequestFacts, BaseFacts, ContextFacts DEF Base, ThreadOf
  <2> QED
    BY <2>1, ContextFacts
<1>2. /\ gs \in Seq(Frames) /\ Len(gs) = Depth
      /\ \A i \in 1 .. Depth : gs[i] = IF i = Depth THEN e ELSE frames[i]
  BY <1>1, ExceptSeq
<1> HIDE DEF gs
<1>3. /\ fs \in Seq(Frames) /\ Len(fs) = Depth + 1 /\ fs[Depth + 1] = f
      /\ \A i \in 1 .. Depth : fs[i] = gs[i]
  BY <1>1, <1>2, AppendProperties
<1>4. Guarded(fs, Base)
  BY DEF gs
<1> HIDE DEF fs
<1>5. Base \in 1 .. Len(fs) /\ Base # Depth + 1
  BY <1>1, <1>3
<1>6. /\ frames' \in Seq(Frames) /\ Len(frames') = Len(fs)
      /\ \A i \in 1 .. Len(fs) : Alike(frames'[i], fs[i])
      /\ \A i \in 1 .. Len(fs) : i # Base => frames'[i] = fs[i]
      /\ request.controlled => frames'[Base].blocked
  BY <1>3, <1>4, <1>5, GuardedFacts
<1>7. /\ frames'[Depth + 1] = f /\ \A i \in 1 .. Depth : Alike(frames'[i], gs[i])
      /\ \A i \in 1 .. Depth : i # Base => frames'[i] = gs[i]
  BY <1>1, <1>3, <1>5, <1>6
<1>8. gs[Depth] = e /\ frames[Depth] = Top /\ \A i \in 1 .. Depth - 1 : gs[i] = frames[i]
  BY <1>1, <1>2 DEF Top
<1>9. \A i \in 1 .. Depth : /\ gs[i].app = frames[i].app /\ gs[i].kind = frames[i].kind
                            /\ gs[i].hasLock = frames[i].hasLock
                            /\ gs[i].timer = frames[i].timer /\ gs[i].blocked = frames[i].blocked
  BY <1>1, <1>8
<1>10. Depth' = Depth + 1
  BY <1>3, <1>6 DEF Depth
<1> HIDE DEF fs, Base
<1>11. \A i \in 1 .. Depth : /\ frames'[i].app = gs[i].app /\ frames'[i].kind = gs[i].kind
                             /\ frames'[i].hasLock = gs[i].hasLock
                             /\ frames'[i].timer = gs[i].timer
                             /\ frames'[i].pc = gs[i].pc
  BY <1>7 DEF Alike
<1>12. Depth \in 1 .. Depth /\ \A i \in 1 .. Depth - 1 : i \in 1 .. Depth
  BY <1>1
<1>13. \A i \in 1 .. Depth : /\ frames'[i].app = frames[i].app /\ frames'[i].kind = frames[i].kind
                             /\ frames'[i].hasLock = frames[i].hasLock
                             /\ frames'[i].timer = frames[i].timer
  BY <1>9, <1>11
<1>14. \A i \in 1 .. Depth - 1 : frames'[i].pc = frames[i].pc
  BY <1>8, <1>11, <1>12
<1>15. \A i \in 1 .. Depth : i # Base => frames'[i].blocked = frames[i].blocked
  BY <1>7, <1>9
<1>16. frames'[Depth].pc = IF f.kind = "call" THEN "waiting" ELSE "finishing"
  BY <1>8, <1>11, <1>12
<1> QED
  BY <1>6, <1>7, <1>10, <1>13, <1>14, <1>15, <1>16 DEF Pushed

-----------------------------------------------------------------------------
(* Gas and handlers *)

LEMMA GasForBound ==
    ASSUME TypeInv, Resources \in HandlerRecords, NEW forwarded \in 0 .. 255
    PROVE  GasFor(forwarded) \in 0 .. Resources.remaining
<1> DEFINE r == Resources.remaining
<1>1. r \in Nat
  BY DEF HandlerRecords
<1> HIDE DEF r
<1>2. r * forwarded \in Nat /\ r * forwarded <= 256 * r
  BY <1>1
<1> DEFINE p == r * forwarded
<1>3. p \in Nat /\ p <= 256 * r
  BY <1>2
<1> HIDE DEF p
<1>4. p \div 256 \in 0 .. r
  BY <1>1, <1>3
<1> QED
  BY <1>4 DEF GasFor, r, p

LEMMA ExternalGasBound ==
    ASSUME NEW gas \in Nat
    PROVE  ExternalGas(gas) \in Nat /\ 3 * ExternalGas(gas) <= 2 * gas
BY DEF ExternalGas

LEMMA CallsFacts ==
    ASSUME NEW app \in Apps, NEW forwarded, Calls(app, forwarded)
    PROVE  forwarded \in 0 .. 255 /\ Top.pc \in {"app", "start"} /\ Running
<1>1. Forwards \subseteq 0 .. 255
  BY ExecutorCallsAssumption
<1>2. CASE At("app") /\ forwarded \in Forwards
  BY <1>1, <1>2 DEF At, Running
<1>3. CASE At("start") /\ app = request.app /\ forwarded = 255
  BY <1>3 DEF At, Running
<1> QED
  BY <1>2, <1>3 DEF Calls

LEMMA ForwardingFacts ==
    ASSUME TypeInv, Len(resources) >= 1, NEW gas \in 0 .. Resources.remaining
    PROVE  /\ Forwarding(gas) \in Seq(HandlerRecords)
           /\ Len(Forwarding(gas)) = Len(resources)
           /\ \A i \in 1 .. Len(resources) - 1 : Forwarding(gas)[i] = resources[i]
           /\ Forwarding(gas)[Len(resources)] = [Resources EXCEPT !.remaining = @ - gas]
<1> DEFINE e == [Resources EXCEPT !.remaining = @ - gas]
<1>1. resources \in Seq(HandlerRecords) /\ Len(resources) \in Nat
  BY DEF TypeInv
<1>2. Resources \in HandlerRecords
  BY <1>1, ElementOfSeq DEF Resources
<1>3. e \in HandlerRecords
  BY <1>2 DEF HandlerRecords
<1>4. Forwarding(gas) = [resources EXCEPT ![Len(resources)] = e]
  BY DEF Forwarding, Resources
<1> HIDE DEF e
<1>5. /\ Forwarding(gas) \in Seq(HandlerRecords) /\ Len(Forwarding(gas)) = Len(resources)
      /\ \A i \in 1 .. Len(resources) : Forwarding(gas)[i] = IF i = Len(resources) THEN e ELSE resources[i]
  BY <1>1, <1>3, <1>4, ExceptSeq
<1> QED
  BY <1>1, <1>5 DEF e

LEMMA HandlerType ==
    ASSUME TypeInv, NEW id \in Nat, NEW gas \in Nat, NEW external \in Nat
    PROVE  Handler(id, gas, external) \in HandlerRecords
BY DEF TypeInv, Handler, HandlerRecords

LEMMA HandlersPopped ==
    ASSUME TypeInv, Len(resources) >= 1
    PROVE  /\ Pop(resources) \in Seq(HandlerRecords) /\ Len(Pop(resources)) = Len(resources) - 1
           /\ \A i \in 1 .. Len(resources) - 1 : Pop(resources)[i] = resources[i]
<1>1. resources \in Seq(HandlerRecords) /\ Len(resources) \in Nat
  BY DEF TypeInv
<1>2. \A i \in 1 .. Len(resources) - 1 : resources[i] \in HandlerRecords
  BY <1>1, ElementOfSeq
<1> DEFINE n == Len(resources) - 1
<1>3. Pop(resources) = SubSeq(resources, 1, n)
  BY DEF Pop
<1>4. n \in Nat /\ \A i \in 1 .. n : resources[i] \in HandlerRecords
  BY <1>1, <1>2
<1> HIDE DEF n
<1>5. /\ SubSeq(resources, 1, n) \in Seq(HandlerRecords) /\ Len(SubSeq(resources, 1, n)) = n
      /\ \A i \in 1 .. n : SubSeq(resources, 1, n)[i] = resources[i]
  BY <1>4, SubSeqProperties
<1> QED
  BY <1>3, <1>5 DEF n

-----------------------------------------------------------------------------
(* Every step of a running request is one of these moves *)

\* What is known before a step of a request that runs.
Ready == TypeInv /\ Shape /\ Handlers /\ Running

LEMMA ReadyFacts ==
    ASSUME Ready
    PROVE  /\ request.controlled \in BOOLEAN /\ Base \in 1 .. Depth
           /\ UNCHANGED <<resources, callDepth>> => Count(0)
           /\ Top.pc \in {"app", "entering", "finishing", "returning"} => Depth >= 2
           /\ Len(resources) \in Nat
<1>1. request.controlled \in BOOLEAN
  BY RequestFacts DEF Ready
<1>2. Base \in 1 .. Depth
  BY <1>1, BaseFacts, ContextFacts DEF Ready, Base, ThreadOf
<1>3. Len(resources) \in Nat
  BY DEF Ready, TypeInv
<1>4. UNCHANGED <<resources, callDepth>> => Count(0)
  BY <1>1, <1>3 DEF Ready, Handlers, Count
<1>5. Top.pc \in {"app", "entering", "finishing", "returning"} => Depth >= 2
  BY ContextFacts DEF Ready, Top
<1> QED
  BY <1>1, <1>2, <1>3, <1>4, <1>5

LEMMA AfterCallFacts ==
    ASSUME Shape, NEW i \in 1 .. Depth
    PROVE  AfterCall(i) = IF i = 1 THEN "returned" ELSE "app"
BY DEF Shape, AfterCall

LEMMA RefusesStep ==
    ASSUME Ready, Running', request.controlled, Top.pc \in {"app", "start"},
           UnGuard([frames EXCEPT ![Depth].pc = AfterCall(Depth)], Base),
           isLocked' = isLocked, context' \in {context, Top.app}
    PROVE  Refuses
<1>1. AfterCall(Depth) \in {"app", "returned"}
  BY AfterCallFacts, ContextFacts DEF Ready
<1>2. Reduced([frames EXCEPT ![Depth].pc = AfterCall(Depth)], Depth, AfterCall(Depth), Top.hasLock)
  BY <1>1, TopAt DEF Ready
<1>3. Base \in 1 .. Depth
  BY ReadyFacts
<1> HIDE DEF Base
<1>4. Cut(Depth, AfterCall(Depth), Top.hasLock, Base) /\ Freed(Base)
  BY <1>2, <1>3, UnGuardCut DEF Ready
<1> QED
  BY <1>4 DEF Refuses, SameLocks

LEMMA InvokeWithoutGasMoves ==
    ASSUME Ready, Running', NEW app \in Apps, NEW forwarded, InvokeWithoutGas(app, forwarded)
    PROVE  Moves
<1>1. Count(0)
  BY ReadyFacts DEF InvokeWithoutGas, handlerVars
<1>2. Refuses
  BY RefusesStep, CallsFacts DEF InvokeWithoutGas
<1> QED
  BY <1>1, <1>2 DEF Moves

LEMMA InvokeTooDeepMoves ==
    ASSUME Ready, Running', NEW app \in Apps, NEW forwarded, InvokeTooDeep(app, forwarded)
    PROVE  Moves
<1>1. forwarded \in 0 .. 255 /\ Top.pc \in {"app", "start"} /\ request.controlled
  BY CallsFacts DEF InvokeTooDeep
<1>2. Len(resources) >= 1 /\ Resources \in HandlerRecords
  BY <1>1, HandlersAlive DEF Ready
<1>3. GasFor(forwarded) \in 0 .. Resources.remaining
  BY <1>1, <1>2, GasForBound DEF Ready
<1>4. resources' = Forwarding(GasFor(forwarded)) /\ callDepth' = callDepth
  BY DEF InvokeTooDeep
<1>5. Len(Forwarding(GasFor(forwarded))) = Len(resources)
  BY <1>2, <1>3, ForwardingFacts DEF Ready
<1>6. Count(0)
  BY <1>4, <1>5, ReadyFacts DEF Count, Ready, Handlers
<1>7. Refuses
  BY <1>1, RefusesStep DEF InvokeTooDeep
<1> QED
  BY <1>6, <1>7 DEF Moves

LEMMA FrameType ==
    ASSUME NEW app \in Apps, NEW kind \in {"call", "deferred"}, NEW timer \in {"none", "armed"}
    PROVE  /\ Frame(app, kind, timer) \in Frames
           /\ Frame(app, kind, timer).app = app /\ Frame(app, kind, timer).kind = kind
           /\ Frame(app, kind, timer).pc = "entering" /\ ~Frame(app, kind, timer).hasLock
           /\ Frame(app, kind, timer).timer = timer
           /\ timer = "armed" /\ kind = "call" => Frame(app, kind, timer).blocked
<1>1. << >> \in Seq(Apps)
  OBVIOUS
<1> QED
  BY <1>1 DEF Frame, Frames

LEMMA CallPushed ==
    ASSUME Ready, NEW app \in Apps, NEW timer \in {"none", "armed"},
           Guarded(Append([frames EXCEPT ![Depth].pc = "waiting"], Frame(app, "call", timer)), Base)
    PROVE  Pushed(app, "call") /\ frames'[Depth + 1] = Frame(app, "call", timer)
<1> DEFINE e == [Top EXCEPT !.pc = "waiting"]
           f == Frame(app, "call", timer)
<1>1. Top \in Frames
  BY ContextFacts DEF Ready
<1>2. e \in Frames /\ e.pc = "waiting" /\ e.hasLock = Top.hasLock /\ e.app = Top.app
      /\ e.kind = Top.kind /\ e.timer = Top.timer /\ e.blocked = Top.blocked
  BY <1>1 DEF Frames
<1>3. [frames EXCEPT ![Depth].pc = "waiting"] = [frames EXCEPT ![Depth] = e]
  BY DEF Top
<1>4. f \in Frames /\ f.app = app /\ f.kind = "call" /\ f.pc = "entering" /\ ~f.hasLock
  BY FrameType
<1> HIDE DEF e, f
<1>5. Guarded(Append([frames EXCEPT ![Depth] = e], f), Base)
  BY <1>3 DEF f
<1>6. Pushed(f.app, f.kind) /\ frames'[Depth + 1] = f
  BY <1>2, <1>4, <1>5, PushFacts DEF Ready
<1> QED
  BY <1>4, <1>6 DEF f

LEMMA InvokeMoves ==
    ASSUME Ready, NEW app \in Apps, NEW forwarded, Invoke(app, forwarded)
    PROVE  Moves
<1>1. forwarded \in 0 .. 255 /\ Top.pc \in {"app", "start"} /\ request.controlled
  BY CallsFacts DEF Invoke
<1>2. Len(resources) >= 1 /\ Resources \in HandlerRecords
  BY <1>1, HandlersAlive DEF Ready
<1>3. GasFor(forwarded) \in 0 .. Resources.remaining /\ GasFor(forwarded) \in Nat
  <2>1. GasFor(forwarded) \in 0 .. Resources.remaining
    BY <1>1, <1>2, GasForBound DEF Ready
  <2> QED
    BY <2>1
<1> DEFINE rs == Forwarding(GasFor(forwarded))
           h == Handler(lastGeneratedID + 1, GasFor(forwarded), ExternalGas(GasFor(forwarded)))
<1>4. rs \in Seq(HandlerRecords) /\ Len(rs) = Len(resources)
  BY <1>2, <1>3, ForwardingFacts DEF Ready
<1>5. h \in HandlerRecords
  <2>1. TypeInv /\ lastGeneratedID \in Nat
    BY DEF Ready, TypeInv
  <2>2. lastGeneratedID + 1 \in Nat
    BY <2>1
  <2>3. ExternalGas(GasFor(forwarded)) \in Nat
    BY <1>3, ExternalGasBound
  <2> QED
    BY <1>3, <2>1, <2>2, <2>3, HandlerType
<1>6. resources' = Append(rs, h) /\ callDepth' = callDepth + 1 /\ ~TooDeep
  BY DEF Invoke, NextInvocation
<1> HIDE DEF rs, h
<1>7. Len(resources') = Len(resources) + 1
  BY <1>4, <1>5, <1>6, AppendProperties
<1>8. Count(1)
  BY <1>6, <1>7 DEF Count
<1>9. Pushed(app, "call") /\ frames'[Depth + 1] = Frame(app, "call", "armed")
  BY CallPushed DEF Invoke
<1>10. PushesCall
  <2>1. frames'[Depth + 1].blocked /\ frames'[Depth + 1].timer = "armed"
    BY <1>9, FrameType
  <2>2. isLocked' = isLocked /\ context' = context
    BY DEF Invoke
  <2> QED
    BY <1>1, <1>6, <1>9, <2>1, <2>2 DEF PushesCall, SameLocks
<1> QED
  BY <1>8, <1>10 DEF Moves

LEMMA InvokeOptimisticMoves ==
    ASSUME Ready, NEW app \in Apps, NEW forwarded, InvokeOptimistic(app, forwarded)
    PROVE  Moves
<1>1. Top.pc \in {"app", "start"} /\ ~request.controlled
  BY CallsFacts DEF InvokeOptimistic
<1>2. Handler(0, 0, 0) \in HandlerRecords
  BY HandlerType DEF Ready
<1>3. resources' = Append(resources, Handler(0, 0, 0)) /\ resources \in Seq(HandlerRecords)
  BY DEF InvokeOptimistic, Ready, TypeInv
<1>4. Count(1)
  BY <1>1, <1>2, <1>3, AppendProperties DEF Count
<1>5. Pushed(app, "call") /\ frames'[Depth + 1] = Frame(app, "call", "none")
  BY CallPushed DEF InvokeOptimistic
<1>6. PushesCall
  BY <1>1, <1>5 DEF PushesCall, InvokeOptimistic, SameLocks
<1> QED
  BY <1>4, <1>6 DEF Moves

LEMMA EnterMoves ==
    ASSUME Ready, Running', Enter
    PROVE  Moves
<1>1. Count(0)
  BY ReadyFacts DEF Enter, handlerVars
<1>2. Reduced([frames EXCEPT ![Depth].pc = "app"], Depth, "app", Top.hasLock)
  BY TopAt DEF Ready
<1>3. Base \in 1 .. Depth
  BY ReadyFacts
<1>4. UnGuard([frames EXCEPT ![Depth].pc = "app"], Base)
  BY DEF Enter
<1> HIDE DEF Base
<1>5. Cut(Depth, "app", Top.hasLock, Base) /\ (request.controlled => Freed(Base))
  BY <1>2, <1>3, <1>4, UnGuardCut DEF Ready
<1>6. Enters
  BY <1>5 DEF Enters, Enter, Accepts, At, SameLocks
<1> QED
  BY <1>1, <1>6 DEF Moves

LEMMA UnwoundFacts ==
    ASSUME Ready, request.controlled, NEW fs \in Seq(Frames), Len(fs) = Depth,
           frames[Base].kind = "call",
           \A i \in 1 .. Base - 1 : fs[i] = frames[i],
           fs[Base].app = frames[Base].app, fs[Base].kind = frames[Base].kind
    PROVE  /\ Unwound(fs) \in Seq(Frames) /\ Len(Unwound(fs)) = Base
           /\ \A i \in 1 .. Base - 1 : Unwound(fs)[i] = frames[i]
           /\ Unwound(fs)[Base].app = frames[Base].app
           /\ Unwound(fs)[Base].kind = frames[Base].kind
           /\ Unwound(fs)[Base].pc = "returning" /\ Unwound(fs)[Base].hasLock = FALSE
           /\ Unwound(fs)[Base].timer = fs[Base].timer
<1> DEFINE g == SubSeq(fs, 1, Base)
           e == [fs[Base] EXCEPT !.pc = "returning", !.ok = FALSE, !.hasLock = FALSE,
                                 !.deferred = << >>]
<1>1. Base \in 1 .. Depth /\ Depth \in Nat
  BY ReadyFacts, ContextFacts DEF Ready
<1> HIDE DEF Base
<1>2. \A i \in 1 .. Base : fs[i] \in Frames
  BY <1>1, ElementOfSeq
<1>3. g \in Seq(Frames) /\ Len(g) = Base /\ \A i \in 1 .. Base : g[i] = fs[i]
  BY <1>1, <1>2, SubSeqProperties
<1> HIDE DEF g
<1>4. Unwound(fs) = [g EXCEPT ![Base] = e]
  <2>1. Base \in DOMAIN g /\ g[Base] = fs[Base]
    BY <1>1, <1>3
  <2> QED
    BY <2>1 DEF Unwound, g
<1>5. << >> \in Seq(Apps)
  OBVIOUS
<1>6. e \in Frames /\ e.app = fs[Base].app /\ e.kind = fs[Base].kind /\ e.pc = "returning"
      /\ e.hasLock = FALSE /\ e.timer = fs[Base].timer
  <2>1. fs[Base] \in Frames /\ "returning" \in {"returning"} /\ FALSE \in BOOLEAN
    BY <1>1, <1>2
  <2>2. e \in Frames
    BY <2>1, <1>5 DEF Frames
  <2>3. e.app = fs[Base].app /\ e.kind = fs[Base].kind
    BY <2>1 DEF Frames
  <2>4. e.timer = fs[Base].timer
    BY <2>1 DEF Frames
  <2>5. e.pc = "returning"
    BY <2>1 DEF Frames
  <2>6. e.hasLock = FALSE
    BY <2>1 DEF Frames
  <2> QED
    BY <2>2, <2>3, <2>4, <2>5, <2>6
<1> HIDE DEF e
<1>7. /\ Unwound(fs) \in Seq(Frames) /\ Len(Unwound(fs)) = Base
      /\ \A i \in 1 .. Base : Unwound(fs)[i] = IF i = Base THEN e ELSE g[i]
  BY <1>1, <1>3, <1>4, <1>6, ExceptSeq
<1> QED
  BY <1>1, <1>3, <1>6, <1>7

LEMMA FailStep ==
    ASSUME Ready, Running', Top.pc \in {"app", "entering", "finishing"},
           NEW fs \in Seq(Frames), Len(fs) = Depth,
           \A i \in 1 .. Base - 1 : fs[i] = frames[i],
           fs[Base].app = frames[Base].app, fs[Base].kind = frames[Base].kind,
           fs[Base].timer \in {frames[Base].timer, "spent"},
           FailFrom(fs)
    PROVE  Fails
<1>1. request.controlled
  BY DEF FailFrom, Lose, Running
<1>2. Base \in 1 .. Depth /\ Depth >= 2 /\ Depth \in Nat
  BY ReadyFacts, ContextFacts DEF Ready
<1>3. frames[Base].kind = "call"
  BY <1>1, <1>2, BaseFacts DEF Ready
<1> DEFINE u == Unwound(fs)
<1>4. UnGuard(u, Base) /\ isLocked' = LocksWithout(Base)
  BY <1>1 DEF FailFrom
<1> HIDE DEF Base
<1>5. /\ u \in Seq(Frames) /\ Len(u) = Base
      /\ \A i \in 1 .. Base - 1 : u[i] = frames[i]
      /\ u[Base].app = frames[Base].app /\ u[Base].kind = frames[Base].kind
      /\ u[Base].pc = "returning" /\ u[Base].hasLock = FALSE
      /\ u[Base].timer = fs[Base].timer
  BY <1>1, <1>3, UnwoundFacts
<1> HIDE DEF u
<1>6. /\ frames' \in Seq(Frames) /\ Len(frames') = Base
      /\ \A i \in 1 .. Base : Alike(frames'[i], u[i])
      /\ \A i \in 1 .. Base : i # Base => frames'[i] = u[i]
  BY <1>2, <1>4, <1>5, UnGuardFacts DEF Ready
<1>7. Depth' = Base
  BY <1>6 DEF Depth
<1>8. Cut(Base, "returning", FALSE, Base)
  <2>1. \A i \in 1 .. Base - 1 : frames'[i] = frames[i]
    BY <1>2, <1>5, <1>6
  <2>2. frames'[Base].app = frames[Base].app /\ frames'[Base].kind = frames[Base].kind
        /\ frames'[Base].pc = "returning" /\ frames'[Base].hasLock = FALSE
    BY <1>2, <1>5, <1>6 DEF Alike
  <2> QED
    BY <1>2, <1>6, <1>7, <2>1, <2>2 DEF Cut
<1>9. frames'[Base].timer \in {frames[Base].timer, "spent"}
  BY <1>2, <1>5, <1>6 DEF Alike
<1> QED
  BY <1>1, <1>4, <1>8, <1>9 DEF Fails

\* An error that leaves the contexts as they are.
LEMMA FailNow ==
    ASSUME Ready, Running', Top.pc \in {"app", "entering", "finishing"}, FailFrom(frames)
    PROVE  Fails
<1>1. frames \in Seq(Frames) /\ Len(frames) = Depth
  BY ContextFacts DEF Ready
<1> QED
  BY <1>1, FailStep

LEMMA EnterRefusedMoves ==
    ASSUME Ready, Running', EnterRefused
    PROVE  Moves
<1>1. Count(0) /\ Top.pc = "entering"
  BY ReadyFacts DEF EnterRefused, handlerVars, At
<1>2. CASE request.controlled /\ Top.kind = "call"
  <2> DEFINE e == [Top EXCEPT !.pc = "returning", !.ok = FALSE]
  <2>1. frames' = [frames EXCEPT ![Depth] = e]
    BY <1>2 DEF EnterRefused, Top
  <2>2. Top \in Frames
    BY ContextFacts DEF Ready
  <2>3. e \in Frames /\ e.pc = "returning" /\ e.hasLock = Top.hasLock /\ e.app = Top.app
        /\ e.kind = Top.kind /\ e.timer = Top.timer /\ e.blocked = Top.blocked
    BY <2>2 DEF Frames
  <2> HIDE DEF e
  <2>4. Reduced([frames EXCEPT ![Depth] = e], Depth, "returning", Top.hasLock)
    BY <2>3, TopReduced DEF Ready
  <2>5. guardedArea' = guardedArea /\ isLocked' = isLocked
    BY <1>2 DEF EnterRefused
  <2>6. Cut(Depth, "returning", Top.hasLock, Depth) /\ Kept(Depth)
    BY <2>1, <2>4, <2>5, PlainCut DEF Ready
  <2> QED
    BY <1>1, <1>2, <2>5, <2>6 DEF Moves, Answers, SameLocks
<1>3. CASE ~(request.controlled /\ Top.kind = "call")
  BY <1>1, <1>3, FailNow DEF Moves, EnterRefused
<1> QED
  BY <1>2, <1>3

LEMMA SetLockMoves ==
    ASSUME Ready, Running', NEW held \in BOOLEAN, Top.pc = "app", Top.hasLock # held,
           held => ~isLocked[Top.app], SetLock(held), UNCHANGED <<guardedArea, context>>
    PROVE  SetsLock(held)
<1> DEFINE e == [Top EXCEPT !.hasLock = held]
<1>1. frames' = [frames EXCEPT ![Depth] = e]
  BY DEF SetLock, Top
<1>2. Top \in Frames
  BY ContextFacts DEF Ready
<1>3. e \in Frames /\ e.pc = "app" /\ e.hasLock = held /\ e.app = Top.app
      /\ e.kind = Top.kind /\ e.timer = Top.timer /\ e.blocked = Top.blocked
  BY <1>2 DEF Frames
<1> HIDE DEF e
<1>4. Reduced([frames EXCEPT ![Depth] = e], Depth, "app", held)
  BY <1>3, TopReduced DEF Ready
<1>5. Cut(Depth, "app", held, Depth) /\ Kept(Depth)
  BY <1>1, <1>4, PlainCut DEF Ready
<1> QED
  BY <1>5 DEF SetsLock, SetLock

LEMMA EnterAreaMoves ==
    ASSUME Ready, Running', EnterArea
    PROVE  Moves
<1>1. Count(0) /\ Top.pc = "app"
  BY ReadyFacts DEF EnterArea, handlerVars, Does, At
<1>2. CASE isLocked[Top.app]
  BY <1>1, <1>2, FailNow DEF Moves, EnterArea
<1>3. CASE ~isLocked[Top.app]
  <2>1. ~Top.hasLock /\ Top.hasLock \in BOOLEAN
    BY ContextFacts DEF EnterArea, Frames, Ready
  <2>2. SetsLock(TRUE)
    BY <1>1, <1>3, <2>1, SetLockMoves DEF EnterArea
  <2> QED
    BY <1>1, <2>2 DEF Moves
<1> QED
  BY <1>2, <1>3

LEMMA ExitAreaMoves ==
    ASSUME Ready, Running', ExitArea
    PROVE  Moves
<1>1. Count(0) /\ Top.pc = "app"
  BY ReadyFacts DEF ExitArea, handlerVars, Does, At
<1>2. Top.hasLock /\ Top.hasLock \in BOOLEAN
  BY ContextFacts DEF ExitArea, Frames, Ready
<1>3. SetsLock(FALSE)
  BY <1>1, <1>2, SetLockMoves DEF ExitArea
<1> QED
  BY <1>1, <1>3 DEF Moves

LEMMA StaysStep ==
    ASSUME Ready, UNCHANGED <<handlerVars, frames, guardedArea, isLocked, context>>
    PROVE  Moves
<1>1. Count(0)
  BY ReadyFacts DEF handlerVars
<1>2. Reduced(frames, Depth, Top.pc, Top.hasLock)
  BY ContextFacts DEF Reduced, Top, Ready
<1>3. Cut(Depth, Top.pc, Top.hasLock, Depth) /\ Kept(Depth)
  BY <1>2, PlainCut DEF Ready
<1> QED
  BY <1>1, <1>3 DEF Moves, Stays, SameLocks

LEMMA InvokeDeferredMoves ==
    ASSUME Ready, NEW app \in Apps, InvokeDeferred(app)
    PROVE  Moves
<1> DEFINE e == [Top EXCEPT !.deferred = Append(@, app)]
<1>1. Count(0)
  BY ReadyFacts DEF InvokeDeferred, handlerVars
<1>2. frames' = [frames EXCEPT ![Depth] = e]
  BY DEF InvokeDeferred, Top
<1>3. Top \in Frames /\ Top.deferred \in Seq(Apps)
  BY ContextFacts DEF Ready, Frames
<1>4. Append(Top.deferred, app) \in Seq(Apps)
  BY <1>3, AppendProperties
<1>5. e \in Frames /\ e.pc = Top.pc /\ e.hasLock = Top.hasLock /\ e.app = Top.app
      /\ e.kind = Top.kind /\ e.timer = Top.timer /\ e.blocked = Top.blocked
  BY <1>3, <1>4 DEF Frames
<1> HIDE DEF e
<1>6. Reduced([frames EXCEPT ![Depth] = e], Depth, Top.pc, Top.hasLock)
  BY <1>5, TopReduced DEF Ready
<1>7. guardedArea' = guardedArea
  BY DEF InvokeDeferred
<1>8. Cut(Depth, Top.pc, Top.hasLock, Depth) /\ Kept(Depth)
  BY <1>2, <1>6, <1>7, PlainCut DEF Ready
<1> QED
  BY <1>1, <1>8 DEF Moves, Stays, SameLocks, InvokeDeferred

LEMMA AppFailsMoves ==
    ASSUME Ready, Running', AppFails
    PROVE  Moves
<1>1. Count(0) /\ Top.pc = "app"
  BY ReadyFacts DEF AppFails, handlerVars, Does, At
<1> QED
  BY <1>1, FailNow DEF Moves, AppFails

LEMMA LoadsNoChunksMoves ==
    ASSUME Ready, Running', LoadsNoChunks
    PROVE  Moves
<1>1. Count(0) /\ Top.pc = "app" /\ FailFrom(frames)
  BY ReadyFacts DEF LoadsNoChunks, Lose, Running, handlerVars, Does, At
<1> QED
  BY <1>1, FailNow DEF Moves

LEMMA ReturnMoves ==
    ASSUME Ready, Return
    PROVE  Moves
<1> DEFINE e == [Top EXCEPT !.pc = "finishing", !.hasLock = FALSE]
<1>1. Count(0) /\ Top.pc = "app"
  BY ReadyFacts DEF Return, handlerVars, At
<1>2. frames' = [frames EXCEPT ![Depth] = e]
  BY DEF Return, Top
<1>3. Top \in Frames
  BY ContextFacts DEF Ready
<1>4. e \in Frames /\ e.pc = "finishing" /\ e.hasLock = FALSE /\ e.app = Top.app
      /\ e.kind = Top.kind /\ e.timer = Top.timer /\ e.blocked = Top.blocked
  BY <1>3 DEF Frames
<1> HIDE DEF e
<1>5. Reduced([frames EXCEPT ![Depth] = e], Depth, "finishing", FALSE)
  BY <1>4, TopReduced DEF Ready
<1>6. guardedArea' = guardedArea
  BY DEF Return
<1>7. Cut(Depth, "finishing", FALSE, Depth) /\ Kept(Depth)
  BY <1>2, <1>5, <1>6, PlainCut DEF Ready
<1> QED
  BY <1>1, <1>7 DEF Moves, Returns, Return

LEMMA StartDeferredMoves ==
    ASSUME Ready, StartDeferred
    PROVE  Moves
<1> DEFINE e == [Top EXCEPT !.deferred = Tail(@)]
           app == Head(Top.deferred)
           f == Frame(app, "deferred", "none")
<1>1. Count(0) /\ Top.pc = "finishing" /\ Top.deferred # << >>
  BY ReadyFacts DEF StartDeferred, handlerVars, At
<1>2. Top \in Frames /\ Top.deferred \in Seq(Apps)
  BY ContextFacts DEF Ready, Frames
<1>3. Tail(Top.deferred) \in Seq(Apps) /\ app \in Apps
  BY <1>1, <1>2, HeadTailProperties
<1>4. e \in Frames /\ e.pc = "finishing" /\ e.hasLock = Top.hasLock /\ e.app = Top.app
      /\ e.kind = Top.kind /\ e.timer = Top.timer /\ e.blocked = Top.blocked
  BY <1>1, <1>2, <1>3 DEF Frames
<1>5. Guarded(Append([frames EXCEPT ![Depth] = e], f), Base)
  BY DEF StartDeferred, Top
<1> HIDE DEF e, app
<1>6. f \in Frames /\ f.app = app /\ f.kind = "deferred" /\ f.pc = "entering" /\ ~f.hasLock
      /\ f.timer = "none"
  BY <1>3, FrameType
<1> HIDE DEF f
<1>7. Pushed(f.app, f.kind) /\ frames'[Depth + 1] = f
  BY <1>4, <1>5, <1>6, PushFacts DEF Ready
<1>8. PushesDeferred
  BY <1>1, <1>3, <1>6, <1>7 DEF PushesDeferred, StartDeferred, SameLocks
<1> QED
  BY <1>1, <1>8 DEF Moves

LEMMA PopsCallStep ==
    ASSUME Ready, Running', Top.pc \in {"finishing", "returning"}, Top.kind = "call",
           NEW t \in 1 .. Depth - 1, request.controlled => t = ThreadOf(Pop(frames)),
           UnGuard([Pop(frames) EXCEPT ![Depth - 1].pc = AfterCall(Depth - 1)], t),
           isLocked' = isLocked, RestoreContext
    PROVE  PopsCall
<1>1. Depth >= 2 /\ Depth \in Nat /\ Depth - 1 \in 1 .. Depth
  BY ReadyFacts, ContextFacts DEF Ready
<1>2. AfterCall(Depth - 1) \in {"app", "returned"}
  BY <1>1, AfterCallFacts DEF Ready
<1>3. Reduced([Pop(frames) EXCEPT ![Depth - 1].pc = AfterCall(Depth - 1)], Depth - 1,
              AfterCall(Depth - 1), frames[Depth - 1].hasLock)
  BY <1>1, <1>2, PopReduced DEF Ready
<1>4. Cut(Depth - 1, AfterCall(Depth - 1), frames[Depth - 1].hasLock, t)
      /\ (request.controlled => Freed(t))
  BY <1>1, <1>3, UnGuardCut DEF Ready
<1>5. ASSUME request.controlled PROVE IsThread(frames', t)
  <2>1. /\ Pop(frames) \in Seq(Frames) /\ Len(Pop(frames)) = Depth - 1
        /\ \A i \in 1 .. Depth - 1 : Pop(frames)[i] = frames[i]
    BY <1>1, FramesPopped DEF Ready
  <2>2. Pop(frames)[1].kind # "deferred"
    BY <1>1, <2>1, ContextFacts DEF Ready
  <2>3. IsThread(Pop(frames), t)
    BY <1>1, <1>5, <2>1, <2>2, ThreadFacts
  <2>4. Len(frames') = Depth - 1 /\ \A i \in 1 .. Depth - 1 : frames'[i].kind = frames[i].kind
    BY <1>4 DEF Cut, Depth
  <2> QED
    BY <1>1, <2>1, <2>3, <2>4 DEF IsThread
<1>6. SameLocks /\ context' = frames[Depth - 1].app
  BY DEF SameLocks, RestoreContext
<1> QED
  BY <1>1, <1>4, <1>5, <1>6 DEF PopsCall

LEMMA LeaveContextMoves ==
    ASSUME Ready, Running', LeaveContext
    PROVE  Moves
<1>1. Top.pc = "finishing" /\ Depth >= 2 /\ Depth \in Nat
      /\ Top.kind \in {"call", "deferred"} /\ request.controlled \in BOOLEAN
  BY ReadyFacts, ContextFacts DEF LeaveContext, At, Ready, Top
<1>2. guardedArea' = guardedArea /\ isLocked' = isLocked
  BY DEF LeaveContext
<1>3. CASE Top.kind = "deferred"
  <2>1. Count(0) /\ frames' = Pop(frames)
    BY <1>3, ReadyFacts DEF LeaveContext, handlerVars
  <2>2. Reduced(Pop(frames), Depth - 1, frames[Depth - 1].pc, frames[Depth - 1].hasLock)
    BY <1>1, PopReduced DEF Ready
  <2>3. frames[Depth - 1].pc = "finishing"
    BY <1>1, <1>3 DEF Ready, Shape, Top
  <2>4. Cut(Depth - 1, "finishing", frames[Depth - 1].hasLock, Depth - 1) /\ Kept(Depth - 1)
    BY <1>2, <2>1, <2>2, <2>3, PlainCut DEF Ready
  <2> QED
    BY <1>1, <1>2, <1>3, <2>1, <2>4 DEF Moves, PopsDeferred, SameLocks
<1>4. CASE Top.kind = "call" /\ request.controlled
  <2>1. Count(0) /\ frames' = [frames EXCEPT ![Depth].pc = "returning"]
    BY <1>4, ReadyFacts DEF LeaveContext, handlerVars
  <2>2. Reduced([frames EXCEPT ![Depth].pc = "returning"], Depth, "returning", Top.hasLock)
    BY TopAt DEF Ready
  <2>3. Cut(Depth, "returning", Top.hasLock, Depth) /\ Kept(Depth)
    BY <1>2, <2>1, <2>2, PlainCut DEF Ready
  <2> QED
    BY <1>1, <1>2, <1>4, <2>1, <2>3 DEF Moves, Answers, SameLocks
<1>5. CASE Top.kind = "call" /\ ~request.controlled
  <2> DEFINE fs == [Pop(frames) EXCEPT ![Depth - 1].pc = AfterCall(Depth - 1)]
  <2>1. resources' = Pop(resources) /\ frames' = fs
    BY <1>5 DEF LeaveContext
  <2>2. Len(resources) >= 1
    BY <1>1, HandlersAlive DEF Ready
  <2>3. Count(-1)
    BY <1>5, <2>1, <2>2, HandlersPopped DEF Ready, Count, TypeInv
  <2>4. UnGuard(fs, Depth - 1)
    BY <1>5, <2>1 DEF UnGuard, LeaveContext
  <2>5. PopsCall
    <3>1. Depth - 1 \in 1 .. Depth - 1 /\ RestoreContext
      BY <1>1 DEF LeaveContext
    <3> QED
      BY <1>1, <1>2, <1>5, <2>4, <3>1, PopsCallStep
  <2> QED
    BY <2>3, <2>5 DEF Moves
<1> QED
  BY <1>1, <1>3, <1>4, <1>5

LEMMA JoinMoves ==
    ASSUME Ready, Running', Join
    PROVE  Moves
<1>1. Top.pc = "returning" /\ Depth >= 2 /\ Depth \in Nat
  BY ReadyFacts, ContextFacts DEF Join, At, Ready
<1>2. Top.kind = "call"
  BY <1>1, ContextFacts DEF Ready, Top
<1>3. request.controlled
  BY <1>1 DEF Ready, Shape, Top
<1>4. resources' = Pop(resources) /\ callDepth' = callDepth - 1 /\ isLocked' = isLocked
  BY DEF Join, CompleteInvocation
<1>5. Len(resources) >= 1
  BY <1>1, HandlersAlive DEF Ready
<1>6. Count(-1)
  BY <1>4, <1>5, HandlersPopped DEF Ready, Count, TypeInv, Handlers
<1> DEFINE t == ThreadOf(Pop(frames))
<1>7. t \in 1 .. Depth - 1
  <2>1. /\ Pop(frames) \in Seq(Frames) /\ Len(Pop(frames)) = Depth - 1
        /\ \A i \in 1 .. Depth - 1 : Pop(frames)[i] = frames[i]
    BY <1>1, FramesPopped DEF Ready
  <2>2. Pop(frames)[1].kind # "deferred"
    BY <1>1, <2>1, ContextFacts DEF Ready
  <2> QED
    BY <1>1, <1>3, <2>1, <2>2, ThreadFacts DEF IsThread
<1>8. UnGuard([Pop(frames) EXCEPT ![Depth - 1].pc = AfterCall(Depth - 1)], t) /\ RestoreContext
  BY DEF Join
<1>9. PopsCall
  BY <1>1, <1>2, <1>4, <1>7, <1>8, PopsCallStep
<1> QED
  BY <1>6, <1>9 DEF Moves

LEMMA VirtualSignMoves ==
    ASSUME Ready, Running', NEW account \in Accounts, NEW body \in Bodies, NEW spender \in Apps,
           VirtualSign(account, body, spender)
    PROVE  Moves
<1>1. Top.pc = "app" /\ UNCHANGED handlerVars
  BY DEF VirtualSign, LoadsArgContext, Does, At
<1>2. CASE FailFrom(frames)
  <2>1. Count(0) /\ Fails
    BY <1>1, <1>2, ReadyFacts, FailNow DEF handlerVars
  <2> QED
    BY <2>1 DEF Moves
<1>3. CASE UNCHANGED <<frames, guardedArea, outcome, isLocked, context>>
  BY <1>1, <1>3, StaysStep
<1>4. CASE Lose(IF request.controlled THEN "terminated" ELSE "blockError")
  BY <1>4 DEF Lose, Running
<1> QED
  BY <1>2, <1>3, <1>4 DEF VirtualSign

LEMMA TimerExpiresMoves ==
    ASSUME Ready, Running', MaskInv, NEW i \in DOMAIN frames, TimerExpires(i)
    PROVE  Moves
<1>1. frames \in Seq(Frames) /\ Depth \in Nat /\ Len(frames) = Depth /\ i \in 1 .. Depth
      /\ frames[i] \in Frames /\ frames[i].timer = "armed" /\ request.controlled
  BY ContextFacts DEF Ready, TimerExpires
<1>2. Count(0)
  BY ReadyFacts DEF TimerExpires, handlerVars
<1>3. CASE /\ frames[i].blocked
           /\ frames' = [frames EXCEPT ![i].timer = "pending"]
           /\ UNCHANGED <<guardedArea, outcome, isLocked, context>>
  <2> DEFINE e == [frames[i] EXCEPT !.timer = "pending"]
  <2>1. e \in Frames /\ e.timer = "pending" /\ e.app = frames[i].app /\ e.kind = frames[i].kind
        /\ e.pc = frames[i].pc /\ e.hasLock = frames[i].hasLock /\ e.blocked = frames[i].blocked
    BY <1>1 DEF Frames
  <2>2. frames' = [frames EXCEPT ![i] = e]
    BY <1>3
  <2> HIDE DEF e
  <2>3. /\ frames' \in Seq(Frames) /\ Len(frames') = Depth
        /\ \A j \in 1 .. Depth : frames'[j] = IF j = i THEN e ELSE frames[j]
    BY <1>1, <2>1, <2>2, ExceptSeq
  <2>4. Ticks
    BY <1>1, <1>3, <2>1, <2>3 DEF Ticks, Depth
  <2> QED
    BY <1>2, <2>4 DEF Moves
<1>4. CASE ~frames[i].blocked /\ Top.pc \in {"app", "finishing"} /\ FailFrom(Spent(i))
  <2>1. Base \in 1 .. Depth /\ \A j \in Base + 1 .. Depth : frames[j].kind = "deferred"
    BY <1>1, BaseFacts DEF IsThread, Ready
  <2> HIDE DEF Base
  <2>2. frames[i].kind = "call"
    BY <1>1 DEF MaskInv, Masks, Ready
  <2>3. ~(i < Base)
    BY <1>1, <1>4, <2>2 DEF MaskInv, Masks, Ready
  <2>4. i = Base
    BY <1>1, <2>1, <2>2, <2>3
  <2> DEFINE e == [frames[i] EXCEPT !.timer = "spent"]
             fs == Spent(i)
  <2>5. e \in Frames /\ e.timer = "spent" /\ e.app = frames[i].app /\ e.kind = frames[i].kind
    BY <1>1 DEF Frames
  <2>6. fs = [frames EXCEPT ![i] = e]
    BY DEF Spent
  <2> HIDE DEF e, fs
  <2>7. /\ fs \in Seq(Frames) /\ Len(fs) = Depth
        /\ \A j \in 1 .. Depth : fs[j] = IF j = i THEN e ELSE frames[j]
    BY <1>1, <2>5, <2>6, ExceptSeq
  <2>8. /\ \A j \in 1 .. Base - 1 : fs[j] = frames[j]
        /\ fs[Base].app = frames[Base].app /\ fs[Base].kind = frames[Base].kind
        /\ fs[Base].timer \in {frames[Base].timer, "spent"}
    BY <1>1, <2>1, <2>4, <2>5, <2>7
  <2>9. Fails
    BY <1>4, <2>7, <2>8, FailStep DEF fs
  <2> QED
    BY <1>2, <2>9 DEF Moves
<1> QED
  BY <1>3, <1>4 DEF TimerExpires, Lose, Running

\* A step of a request that ran and still runs moves its contexts in one of these ways.
LEMMA NextMoves ==
    ASSUME Ready, Running', MaskInv, [Next]_vars
    PROVE  Moves
<1>1. CASE \E app \in Apps, forwarded \in Forwards \cup {255} : InvokeAny(app, forwarded)
  <2>1. PICK app \in Apps, forwarded \in Forwards \cup {255} : InvokeAny(app, forwarded)
    BY <1>1
  <2>2. ~InvokeWithoutVersion(app, forwarded)
    BY DEF InvokeWithoutVersion, Lose, Running
  <2> QED
    BY <2>1, <2>2, InvokeWithoutGasMoves, InvokeTooDeepMoves, InvokeMoves, InvokeOptimisticMoves
    DEF InvokeAny
<1>2. CASE EnterArea \/ ExitArea \/ AppFails \/ Return \/ (\E app \in Apps : InvokeDeferred(app))
  BY <1>2, EnterAreaMoves, ExitAreaMoves, AppFailsMoves, ReturnMoves, InvokeDeferredMoves
<1>3. CASE Load \/ Store
  <2>1. UNCHANGED <<handlerVars, frames, guardedArea, isLocked, context>>
    BY <1>3 DEF Load, Store
  <2> QED
    BY <2>1, StaysStep
<1>4. ~FaultInGuardedArea /\ ~Finish /\ ~OptimisticTimerExpires
  BY DEF FaultInGuardedArea, Finish, OptimisticTimerExpires, Lose, Running
<1>5. CASE \E account \in Accounts, body \in Bodies, spender \in Apps :
              VirtualSign(account, body, spender)
  BY <1>5, VirtualSignMoves
<1>6. ASSUME NEW account, NEW body, NEW index,
             \/ VerifyEmpty(account) \/ VerifyByAcc(index) \/ VerifyRefused(account, body)
             \/ VerifyByApp(account, body, index) \/ VerifyWithNonce(account, body, index)
      PROVE  Moves
  <2>1. UNCHANGED appVars
    BY <1>6 DEF VerifyEmpty, VerifyByAcc, VerifyRefused, VerifyByApp, VerifyWithNonce
  <2>2. UNCHANGED <<handlerVars, frames, guardedArea, isLocked, context>>
    BY <2>1 DEF appVars
  <2> QED
    BY <2>2, StaysStep
<1>7. CASE Enter \/ EnterRefused \/ StartDeferred \/ LeaveContext \/ Join
  BY <1>7, EnterMoves, EnterRefusedMoves, StartDeferredMoves, LeaveContextMoves, JoinMoves
<1>8. CASE \E i \in DOMAIN frames : TimerExpires(i)
  BY <1>8, TimerExpiresMoves
<1>9. CASE UNCHANGED vars
  <2>1. UNCHANGED <<handlerVars, frames, guardedArea, isLocked, context>>
    BY <1>9 DEF vars, handlerVars
  <2> QED
    BY <2>1, StaysStep
<1>10. CASE RootCall
  BY <1>1, <1>10 DEF RootCall
<1>11. CASE Application
  <2>1. CASE \E app \in Apps, forwarded \in Forwards : At("app") /\ InvokeAny(app, forwarded)
    BY <1>1, <2>1
  <2>2. CASE \E account \in Accounts, body \in Bodies :
               \/ \E spender \in Apps : VirtualSign(account, body, spender)
               \/ VerifyRefused(account, body)
               \/ \E index \in DOMAIN messages :
                     VerifyByApp(account, body, index) \/ VerifyWithNonce(account, body, index)
    BY <1>5, <1>6, <2>2
  <2>3. CASE \/ \E account \in Accounts : VerifyEmpty(account)
             \/ \E index \in DOMAIN messages : VerifyByAcc(index)
    BY <1>6, <2>3
  <2> QED
    BY <1>2, <1>3, <1>4, <1>11, <2>1, <2>2, <2>3, LoadsNoChunksMoves DEF Application
<1>12. CASE Machine
  BY <1>4, <1>7, <1>10, <1>12 DEF Machine
<1>13. CASE Timer
  BY <1>4, <1>8, <1>13 DEF Timer
<1> QED
  BY <1>9, <1>11, <1>12, <1>13 DEF Next

-----------------------------------------------------------------------------
(* The stack keeps its shape, and its handlers are counted *)

LEMMA RequestKept ==
    ASSUME [Next]_vars
    PROVE  request' = request
<1>1. CASE UNCHANGED vars
  BY <1>1 DEF vars
<1>2. ASSUME NEW app, NEW forwarded, InvokeAny(app, forwarded) PROVE request' = request
  BY <1>2 DEF InvokeAny, InvokeWithoutGas, InvokeWithoutVersion, InvokeTooDeep, Invoke,
              InvokeOptimistic
<1>3. CASE Application
  <2>1. EnterArea \/ ExitArea \/ Load \/ Store \/ AppFails => request' = request
    BY DEF EnterArea, ExitArea, Load, Store, AppFails
  <2>2. Return \/ FaultInGuardedArea \/ LoadsNoChunks => request' = request
    BY DEF Return, FaultInGuardedArea, LoadsNoChunks
  <2>3. ASSUME NEW app, InvokeDeferred(app) PROVE request' = request
    BY <2>3 DEF InvokeDeferred
  <2>4. ASSUME NEW account, NEW body, NEW spender, VirtualSign(account, body, spender)
        PROVE  request' = request
    BY <2>4 DEF VirtualSign
  <2>5. ASSUME NEW account, NEW body, NEW index,
               \/ VerifyEmpty(account) \/ VerifyByAcc(index) \/ VerifyRefused(account, body)
               \/ VerifyByApp(account, body, index) \/ VerifyWithNonce(account, body, index)
        PROVE  request' = request
    BY <2>5 DEF VerifyEmpty, VerifyByAcc, VerifyRefused, VerifyByApp, VerifyWithNonce, appVars
  <2> QED
    BY <1>2, <1>3, <2>1, <2>2, <2>3, <2>4, <2>5, Zenon DEF Application
<1>4. CASE Machine
  <2>1. RootCall => request' = request
    BY <1>2 DEF RootCall
  <2>2. Enter \/ EnterRefused \/ StartDeferred => request' = request
    BY DEF Enter, EnterRefused, StartDeferred
  <2>3. LeaveContext \/ Join \/ Finish => request' = request
    BY DEF LeaveContext, Join, Finish
  <2> QED
    BY <1>4, <2>1, <2>2, <2>3 DEF Machine
<1>5. CASE Timer
  BY <1>5 DEF Timer, TimerExpires, OptimisticTimerExpires
<1> QED
  BY <1>1, <1>3, <1>4, <1>5 DEF Next

LEMMA CutShape ==
    ASSUME Ready, request' = request, NEW n, NEW pc, NEW lock, NEW t, Cut(n, pc, lock, t),
           pc \in Places(frames[n].kind), pc = "returning" => request.controlled
    PROVE  Shape'
<1>1. frames' \in Seq(Frames) /\ n \in 1 .. Depth /\ Depth' = n /\ Depth \in Nat /\ n \in Nat
  BY ContextFacts DEF Ready, Cut
<1>2. ASSUME NEW i \in 1 .. n
      PROVE  /\ frames'[i].kind = "root" <=> i = 1
             /\ frames'[i].app = NoApp <=> i = 1
             /\ frames'[i].pc \in Places(frames'[i].kind)
             /\ ~request.controlled => frames'[i].pc # "returning"
  <2>1. i \in 1 .. Depth /\ frames'[i].app = frames[i].app /\ frames'[i].kind = frames[i].kind
    BY <1>1 DEF Cut
  <2>2. CASE i = n
    BY <2>1, <2>2 DEF Ready, Shape, Cut
  <2>3. CASE i # n
    <3>1. frames'[i].pc = frames[i].pc
      BY <1>1, <2>3 DEF Cut
    <3> QED
      BY <2>1, <3>1 DEF Ready, Shape
  <2> QED
    BY <2>2, <2>3
<1>3. ASSUME NEW i \in 1 .. n - 1
      PROVE  frames'[i].pc = IF frames'[i + 1].kind = "call" THEN "waiting" ELSE "finishing"
  <2>1. frames'[i].pc = frames[i].pc /\ frames'[i + 1].kind = frames[i + 1].kind
        /\ i \in 1 .. Depth - 1
    BY <1>1 DEF Cut
  <2> QED
    BY <2>1 DEF Ready, Shape
<1>4. \A i \in 1 .. Depth' : /\ frames'[i].kind = "root" <=> i = 1
                             /\ frames'[i].app = NoApp <=> i = 1
                             /\ frames'[i].pc \in Places(frames'[i].kind)
  BY <1>1, <1>2
<1>5. \A i \in 1 .. Depth' - 1 :
         frames'[i].pc = IF frames'[i + 1].kind = "call" THEN "waiting" ELSE "finishing"
  BY <1>1, <1>3
<1>6. ~request.controlled => \A i \in 1 .. Depth' : frames'[i].pc # "returning"
  BY <1>1, <1>2
<1>7. Depth' >= 1
  BY <1>1
<1> QED
  BY <1>1, <1>4, <1>5, <1>6, <1>7 DEF Shape

LEMMA PushShape ==
    ASSUME Ready, request' = request, NEW app \in Apps, NEW kind \in {"call", "deferred"},
           Pushed(app, kind),
           kind = "call" => Top.pc \in {"app", "start"}, kind = "deferred" => Top.pc = "finishing"
    PROVE  Shape'
<1>1. /\ frames' \in Seq(Frames) /\ Depth \in Nat /\ Depth >= 1 /\ Depth' = Depth + 1
      /\ Depth' \in Nat
  BY ContextFacts DEF Ready, Pushed
<1>2. \A i \in 1 .. Depth : frames'[i].app = frames[i].app /\ frames'[i].kind = frames[i].kind
  BY DEF Pushed
<1>3. \A i \in 1 .. Depth - 1 : frames'[i].pc = frames[i].pc
  BY DEF Pushed
<1>4. frames'[Depth].pc = IF kind = "call" THEN "waiting" ELSE "finishing"
  BY DEF Pushed
<1>5. frames'[Depth + 1].app = app /\ frames'[Depth + 1].kind = kind
      /\ frames'[Depth + 1].pc = "entering"
  BY DEF Pushed
<1>6. kind = "deferred" => Top.kind # "root"
  <2>1. Top.kind = "root" => Depth = 1
    BY <1>1 DEF Ready, Shape, Top
  <2>2. Depth = 1 => Top.pc # "finishing"
    BY ContextFacts DEF Ready, Top
  <2> QED
    BY <2>1, <2>2
<1>7. NoApp # app
  BY ExecutorCallsAssumption
<1>8. ASSUME NEW i \in 1 .. Depth + 1
      PROVE  /\ frames'[i].kind = "root" <=> i = 1
             /\ frames'[i].app = NoApp <=> i = 1
             /\ frames'[i].pc \in Places(frames'[i].kind)
             /\ ~request.controlled => frames'[i].pc # "returning"
  <2>1. CASE i = Depth + 1
    BY <1>1, <1>5, <1>7, <2>1 DEF Places
  <2>2. CASE i = Depth
    <3>1. frames'[i].app = frames[i].app /\ frames'[i].kind = Top.kind /\ frames[i].kind = Top.kind
      BY <1>1, <1>2, <2>2 DEF Top
    <3>2. frames'[i].pc \in Places(frames'[i].kind) /\ frames'[i].pc # "returning"
      BY <1>4, <1>6, <2>2, <3>1 DEF Places
    <3> QED
      BY <1>1, <2>2, <3>1, <3>2 DEF Ready, Shape
  <2>3. CASE i < Depth
    <3>1. i \in 1 .. Depth - 1 /\ i \in 1 .. Depth
      BY <1>1, <2>3
    <3> QED
      BY <1>2, <1>3, <3>1 DEF Ready, Shape
  <2> QED
    BY <1>1, <2>1, <2>2, <2>3
<1>9. ASSUME NEW i \in 1 .. Depth
      PROVE  frames'[i].pc = IF frames'[i + 1].kind = "call" THEN "waiting" ELSE "finishing"
  <2>1. CASE i = Depth
    BY <1>4, <1>5, <2>1
  <2>2. CASE i # Depth
    <3>1. i \in 1 .. Depth - 1 /\ i + 1 \in 1 .. Depth
      BY <1>1, <2>2
    <3> QED
      BY <1>2, <1>3, <3>1 DEF Ready, Shape
  <2> QED
    BY <2>1, <2>2
<1> QED
  BY <1>1, <1>8, <1>9 DEF Shape

LEMMA TickShape ==
    ASSUME Ready, request' = request, Ticks
    PROVE  Shape'
<1>1. frames' \in Seq(Frames) /\ Depth' = Depth /\ Depth \in Nat /\ Depth >= 1
  BY ContextFacts DEF Ready, Ticks
<1>2. \A i \in 1 .. Depth : frames'[i].app = frames[i].app /\ frames'[i].kind = frames[i].kind
                            /\ frames'[i].pc = frames[i].pc
  BY DEF Ticks
<1>3. ASSUME NEW i \in 1 .. Depth
      PROVE  /\ frames'[i].kind = "root" <=> i = 1
             /\ frames'[i].app = NoApp <=> i = 1
             /\ frames'[i].pc \in Places(frames'[i].kind)
             /\ ~request.controlled => frames'[i].pc # "returning"
  BY <1>2 DEF Ready, Shape
<1>4. ASSUME NEW i \in 1 .. Depth - 1
      PROVE  frames'[i].pc = IF frames'[i + 1].kind = "call" THEN "waiting" ELSE "finishing"
  <2>1. i \in 1 .. Depth /\ i + 1 \in 1 .. Depth
    BY <1>1
  <2> QED
    BY <1>2, <2>1 DEF Ready, Shape
<1> QED
  BY <1>1, <1>3, <1>4 DEF Shape

LEMMA MovesShape ==
    ASSUME Ready, request' = request, Moves
    PROVE  Shape'
<1>1. /\ Depth \in Nat /\ Depth >= 1 /\ Top = frames[Depth] /\ Top.pc \in Places(Top.kind)
      /\ Top.pc = "returning" => request.controlled
  BY ContextFacts, ReadyFacts DEF Ready, Shape, Top
<1>2. /\ Top.pc \in {"app", "entering", "finishing"} =>
            Depth >= 2 /\ Top.kind \in {"call", "deferred"} /\ "app" \in Places(Top.kind)
               /\ "finishing" \in Places(Top.kind)
  BY ContextFacts, ReadyFacts DEF Ready, Top, Places
<1>3. CASE Stays
  BY <1>1, <1>3, CutShape DEF Stays
<1>4. CASE Ticks
  BY <1>4, TickShape
<1>5. CASE Refuses
  <2>1. AfterCall(Depth) \in Places(Top.kind) /\ AfterCall(Depth) # "returning"
    BY <1>1, <1>2, <1>5 DEF Refuses, AfterCall, Places
  <2> QED
    BY <1>1, <1>5, <2>1, CutShape DEF Refuses
<1>6. CASE PushesDeferred
  BY <1>6, PushShape DEF PushesDeferred
<1>7. CASE Enters
  BY <1>1, <1>2, <1>7, CutShape DEF Enters
<1>8. CASE Answers
  <2>1. "returning" \in Places(Top.kind)
    BY <1>8 DEF Answers, Places
  <2> QED
    BY <1>1, <1>8, <2>1, CutShape DEF Answers
<1>9. CASE Fails
  <2>1. Depth >= 2
    BY <1>2, <1>9 DEF Fails
  <2>2. "returning" \in Places(frames[Base].kind)
    BY <1>9, <2>1, BaseFacts DEF Fails, Ready, Places
  <2> HIDE DEF Base
  <2> QED
    BY <1>9, <2>2, CutShape DEF Fails
<1>10. CASE \E held \in BOOLEAN : SetsLock(held)
  BY <1>1, <1>2, <1>10, CutShape DEF SetsLock
<1>11. CASE Returns
  BY <1>1, <1>2, <1>11, CutShape DEF Returns
<1>12. CASE PopsDeferred
  <2>1. frames[Depth - 1].pc = "finishing" /\ frames[Depth - 1].pc \in Places(frames[Depth - 1].kind)
    BY <1>1, <1>12 DEF PopsDeferred, Ready, Shape
  <2> QED
    BY <1>12, <2>1, CutShape DEF PopsDeferred
<1>13. CASE PushesCall
  BY <1>13, PushShape DEF PushesCall
<1>14. CASE PopsCall
  <2>1. AfterCall(Depth - 1) \in Places(frames[Depth - 1].kind) /\ AfterCall(Depth - 1) # "returning"
    BY <1>1, <1>14, ContextFacts DEF PopsCall, Ready, AfterCall, Places
  <2> QED
    BY <1>14, <2>1, CutShape DEF PopsCall
<1> QED
  BY <1>3, <1>4, <1>5, <1>6, <1>7, <1>8, <1>9, <1>10, <1>11, <1>12, <1>13, <1>14 DEF Moves

\* Cutting off deferred calls, or the code of a context going on, changes no handler.
LEMMA CutCalls ==
    ASSUME Ready, NEW n, NEW pc, NEW lock, NEW t, Cut(n, pc, lock, t),
           \A i \in n + 1 .. Depth : frames[i].kind = "deferred"
    PROVE  CallFrames' = CallFrames
<1>1. n \in 1 .. Depth /\ Depth' = n /\ Depth \in Nat
      /\ \A i \in 1 .. n : frames'[i].kind = frames[i].kind
  BY ContextFacts DEF Cut, Ready
<1>2. CallFrames' = {i \in 1 .. n : frames'[i].kind # "deferred"}
  BY <1>1 DEF CallFrames
<1>3. ASSUME NEW i \in 1 .. Depth, frames[i].kind # "deferred" PROVE i \in 1 .. n
  BY <1>1, <1>3
<1> QED
  BY <1>1, <1>2, <1>3 DEF CallFrames

LEMMA HandlersSame ==
    ASSUME Ready, request' = request, Count(0), CallFrames' = CallFrames
    PROVE  Handlers'
BY ReadyFacts DEF Ready, Handlers, Count

LEMMA MovesHandlers ==
    ASSUME Ready, request' = request, Moves
    PROVE  Handlers'
<1>1. /\ Depth \in Nat /\ Depth >= 1 /\ Top = frames[Depth] /\ request.controlled \in BOOLEAN
      /\ Len(resources) \in Nat /\ CallFrames \subseteq 1 .. Depth
      /\ IsFiniteSet(CallFrames) /\ Cardinality(CallFrames) \in Nat
  BY ContextFacts, ReadyFacts, CallFramesFinite DEF Ready, Top, CallFrames
<1>2. \A i \in Depth + 1 .. Depth : frames[i].kind = "deferred"
  BY <1>1
<1>3. ASSUME Count(0), NEW pc, NEW lock, NEW t, Cut(Depth, pc, lock, t) PROVE Handlers'
  BY <1>2, <1>3, CutCalls, HandlersSame
<1>4. ASSUME Count(0), Ticks PROVE Handlers'
  <2>1. CallFrames' = CallFrames
    BY <1>4 DEF Ticks, CallFrames
  <2> QED
    BY <1>4, <2>1, HandlersSame
<1>5. ASSUME Count(0), PushesDeferred PROVE Handlers'
  <2>1. /\ Depth' = Depth + 1 /\ frames'[Depth + 1].kind = "deferred"
        /\ \A i \in 1 .. Depth : frames'[i].kind = frames[i].kind
    BY <1>5 DEF PushesDeferred, Pushed
  <2>2. CallFrames' = {i \in 1 .. Depth + 1 : frames'[i].kind # "deferred"}
    BY <2>1 DEF CallFrames
  <2>3. CallFrames' = CallFrames
    BY <1>1, <2>1, <2>2 DEF CallFrames
  <2> QED
    BY <1>5, <2>3, HandlersSame
<1>6. ASSUME Count(0), Fails PROVE Handlers'
  <2>1. \A i \in Base + 1 .. Depth : frames[i].kind = "deferred"
    BY <1>6, BaseFacts, ContextFacts DEF Fails, Ready, IsThread
  <2> HIDE DEF Base
  <2>2. CallFrames' = CallFrames
    BY <1>6, <2>1, CutCalls DEF Fails
  <2> QED
    BY <1>6, <2>2, HandlersSame
<1>7. ASSUME Count(0), PopsDeferred PROVE Handlers'
  <2>1. \A i \in Depth - 1 + 1 .. Depth : frames[i].kind = "deferred"
    BY <1>1, <1>7 DEF PopsDeferred
  <2>2. CallFrames' = CallFrames
    BY <1>7, <2>1, CutCalls DEF PopsDeferred
  <2> QED
    BY <1>7, <2>2, HandlersSame
<1>8. ASSUME Count(1), PushesCall PROVE Handlers'
  <2>1. /\ Depth' = Depth + 1 /\ frames'[Depth + 1].kind = "call"
        /\ \A i \in 1 .. Depth : frames'[i].kind = frames[i].kind
    BY <1>8 DEF PushesCall, Pushed
  <2>2. CallFrames' = {i \in 1 .. Depth + 1 : frames'[i].kind # "deferred"}
    BY <2>1 DEF CallFrames
  <2>3. CallFrames' = CallFrames \cup {Depth + 1} /\ Depth + 1 \notin CallFrames
    BY <1>1, <2>1, <2>2 DEF CallFrames
  <2>4. Cardinality(CallFrames') = Cardinality(CallFrames) + 1
    <3> DEFINE C == CallFrames
    <3>1. IsFiniteSet(C) /\ Depth + 1 \notin C /\ CallFrames' = C \cup {Depth + 1}
      BY <1>1, <2>3
    <3> HIDE DEF C
    <3>2. Cardinality(C \cup {Depth + 1}) = Cardinality(C) + 1
      BY <3>1, FS_AddElement
    <3> QED
      BY <3>1, <3>2 DEF C
  <2>5. request.controlled => callDepth + 1 <= MaxDepth
    BY <1>1, <1>8, ExecutorCallsAssumption DEF PushesCall, TooDeep, Ready, Handlers
  <2> QED
    BY <1>1, <1>8, <2>4, <2>5 DEF Ready, Handlers, Count
<1>9. ASSUME Count(-1), PopsCall PROVE Handlers'
  <2>1. /\ Depth >= 2 /\ Depth' = Depth - 1 /\ Top.kind = "call"
        /\ \A i \in 1 .. Depth - 1 : frames'[i].kind = frames[i].kind
    BY <1>9 DEF PopsCall, Cut
  <2>2. CallFrames' = {i \in 1 .. Depth - 1 : frames'[i].kind # "deferred"}
    BY <2>1 DEF CallFrames
  <2>3. CallFrames' = CallFrames \ {Depth} /\ Depth \in CallFrames
    BY <1>1, <2>1, <2>2 DEF CallFrames
  <2>4. Cardinality(CallFrames') = Cardinality(CallFrames) - 1
    <3> DEFINE C == CallFrames
    <3>1. IsFiniteSet(C) /\ Depth \in C /\ CallFrames' = C \ {Depth}
      BY <1>1, <2>3
    <3> HIDE DEF C
    <3>2. Cardinality(C \ {Depth}) = Cardinality(C) - 1
      BY <3>1, FS_RemoveElement
    <3> QED
      BY <3>1, <3>2 DEF C
  <2> QED
    BY <1>1, <1>9, <2>4, ExecutorCallsAssumption DEF Ready, Handlers, Count
<1> QED
  BY <1>3, <1>4, <1>5, <1>6, <1>7, <1>8, <1>9
  DEF Moves, Stays, Refuses, Enters, Answers, SetsLock, Returns

-----------------------------------------------------------------------------
(* The heap modifier follows the context *)

LEMMA MovesContext ==
    ASSUME Ready, Moves, ContextFollows
    PROVE  ContextFollows'
<1> SUFFICES ASSUME Top'.pc = "app" PROVE context' = Top'.app
  BY DEF ContextFollows, At, Ready
<1>1. Depth \in Nat /\ Depth >= 1 /\ Top = frames[Depth]
  BY ContextFacts DEF Ready, Top
<1>2. Top.pc = "app" => context = Top.app
  BY DEF ContextFollows, At, Ready, Running
<1>3. ASSUME NEW n, NEW pc, NEW lock, NEW t, Cut(n, pc, lock, t)
      PROVE  Top'.pc = pc /\ Top'.app = frames[n].app
  BY <1>1, <1>3 DEF Cut, Top
<1>4. CASE Stays
  BY <1>1, <1>2, <1>3, <1>4 DEF Stays
<1>5. CASE Ticks
  BY <1>1, <1>2, <1>5 DEF Ticks, Top
<1>6. CASE Refuses
  <2>1. Top.pc = "app"
    <3>1. Top.pc = "start" => Top.kind = "root"
      BY ContextFacts DEF Ready, Top
    <3> QED
      BY <1>3, <1>6, <3>1 DEF Refuses, AfterCall, Top
  <2> QED
    BY <1>1, <1>2, <1>3, <1>6, <2>1 DEF Refuses
<1>7. ASSUME NEW app, NEW kind, Pushed(app, kind) PROVE FALSE
  BY <1>1, <1>7 DEF Pushed, Top
<1>8. CASE Enters
  BY <1>1, <1>3, <1>8 DEF Enters
<1>9. CASE Answers \/ Fails \/ Returns \/ PopsDeferred
  <2> HIDE DEF Base
  <2>1. \E n, lock, t : Cut(n, "returning", lock, t) \/ Cut(n, "finishing", lock, t)
    <3>1. CASE Answers
      BY <3>1, Zenon DEF Answers
    <3>2. CASE Fails
      BY <3>2, Zenon DEF Fails
    <3>3. CASE Returns
      BY <3>3, Zenon DEF Returns
    <3>4. CASE PopsDeferred
      BY <3>4, Zenon DEF PopsDeferred
    <3> QED
      BY <1>9, <3>1, <3>2, <3>3, <3>4
  <2> QED
    BY <1>3, <2>1
<1>10. CASE \E held \in BOOLEAN : SetsLock(held)
  BY <1>1, <1>2, <1>3, <1>10 DEF SetsLock
<1>11. CASE PopsCall
  BY <1>1, <1>3, <1>11 DEF PopsCall
<1> QED
  BY <1>4, <1>5, <1>6, <1>7, <1>8, <1>9, <1>10, <1>11 DEF Moves, PushesCall, PushesDeferred

-----------------------------------------------------------------------------
(* Locks *)

\* Contexts that hold no lock come and go.
LEMMA LocksStay ==
    ASSUME Locks, SameLocks, Depth \in Nat, Depth' \in Nat,
           \A i \in 1 .. Depth' : i \in 1 .. Depth =>
              /\ frames'[i].app = frames[i].app /\ frames'[i].hasLock = frames[i].hasLock
              /\ frames[i].hasLock => frames'[i].pc \in {"app", "waiting"},
           \A i \in 1 .. Depth' : i \notin 1 .. Depth => ~frames'[i].hasLock,
           \A i \in 1 .. Depth : i \notin 1 .. Depth' => ~frames[i].hasLock
    PROVE  Locks'
<1>1. \A i \in 1 .. Depth' : frames'[i].hasLock =>
         i \in 1 .. Depth /\ frames[i].hasLock /\ frames'[i].app = frames[i].app
            /\ frames'[i].pc \in {"app", "waiting"}
  OBVIOUS
<1>2. isLocked' = isLocked
  BY DEF SameLocks
<1>3. \A i \in 1 .. Depth' : frames'[i].hasLock => isLocked'[frames'[i].app] /\ i > 1
  BY <1>1, <1>2 DEF Locks
<1>4. \A i, j \in 1 .. Depth' :
         frames'[i].hasLock /\ frames'[j].hasLock /\ frames'[i].app = frames'[j].app => i = j
  BY <1>1 DEF Locks
<1>5. ASSUME NEW a \in Apps, isLocked'[a]
      PROVE  \E i \in 1 .. Depth' : frames'[i].hasLock /\ frames'[i].app = a
  <2>1. PICK i \in 1 .. Depth : frames[i].hasLock /\ frames[i].app = a
    BY <1>2, <1>5 DEF Locks
  <2>2. i \in 1 .. Depth'
    BY <2>1
  <2> QED
    BY <2>1, <2>2
<1>6. isLocked' \in [Apps -> BOOLEAN]
  BY <1>2 DEF Locks
<1> QED
  BY <1>1, <1>3, <1>4, <1>5, <1>6 DEF Locks

\* Whatever way contexts are left, their locks go with them.
LEMMA LocksCut ==
    ASSUME Ready, Locks, NEW n, NEW pc, NEW t, Cut(n, pc, FALSE, t), isLocked' = LocksWithout(n)
    PROVE  Locks'
<1>1. Depth \in Nat /\ n \in 1 .. Depth /\ Depth' = n
      /\ \A i \in 1 .. n : frames'[i].app = frames[i].app
  BY ContextFacts DEF Ready, Cut
<1>2. \A i \in 1 .. n : frames'[i].hasLock =>
         i \in 1 .. n - 1 /\ i \in 1 .. Depth /\ frames[i].hasLock /\ frames'[i].pc = frames[i].pc
  BY <1>1 DEF Cut
<1>3. \A a \in Apps : isLocked'[a] <=>
         isLocked[a] /\ ~\E i \in n .. Depth : frames[i].hasLock /\ frames[i].app = a
  BY DEF LocksWithout
<1>4. isLocked' \in [Apps -> BOOLEAN]
  BY DEF LocksWithout, Locks
<1>5. ASSUME NEW i \in 1 .. n, frames'[i].hasLock
      PROVE  isLocked'[frames'[i].app] /\ frames'[i].pc \in {"app", "waiting"} /\ i > 1
  <2>1. i \in 1 .. n - 1 /\ i \in 1 .. Depth /\ frames[i].hasLock /\ frames'[i].pc = frames[i].pc
        /\ frames'[i].app = frames[i].app
    BY <1>1, <1>2, <1>5
  <2>2. isLocked[frames[i].app] /\ i > 1 /\ frames[i].pc \in {"app", "waiting"}
    BY <2>1 DEF Locks
  <2>3. frames[i].app \in Apps
    BY <2>1, <2>2, ContextFacts DEF Ready
  <2>4. ~\E j \in n .. Depth : frames[j].hasLock /\ frames[j].app = frames[i].app
    <3>1. ASSUME NEW j \in n .. Depth, frames[j].hasLock, frames[j].app = frames[i].app
          PROVE  FALSE
      <4>1. j \in 1 .. Depth /\ j # i
        BY <1>1, <2>1
      <4> QED
        BY <2>1, <3>1, <4>1 DEF Locks
    <3> QED
      BY <3>1
  <2> QED
    BY <1>3, <2>1, <2>2, <2>3, <2>4
<1>6. ASSUME NEW i \in 1 .. n, NEW j \in 1 .. n, frames'[i].hasLock, frames'[j].hasLock,
             frames'[i].app = frames'[j].app
      PROVE  i = j
  BY <1>1, <1>2, <1>6 DEF Locks
<1>7. ASSUME NEW a \in Apps, isLocked'[a]
      PROVE  \E i \in 1 .. n : frames'[i].hasLock /\ frames'[i].app = a
  <2>1. PICK i \in 1 .. Depth : frames[i].hasLock /\ frames[i].app = a
    BY <1>3, <1>7 DEF Locks
  <2>2. i \in 1 .. n - 1
    BY <1>1, <1>3, <1>7, <2>1
  <2>3. frames'[i].hasLock = frames[i].hasLock /\ i \in 1 .. n
    BY <1>1, <2>2 DEF Cut
  <2> QED
    BY <1>1, <2>1, <2>3
<1> QED
  BY <1>1, <1>4, <1>5, <1>6, <1>7 DEF Locks

LEMMA LocksSet ==
    ASSUME Ready, Locks, NEW held \in BOOLEAN, SetsLock(held)
    PROVE  Locks'
<1>1. Depth \in Nat /\ Depth >= 2 /\ Depth' = Depth /\ Top = frames[Depth] /\ Top.app \in Apps
      /\ Top.hasLock \in BOOLEAN
  BY ContextFacts, ReadyFacts DEF Ready, SetsLock, Cut, Top, Frames
<1>2. \A i \in 1 .. Depth : frames'[i].app = frames[i].app
  BY DEF SetsLock, Cut
<1>3. \A i \in 1 .. Depth - 1 : frames'[i].pc = frames[i].pc /\ frames'[i].hasLock = frames[i].hasLock
  BY DEF SetsLock, Cut
<1>4. frames'[Depth].pc = "app" /\ frames'[Depth].hasLock = held /\ Top.hasLock # held
      /\ (held => ~isLocked[Top.app])
  BY DEF SetsLock, Cut
<1>5. isLocked' = [isLocked EXCEPT ![Top.app] = held]
  BY DEF SetsLock
<1>6. isLocked' \in [Apps -> BOOLEAN] /\ isLocked'[Top.app] = held
      /\ \A a \in Apps : a # Top.app => isLocked'[a] = isLocked[a]
  BY <1>1, <1>5 DEF Locks
\* No other context holds a lock of this application.
<1>7. ASSUME NEW i \in 1 .. Depth - 1, frames[i].hasLock
      PROVE  frames[i].app # Top.app /\ frames[i].app \in Apps /\ i > 1
             /\ frames[i].pc \in {"app", "waiting"} /\ isLocked[frames[i].app]
  <2>1. i \in 1 .. Depth /\ i # Depth /\ Depth \in 1 .. Depth
    BY <1>1
  <2>2. isLocked[frames[i].app] /\ i > 1 /\ frames[i].pc \in {"app", "waiting"}
    BY <1>7, <2>1 DEF Locks
  <2>3. frames[i].app \in Apps
    BY <2>1, <2>2, ContextFacts DEF Ready
  <2>4. Top.hasLock => frames[i].app # Top.app
    BY <1>1, <1>7, <2>1 DEF Locks
  <2> QED
    BY <1>1, <1>4, <2>2, <2>3, <2>4
<1>8. ASSUME NEW i \in 1 .. Depth, frames'[i].hasLock
      PROVE  frames'[i].pc \in {"app", "waiting"} /\ i > 1 /\ isLocked'[frames'[i].app]
  <2>1. CASE i = Depth
    BY <1>1, <1>2, <1>4, <1>6, <1>8, <2>1
  <2>2. CASE i # Depth
    <3>1. i \in 1 .. Depth - 1 /\ frames[i].hasLock
      BY <1>1, <1>3, <1>8, <2>2
    <3> QED
      BY <1>2, <1>3, <1>6, <1>7, <3>1
  <2> QED
    BY <2>1, <2>2
<1>9. ASSUME NEW i \in 1 .. Depth, NEW j \in 1 .. Depth, frames'[i].hasLock, frames'[j].hasLock,
             frames'[i].app = frames'[j].app
      PROVE  i = j
  <2>1. \A k \in 1 .. Depth : k # Depth => k \in 1 .. Depth - 1
    BY <1>1
  <2>2. CASE i # Depth /\ j # Depth
    BY <1>2, <1>3, <1>9, <2>1, <2>2 DEF Locks
  <2>3. CASE (i = Depth /\ j # Depth) \/ (j = Depth /\ i # Depth)
    BY <1>1, <1>2, <1>3, <1>7, <1>9, <2>1, <2>3
  <2> QED
    BY <2>2, <2>3
<1>10. ASSUME NEW a \in Apps, isLocked'[a]
       PROVE  \E i \in 1 .. Depth : frames'[i].hasLock /\ frames'[i].app = a
  <2>1. CASE a = Top.app
    BY <1>1, <1>2, <1>4, <1>6, <1>10, <2>1
  <2>2. CASE a # Top.app
    <3>1. PICK i \in 1 .. Depth : frames[i].hasLock /\ frames[i].app = a
      BY <1>6, <1>10, <2>2 DEF Locks
    <3>2. i \in 1 .. Depth - 1
      BY <1>1, <2>2, <3>1
    <3> QED
      BY <1>2, <1>3, <3>1, <3>2
  <2> QED
    BY <2>1, <2>2
<1> QED
  BY <1>1, <1>6, <1>8, <1>9, <1>10 DEF Locks

LEMMA MovesLocks ==
    ASSUME Ready, Moves, Locks
    PROVE  Locks'
<1>1. Depth \in Nat /\ Depth >= 1 /\ Top = frames[Depth]
  BY ContextFacts DEF Ready, Top
<1>2. \A i \in 1 .. Depth : frames[i].hasLock => frames[i].pc \in {"app", "waiting"} /\ i > 1
  BY DEF Locks
\* A cut that releases nothing: what is cut off holds no lock.
<1>3. ASSUME NEW n, NEW pc, NEW t, Cut(n, pc, frames[n].hasLock, t), SameLocks,
             frames[n].hasLock => pc = "app", \A i \in n + 1 .. Depth : ~frames[i].hasLock
      PROVE  Locks'
  <2>1. n \in 1 .. Depth /\ Depth' = n
    BY <1>3 DEF Cut
  <2>2. \A i \in 1 .. n - 1 : frames'[i].pc = frames[i].pc /\ frames'[i].hasLock = frames[i].hasLock
    BY <1>3 DEF Cut
  <2>3. frames'[n].pc = pc /\ frames'[n].hasLock = frames[n].hasLock
        /\ \A i \in 1 .. n : frames'[i].app = frames[i].app
    BY <1>3 DEF Cut
  <2>4. \A i \in 1 .. n : i = n \/ i \in 1 .. n - 1
    BY <1>1, <2>1
  <2>5. \A i \in 1 .. n : /\ frames'[i].app = frames[i].app /\ frames'[i].hasLock = frames[i].hasLock
                          /\ frames[i].hasLock => frames'[i].pc \in {"app", "waiting"}
    BY <1>1, <1>2, <1>3, <2>1, <2>2, <2>3, <2>4
  <2>6. \A i \in 1 .. Depth : i \notin 1 .. n => i \in n + 1 .. Depth
    BY <1>1, <2>1
  <2> QED
    BY <1>1, <1>3, <2>1, <2>5, <2>6, LocksStay
<1>4. ASSUME NEW pc, NEW t, Cut(Depth, pc, Top.hasLock, t), SameLocks, Top.hasLock => pc = "app"
      PROVE  Locks'
  <2>1. \A i \in Depth + 1 .. Depth : ~frames[i].hasLock
    BY <1>1
  <2> QED
    BY <1>1, <1>3, <1>4, <2>1
<1>5. CASE Stays
  <2>1. Cut(Depth, Top.pc, Top.hasLock, Depth)
    BY <1>5 DEF Stays
  <2>2. \A i \in 1 .. Depth : /\ frames'[i].app = frames[i].app /\ frames'[i].pc = frames[i].pc
                              /\ frames'[i].hasLock = frames[i].hasLock
    <3>1. \A i \in 1 .. Depth : i = Depth \/ i \in 1 .. Depth - 1
      BY <1>1
    <3> QED
      BY <1>1, <2>1, <3>1 DEF Cut
  <2>3. Depth' = Depth
    BY <2>1 DEF Cut
  <2> QED
    BY <1>1, <1>2, <1>5, <2>2, <2>3, LocksStay DEF Stays
<1>6. CASE Ticks
  <2>1. Depth' = Depth /\ SameLocks
        /\ \A i \in 1 .. Depth : /\ frames'[i].app = frames[i].app /\ frames'[i].pc = frames[i].pc
                                 /\ frames'[i].hasLock = frames[i].hasLock
    BY <1>6 DEF Ticks, SameLocks
  <2> QED
    BY <1>1, <1>2, <2>1, LocksStay
<1>7. CASE Refuses
  <2>1. Top.hasLock => AfterCall(Depth) = "app"
    BY <1>1, <1>2, AfterCallFacts DEF Ready
  <2>2. Cut(Depth, AfterCall(Depth), Top.hasLock, Base) /\ SameLocks
    BY <1>7 DEF Refuses
  <2> HIDE DEF Base
  <2> QED
    BY <1>4, <2>1, <2>2
<1>8. ASSUME NEW app, NEW kind, Pushed(app, kind), SameLocks, kind = "call" \/ Top.pc = "finishing"
      PROVE  Locks'
  <2>1. Depth' = Depth + 1 /\ ~frames'[Depth + 1].hasLock
        /\ \A i \in 1 .. Depth : frames'[i].app = frames[i].app /\ frames'[i].hasLock = frames[i].hasLock
    BY <1>8 DEF Pushed
  <2>2. \A i \in 1 .. Depth - 1 : frames'[i].pc = frames[i].pc
    BY <1>8 DEF Pushed
  <2>3. Top.hasLock => frames'[Depth].pc = "waiting"
    BY <1>1, <1>2, <1>8 DEF Pushed
  <2>4. \A i \in 1 .. Depth : i = Depth \/ i \in 1 .. Depth - 1
    BY <1>1
  <2>5. \A i \in 1 .. Depth : frames[i].hasLock => frames'[i].pc \in {"app", "waiting"}
    BY <1>1, <1>2, <2>2, <2>3, <2>4
  <2>6. \A i \in 1 .. Depth + 1 : i \notin 1 .. Depth => i = Depth + 1
    BY <1>1
  <2>7. Depth' \in Nat /\ \A i \in 1 .. Depth : i \in 1 .. Depth'
    BY <1>1, <2>1
  <2> QED
    BY <1>1, <1>8, <2>1, <2>5, <2>6, <2>7, LocksStay
<1>9. CASE Enters
  <2>1. ~Top.hasLock
    BY <1>1, <1>2, <1>9 DEF Enters
  <2>2. Cut(Depth, "app", Top.hasLock, Base) /\ SameLocks
    BY <1>9 DEF Enters
  <2> HIDE DEF Base
  <2> QED
    BY <1>4, <2>1, <2>2
<1>10. CASE Answers
  <2>1. ~Top.hasLock
    BY <1>1, <1>2, <1>10 DEF Answers
  <2> QED
    BY <1>4, <1>10, <2>1 DEF Answers
<1>11. CASE Fails
  <2>1. Cut(Base, "returning", FALSE, Base) /\ isLocked' = LocksWithout(Base)
    BY <1>11 DEF Fails
  <2> HIDE DEF Base
  <2> QED
    BY <2>1, LocksCut
<1>12. CASE Returns
  BY <1>12, LocksCut DEF Returns
<1>13. CASE PopsDeferred
  <2>1. Depth - 1 \in 1 .. Depth /\ ~Top.hasLock
    BY <1>1, <1>2, <1>13 DEF PopsDeferred
  <2>2. frames[Depth - 1].pc = "finishing"
    BY <1>1, <1>13 DEF PopsDeferred, Ready, Shape
  <2>3. ~frames[Depth - 1].hasLock /\ \A i \in Depth - 1 + 1 .. Depth : ~frames[i].hasLock
    BY <1>1, <1>2, <2>1, <2>2
  <2> QED
    BY <1>3, <1>13, <2>3 DEF PopsDeferred
<1>14. CASE PopsCall
  <2>1. Depth - 1 \in 1 .. Depth /\ ~Top.hasLock
    BY <1>1, <1>2, <1>14 DEF PopsCall
  <2>2. frames[Depth - 1].hasLock => AfterCall(Depth - 1) = "app"
    BY <1>1, <1>2, <2>1, AfterCallFacts DEF Ready
  <2>3. \A i \in Depth - 1 + 1 .. Depth : ~frames[i].hasLock
    BY <1>1, <2>1
  <2>4. PICK t : Cut(Depth - 1, AfterCall(Depth - 1), frames[Depth - 1].hasLock, t) /\ SameLocks
    BY <1>14 DEF PopsCall
  <2> QED
    BY <1>3, <2>2, <2>3, <2>4
<1>15. CASE \E held \in BOOLEAN : SetsLock(held)
  BY <1>15, LocksSet
<1>16. CASE PushesCall \/ PushesDeferred
  BY <1>8, <1>16 DEF PushesCall, PushesDeferred
<1> QED
  BY <1>5, <1>6, <1>7, <1>9, <1>10, <1>11, <1>12, <1>13, <1>14, <1>15, <1>16 DEF Moves

-----------------------------------------------------------------------------
(* Signal masks and timers *)

LEMMA BaseAfter ==
    ASSUME request.controlled, request' = request, frames' \in Seq(Frames),
           NEW t, IsThread(frames', t)
    PROVE  Base' = t
<1>1. ThreadOf(frames') = t
  BY ThreadIs
<1>2. Base' = ThreadOf(frames')
  BY DEF Base, ThreadOf
<1> QED
  BY <1>1, <1>2

\* The thread is the same as long as its first context stays.
LEMMA BaseCut ==
    ASSUME Ready, request.controlled, request' = request,
           NEW n, NEW pc, NEW lock, NEW t, Cut(n, pc, lock, t), Base <= n
    PROVE  Base' = Base
<1>1. IsThread(frames, Base) /\ Base \in 1 .. Depth /\ Depth \in Nat /\ Depth = Len(frames)
  BY BaseFacts, ContextFacts DEF Ready
<1> HIDE DEF Base
<1>2. n \in 1 .. Depth /\ Len(frames') = n /\ frames' \in Seq(Frames)
      /\ \A i \in 1 .. n : frames'[i].kind = frames[i].kind
  BY DEF Cut, Depth
<1>3. IsThread(frames', Base)
  BY <1>1, <1>2 DEF IsThread
<1> QED
  BY <1>2, <1>3, BaseAfter

LEMMA MasksKept ==
    ASSUME Ready, request.controlled, request' = request, Masks,
           NEW n, NEW pc, NEW lock, Cut(n, pc, lock, n), Kept(n), Base <= n,
           pc = "entering" => Top.pc = "entering",
           pc \in {"app", "finishing"} => Top.pc \in {"app", "finishing"}
    PROVE  Masks'
<1>1. Base' = Base
  BY BaseCut
<1>2. Base \in 1 .. Depth /\ Depth \in Nat
  BY ReadyFacts, ContextFacts DEF Ready
<1> HIDE DEF Base
<1>3. n \in 1 .. Depth /\ Depth' = n /\ Top'.pc = pc
      /\ \A i \in 1 .. n : frames'[i].kind = frames[i].kind
  BY DEF Cut, Top
<1>4. \A i \in 1 .. n : frames'[i].timer = frames[i].timer /\ frames'[i].blocked = frames[i].blocked
  BY DEF Cut, Kept
<1>5. guardedArea' = guardedArea
  BY DEF Kept
<1>6. \A i \in 1 .. n : i \in 1 .. Depth
  BY <1>2, <1>3
<1>7. Base \in 1 .. n
  BY <1>2, <1>3
<1> QED
  BY <1>1, <1>3, <1>4, <1>5, <1>6, <1>7 DEF Masks

LEMMA MasksFreed ==
    ASSUME Ready, request.controlled, request' = request, Masks,
           NEW pc, NEW lock, Cut(Depth, pc, lock, Base), Freed(Base), pc # "entering",
           pc \in {"app", "finishing"} => frames[Base].timer \in {"armed", "pending"}
    PROVE  Masks'
<1>1. Base \in 1 .. Depth /\ Depth \in Nat
  BY ReadyFacts, ContextFacts DEF Ready
<1>2. Base' = Base
  BY <1>1, BaseCut
<1> HIDE DEF Base
<1>3. Depth' = Depth /\ Top'.pc = pc /\ \A i \in 1 .. Depth : frames'[i].kind = frames[i].kind
  BY DEF Cut, Top
<1>4. \A i \in 1 .. Depth : i # Base =>
         frames'[i].timer = frames[i].timer /\ frames'[i].blocked = frames[i].blocked
  BY DEF Cut
<1>5. frames'[Base].timer = frames[Base].timer /\ frames'[Base].timer # "pending"
      /\ ~frames'[Base].blocked /\ ~guardedArea'
  BY DEF Freed
<1>6. \A i \in 1 .. Depth : frames'[i].timer # "none" <=> frames'[i].kind = "call"
  BY <1>3, <1>4, <1>5 DEF Masks
<1>7. ASSUME NEW i \in 1 .. Depth, frames'[i].kind = "call", i < Base
      PROVE  frames'[i].blocked /\ frames'[i].timer \in {"armed", "pending"}
  BY <1>1, <1>3, <1>4, <1>7 DEF Masks
<1> QED
  BY <1>2, <1>3, <1>5, <1>6, <1>7 DEF Masks

LEMMA MasksTick ==
    ASSUME Ready, request' = request, Masks, Ticks
    PROVE  Masks'
<1>1. IsThread(frames, Base) /\ Base \in 1 .. Depth /\ Depth \in Nat /\ Depth = Len(frames)
  BY BaseFacts, ContextFacts DEF Ready, Ticks
<1> HIDE DEF Base
<1>2. Depth' = Depth /\ Len(frames') = Depth /\ frames' \in Seq(Frames) /\ request.controlled
  BY DEF Ticks, Depth
<1>3. \A i \in 1 .. Depth : /\ frames'[i].kind = frames[i].kind /\ frames'[i].pc = frames[i].pc
                            /\ frames'[i].blocked = frames[i].blocked
  BY DEF Ticks
<1>4. \A i \in 1 .. Depth : frames'[i].timer = frames[i].timer
         \/ (frames[i].blocked /\ frames[i].timer = "armed" /\ frames'[i].timer = "pending")
  BY DEF Ticks
<1>5. IsThread(frames', Base)
  BY <1>1, <1>2, <1>3 DEF IsThread
<1>6. Base' = Base
  BY <1>2, <1>5, BaseAfter
<1>7. Top'.pc = Top.pc /\ guardedArea' = guardedArea
  <2>1. Depth \in 1 .. Depth
    BY <1>1
  <2> QED
    BY <1>2, <1>3, <2>1 DEF Top, Ticks
<1>8. \A i \in 1 .. Depth : frames'[i].timer # "none" <=> frames'[i].kind = "call"
  BY <1>3, <1>4 DEF Masks
<1>9. ASSUME NEW i \in 1 .. Depth, frames'[i].kind = "call", i < Base
      PROVE  frames'[i].blocked /\ frames'[i].timer \in {"armed", "pending"}
  BY <1>3, <1>4, <1>9 DEF Masks
<1>10. Top.pc = "entering" => frames'[Base].blocked /\ frames'[Base].timer \in {"armed", "pending"}
  BY <1>1, <1>3, <1>4 DEF Masks
<1>11. Top.pc \in {"app", "finishing"} =>
          ~guardedArea /\ ~frames'[Base].blocked /\ frames'[Base].timer = "armed"
  BY <1>1, <1>3, <1>4 DEF Masks
<1> QED
  BY <1>2, <1>6, <1>7, <1>8, <1>9, <1>10, <1>11 DEF Masks

LEMMA MasksPush ==
    ASSUME Ready, request.controlled, request' = request, Masks, PushesCall \/ PushesDeferred
    PROVE  Masks'
<1>1. IsThread(frames, Base) /\ Base \in 1 .. Depth /\ Depth \in Nat /\ Depth = Len(frames)
      /\ Top = frames[Depth]
  BY BaseFacts, ContextFacts DEF Ready, Top
<1> DEFINE d == Depth
           b == Base
<1>2. PICK kind \in {"call", "deferred"} :
          /\ \E app \in Apps : Pushed(app, kind)
          /\ kind = "call" => PushesCall
          /\ kind = "deferred" => PushesDeferred
  <2>1. CASE PushesCall
    BY <2>1 DEF PushesCall
  <2>2. CASE PushesDeferred
    BY <2>2 DEF PushesDeferred
  <2> QED
    BY <2>1, <2>2
<1>3. /\ frames' \in Seq(Frames) /\ Depth' = d + 1 /\ Len(frames') = d + 1
      /\ \A i \in 1 .. d : frames'[i].kind = frames[i].kind /\ frames'[i].timer = frames[i].timer
      /\ \A i \in 1 .. d : i # b => frames'[i].blocked = frames[i].blocked
      /\ frames'[b].blocked /\ frames'[d + 1].kind = kind /\ frames'[d + 1].pc = "entering"
  BY <1>2 DEF Pushed, Depth
<1>4. Top'.pc = "entering"
  BY <1>3 DEF Top
\* Who pushes is not masked, so its timer is still set, unless it is executeOne.
<1>5. frames[b].kind = "call" => frames[b].timer = "armed"
  <2>1. CASE Top.pc = "start"
    <3>1. Top.kind = "root"
      BY <2>1, ContextFacts DEF Ready, Top
    <3>2. Depth = 1
      BY <1>1, <3>1 DEF Ready, Shape, Top
    <3> QED
      BY <1>1, <3>1, <3>2
  <2>2. CASE Top.pc \in {"app", "finishing"}
    BY <2>2 DEF Masks
  <2> QED
    BY <2>1, <2>2, <1>2 DEF PushesCall, PushesDeferred
<1>6. \A j \in b + 1 .. d : frames[j].kind = "deferred"
  BY <1>1 DEF IsThread
<1>7. b \in 1 .. d /\ frames[b].kind # "deferred"
  BY <1>1 DEF IsThread
<1>8. \A i \in 1 .. d : frames[i].timer # "none" <=> frames[i].kind = "call"
  BY DEF Masks
<1>9. \A i \in 1 .. d : frames[i].kind = "call" /\ i < b =>
         frames[i].blocked /\ frames[i].timer \in {"armed", "pending"}
  BY DEF Masks
<1>10. d \in Nat
  BY <1>1
<1> HIDE DEF d, b
<1>11. CASE kind = "call"
  <2>1. IsThread(frames', d + 1)
    BY <1>3, <1>10, <1>11 DEF IsThread
  <2>2. Base' = d + 1
    BY <1>3, <2>1, BaseAfter
  <2>3. frames'[d + 1].blocked /\ frames'[d + 1].timer = "armed"
    BY <1>2, <1>11 DEF PushesCall, d
  <2>4. ASSUME NEW i \in 1 .. d + 1
        PROVE  /\ frames'[i].timer # "none" <=> frames'[i].kind = "call"
               /\ frames'[i].kind = "call" /\ i < d + 1 =>
                     frames'[i].blocked /\ frames'[i].timer \in {"armed", "pending"}
    <3>1. CASE i = d + 1
      BY <1>3, <1>10, <1>11, <2>3, <3>1
    <3>2. CASE i # d + 1
      <4>1. i \in 1 .. d /\ (i < b \/ i = b \/ i \in b + 1 .. d)
        BY <1>7, <1>10, <3>2
      <4>2. CASE i < b
        BY <1>3, <1>7, <1>8, <1>9, <4>1, <4>2
      <4>3. CASE i = b
        BY <1>3, <1>5, <1>8, <4>1, <4>3
      <4>4. CASE i \in b + 1 .. d
        BY <1>3, <1>6, <1>8, <4>1, <4>4
      <4> QED
        BY <4>1, <4>2, <4>3, <4>4
    <3> QED
      BY <3>1, <3>2
  <2> QED
    BY <1>3, <1>4, <2>2, <2>3, <2>4 DEF Masks
<1>12. CASE kind = "deferred"
  <2>1. Top.pc = "finishing" /\ frames'[d + 1].timer = "none"
    BY <1>2, <1>12 DEF PushesDeferred, d
  <2>2. \A j \in b + 1 .. d + 1 : frames'[j].kind = "deferred"
    <3>1. \A j \in b + 1 .. d + 1 : j = d + 1 \/ (j \in b + 1 .. d /\ j \in 1 .. d)
      BY <1>7, <1>10
    <3> QED
      BY <1>3, <1>6, <1>12, <3>1
  <2>3. IsThread(frames', b)
    BY <1>3, <1>7, <1>10, <2>2 DEF IsThread
  <2>4. Base' = b
    BY <1>3, <2>3, BaseAfter
  <2>5. frames[b].timer = "armed"
    BY <2>1 DEF Masks, b
  <2>6. ASSUME NEW i \in 1 .. d + 1
        PROVE  /\ frames'[i].timer # "none" <=> frames'[i].kind = "call"
               /\ frames'[i].kind = "call" /\ i < b =>
                     frames'[i].blocked /\ frames'[i].timer \in {"armed", "pending"}
    <3>1. CASE i = d + 1
      BY <1>3, <1>12, <2>1, <3>1
    <3>2. CASE i # d + 1
      <4>1. i \in 1 .. d
        BY <1>10, <3>2
      <4> QED
        BY <1>3, <1>7, <1>8, <1>9, <4>1
    <3> QED
      BY <3>1, <3>2
  <2> QED
    BY <1>3, <1>4, <1>7, <2>4, <2>5, <2>6 DEF Masks
<1> QED
  BY <1>2, <1>11, <1>12

LEMMA MasksFail ==
    ASSUME Ready, request.controlled, request' = request, Masks, Fails
    PROVE  Masks'
<1>1. Base \in 1 .. Depth /\ Depth \in Nat /\ Depth >= 2 /\ frames[Base].kind = "call"
  <2>1. Depth >= 2 /\ Depth \in Nat
    BY ReadyFacts, ContextFacts DEF Ready, Fails
  <2> QED
    BY <2>1, BaseFacts DEF Ready
<1>2. Cut(Base, "returning", FALSE, Base) /\ frames'[Base].timer \in {frames[Base].timer, "spent"}
  BY DEF Fails
<1>3. Base' = Base
  <2> DEFINE b == Base
  <2>1. b <= b
    BY <1>1
  <2>2. Cut(b, "returning", FALSE, b)
    BY <1>2
  <2> HIDE DEF b
  <2>3. Base <= b
    BY <2>1 DEF b
  <2> QED
    BY <2>2, <2>3, BaseCut
<1> HIDE DEF Base
<1>4. Depth' = Base /\ Top'.pc = "returning"
      /\ \A i \in 1 .. Base : frames'[i].kind = frames[i].kind
  BY <1>2 DEF Cut, Top
<1>5. \A i \in 1 .. Base : i # Base =>
         frames'[i].timer = frames[i].timer /\ frames'[i].blocked = frames[i].blocked
  BY <1>2 DEF Cut
<1>6. ASSUME NEW i \in 1 .. Base PROVE frames'[i].timer # "none" <=> frames'[i].kind = "call"
  <2>1. i \in 1 .. Depth /\ Base \in 1 .. Depth
    BY <1>1
  <2>2. frames[i].timer # "none" <=> frames[i].kind = "call"
    BY <2>1 DEF Masks
  <2>3. frames[Base].timer # "none"
    BY <1>1 DEF Masks
  <2> QED
    BY <1>1, <1>2, <1>4, <1>5, <2>2, <2>3
<1>7. ASSUME NEW i \in 1 .. Base, frames'[i].kind = "call", i < Base
      PROVE  frames'[i].blocked /\ frames'[i].timer \in {"armed", "pending"}
  <2>1. i \in 1 .. Depth /\ frames[i].kind = "call"
    BY <1>1, <1>4, <1>7
  <2> QED
    BY <1>5, <1>7, <2>1 DEF Masks
<1> QED
  BY <1>3, <1>4, <1>6, <1>7 DEF Masks

LEMMA MasksPop ==
    ASSUME Ready, request.controlled, request' = request, Masks, PopsCall
    PROVE  Masks'
<1>1. Depth \in Nat /\ Depth >= 2 /\ Top = frames[Depth] /\ Top.kind = "call" /\ frames \in Seq(Frames)
      /\ Depth = Len(frames)
  BY ContextFacts DEF Ready, PopsCall, Top
<1>2. PICK t \in 1 .. Depth - 1 :
          /\ Cut(Depth - 1, AfterCall(Depth - 1), frames[Depth - 1].hasLock, t)
          /\ Freed(t) /\ IsThread(frames', t)
  BY DEF PopsCall
<1>3. IsThread(frames, Depth)
  BY <1>1 DEF IsThread
<1>4. Base = Depth
  BY <1>1, <1>3, ThreadIs DEF Base
<1> HIDE DEF Base
<1>5. /\ frames' \in Seq(Frames) /\ Depth' = Depth - 1 /\ Top'.pc = AfterCall(Depth - 1)
      /\ \A i \in 1 .. Depth - 1 : frames'[i].kind = frames[i].kind
  BY <1>2 DEF Cut, Top
<1>6. Base' = t
  BY <1>2, <1>5, BaseAfter
<1>7. \A i \in 1 .. Depth - 1 :
         /\ frames'[i].timer = frames[i].timer
         /\ i # t => frames'[i].blocked = frames[i].blocked
  BY <1>2 DEF Cut, Freed
<1>8. frames'[t].timer # "pending" /\ ~frames'[t].blocked /\ ~guardedArea'
  BY <1>2 DEF Freed
<1>9. ASSUME NEW i \in 1 .. Depth - 1
      PROVE  /\ frames'[i].timer # "none" <=> frames'[i].kind = "call"
             /\ frames'[i].kind = "call" /\ i < t =>
                   frames'[i].blocked /\ frames'[i].timer \in {"armed", "pending"}
  <2>1. i \in 1 .. Depth /\ i < Base
    BY <1>1, <1>4
  <2> QED
    BY <1>5, <1>7, <2>1 DEF Masks
<1>10. ASSUME Top'.pc \in {"app", "finishing"} PROVE frames'[t].timer = "armed"
  <2>1. Depth - 1 >= 2
    BY <1>1, <1>5, <1>10, AfterCallFacts DEF Ready
  <2>2. t >= 2
    <3>1. ASSUME t = 1 PROVE FALSE
      <4>1. frames'[2].kind = "deferred"
        BY <1>1, <1>2, <1>5, <2>1, <3>1 DEF IsThread, Depth
      <4>2. frames[2].kind = "deferred"
        BY <1>1, <1>5, <2>1, <4>1
      <4>3. frames[1].pc = "finishing"
        BY <1>1, <2>1, <4>2 DEF Ready, Shape
      <4> QED
        BY <4>3, ContextFacts DEF Ready
    <3> QED
      BY <1>1, <3>1
  <2>3. frames[t].kind = "call"
    <3>1. frames[t].kind # "deferred"
      BY <1>2, <1>5 DEF IsThread
    <3> QED
      BY <1>1, <2>2, <3>1, ContextFacts DEF Ready
  <2>4. frames[t].timer \in {"armed", "pending"}
    BY <1>1, <1>4, <2>3 DEF Masks
  <2> QED
    BY <1>7, <1>8, <2>4
<1>11. Top'.pc # "entering"
  BY <1>1, <1>5, AfterCallFacts DEF Ready
<1> QED
  BY <1>5, <1>6, <1>8, <1>9, <1>10, <1>11 DEF Masks

LEMMA MovesMasks ==
    ASSUME Ready, request.controlled, request' = request, Masks, Moves
    PROVE  Masks'
<1>1. Base \in 1 .. Depth /\ Depth \in Nat
  BY ReadyFacts, ContextFacts DEF Ready
<1>2. Base <= Depth
  BY <1>1
<1>3. CASE Stays
  BY <1>2, <1>3, MasksKept DEF Stays
<1>4. CASE Answers
  BY <1>2, <1>4, MasksKept DEF Answers
<1>5. CASE Returns
  BY <1>2, <1>5, MasksKept DEF Returns
<1>6. CASE \E held \in BOOLEAN : SetsLock(held)
  BY <1>2, <1>6, MasksKept DEF SetsLock
<1>7. CASE PopsDeferred
  <2>1. Base <= Depth - 1
    <3>1. Base # Depth
      BY <1>7, BaseFacts DEF PopsDeferred, Ready, IsThread, Top
    <3> QED
      BY <1>1, <3>1
  <2> QED
    BY <1>7, <2>1, MasksKept DEF PopsDeferred
<1>8. CASE Enters
  <2>1. Cut(Depth, "app", Top.hasLock, Base) /\ Freed(Base)
        /\ frames[Base].timer \in {"armed", "pending"}
    BY <1>8 DEF Enters, Masks
  <2> QED
    BY <2>1, MasksFreed
<1>9. CASE Refuses
  <2>1. Cut(Depth, AfterCall(Depth), Top.hasLock, Base) /\ Freed(Base)
    BY <1>9 DEF Refuses
  <2>2. AfterCall(Depth) \in {"app", "returned"}
    BY <1>1, AfterCallFacts DEF Ready
  <2>3. AfterCall(Depth) = "app" => Top.pc = "app"
    BY <1>9, ContextFacts DEF Refuses, AfterCall, Ready, Top
  <2>4. Top.pc = "app" => frames[Base].timer = "armed"
    BY DEF Masks
  <2> HIDE DEF Base
  <2> QED
    BY <2>1, <2>2, <2>3, <2>4, MasksFreed
<1>10. CASE Ticks
  BY <1>10, MasksTick
<1>11. CASE PushesCall \/ PushesDeferred
  BY <1>11, MasksPush
<1>12. CASE Fails
  BY <1>12, MasksFail
<1>13. CASE PopsCall
  BY <1>13, MasksPop
<1> QED
  BY <1>3, <1>4, <1>5, <1>6, <1>7, <1>8, <1>9, <1>10, <1>11, <1>12, <1>13 DEF Moves

-----------------------------------------------------------------------------
(* Gas, heap, messages and the call list *)

\* What a call and the calls below it may still use of their gas.
GasInv ==
    request.controlled =>
        /\ Len(resources) >= 1
        /\ resources[1].gas = 0 /\ resources[1].before = 0
        /\ resources[1].external = request.maxClocks
        /\ \A i \in 1 .. Len(resources) :
              /\ resources[i].remaining <= resources[i].external
              /\ i > 1 => 3 * resources[i].external <= 2 * resources[i].gas
        /\ \A i \in 1 .. Len(resources) - 1 :
              resources[i + 1].before - resources[i].before - resources[i].gas
                  + 3 * resources[i + 1].gas
                <= 3 * (resources[i].external - resources[i].remaining)
        /\ granted - Resources.before - Resources.gas
                <= 3 * (Resources.external - Resources.remaining)

\* Ids and versions are given in the order in which calls begin.
Numbered ==
    /\ failed \subseteq 1 .. lastGeneratedID
    /\ \A i \in 1 .. Len(resources) :
          resources[i].id \in 1 .. lastGeneratedID /\ resources[i].id \notin failed
    /\ \A i, j \in 1 .. Len(resources) : i < j => resources[i].id < resources[j].id
    /\ \A i \in 2 .. Len(resources) : resources[i].version < currentVersion
    /\ \A i, j \in 2 .. Len(resources) : i < j => resources[i].version < resources[j].version

\* What later calls find is what they add to the marks of earlier ones, and a call that
\* fails goes back to what calls before it have stored.
Marked ==
    /\ SetsGrow(heap.stored)
    /\ \A n \in DOMAIN heap.stored : heap.stored[n] \subseteq 1 .. lastGeneratedID
    /\ \A i \in 2 .. Len(resources) :
          Seen(heap.stored, resources[i].version, {}) \subseteq 1 .. resources[i].id - 1

TraceInv ==
    /\ ~request.controlled => failed = {}
    /\ request.controlled => Numbered /\ Marked

-----------------------------------------------------------------------------
(* What a step does to the handlers, the heap and the messages *)

HandlersKept == UNCHANGED <<resources, lastGeneratedID, currentVersion, granted, failed>>

\* A call is begun, or refused after it was paid for.
Spends ==
    /\ request.controlled /\ Len(resources) >= 1
    /\ lastGeneratedID' = lastGeneratedID + 1
    /\ UNCHANGED <<failed, heap, messages, accepted>>
    /\ \E gas \in 0 .. Resources.remaining :
          \/ resources' = Forwarding(gas) /\ UNCHANGED <<currentVersion, granted>>
          \/ /\ resources' = Append(Forwarding(gas), Handler(lastGeneratedID + 1, gas, ExternalGas(gas)))
             /\ currentVersion' = currentVersion + 1
             /\ granted' = granted + gas

CallsOptimistically ==
    /\ ~request.controlled
    /\ UNCHANGED <<lastGeneratedID, granted, failed, heap, messages, accepted>>
    /\ \/ resources' = Append(resources, Handler(0, 0, 0)) /\ currentVersion' = currentVersion + 1
       \/ Len(resources) >= 1 /\ resources' = Pop(resources) /\ UNCHANGED currentVersion

EndsCall ==
    /\ request.controlled /\ Len(resources) >= 2
    /\ resources' = Pop(resources) /\ Settle
    /\ UNCHANGED <<lastGeneratedID, granted, heap, messages, accepted>>

Signs ==
    \E account \in Accounts, body \in Bodies, spender \in Apps :
        OwnedByApp(account) /\ Sign(TextFor(body, spender, NoNonce), account)

ReadsNonces ==
    \E account \in Accounts : \E ways \in SUBSET NonceTable[account] : heap' = Reading(account, ways)

\* What is accepted again and again is empty, or as it is in the list.
AcceptsAgain ==
    \E m \in Verified :
        /\ accepted' = [accepted EXCEPT !.again = @ \cup {m}]
        /\ m.text = Used \/ (m.index \in DOMAIN messages
                              /\ messages[m.index] = [issuer |-> m.issuer, text |-> m.text])

AcceptsOnce ==
    \E account \in Accounts, body \in Bodies, index \in DOMAIN messages :
        VerifyByApp(account, body, index) \/ VerifyWithNonce(account, body, index)

HeapMoves ==
    \/ HandlersKept /\ UNCHANGED <<heap, messages, accepted>>
    \/ HandlersKept /\ (Load \/ Store)
    \/ /\ HandlersKept /\ ReadsNonces
       /\ \/ Signs /\ UNCHANGED accepted
          \/ UNCHANGED messages /\ (AcceptsAgain \/ UNCHANGED accepted)
    \/ HandlersKept /\ AcceptsOnce
    \/ Spends
    \/ CallsOptimistically
    \/ EndsCall

LEMMA SpendsStep ==
    ASSUME Ready, NEW app \in Apps, NEW forwarded,
           InvokeTooDeep(app, forwarded) \/ Invoke(app, forwarded)
    PROVE  Spends
<1>1. forwarded \in 0 .. 255 /\ request.controlled
  BY CallsFacts DEF Invoke, InvokeTooDeep
<1>2. Len(resources) >= 1 /\ Resources \in HandlerRecords
  BY <1>1, HandlersAlive DEF Ready
<1>3. GasFor(forwarded) \in 0 .. Resources.remaining
  BY <1>1, <1>2, GasForBound DEF Ready
<1>4. CASE InvokeTooDeep(app, forwarded)
  BY <1>1, <1>2, <1>3, <1>4 DEF InvokeTooDeep, Spends, sigVars
<1>5. CASE Invoke(app, forwarded)
  BY <1>1, <1>2, <1>3, <1>5 DEF Invoke, NextInvocation, Spends, sigVars
<1> QED
  BY <1>4, <1>5

LEMMA SlotFacts ==
    ASSUME NEW account \in Accounts, ~OwnedByApp(account), NEW body \in Bodies
    PROVE  NonceSlot(account, body) \in NonceTable[account]
<1>1. Length[body] \in Nat /\ Ways[account] \in Nat /\ Ways[account] # 0
  BY VirtualSignaturesAssumption DEF OwnedByApp
<1>2. Length[body] % Ways[account] \in 0 .. Ways[account] - 1
  BY <1>1
<1> QED
  BY <1>2 DEF NonceSlot, NonceTable

LEMMA VerifiesStep ==
    ASSUME TypeInv,
           \/ \E account \in Accounts : VerifyEmpty(account)
           \/ \E index \in DOMAIN messages : VerifyByAcc(index)
           \/ \E account \in Accounts, body \in Bodies : VerifyRefused(account, body)
    PROVE  HandlersKept /\ ReadsNonces /\ UNCHANGED messages /\ (AcceptsAgain \/ UNCHANGED accepted)
<1>1. \A account : DecisionNonce(account) \in SUBSET NonceTable[account]
  BY DEF DecisionNonce
<1>2. ASSUME NEW account \in Accounts, VerifyEmpty(account)
      PROVE  HandlersKept /\ ReadsNonces /\ UNCHANGED messages /\ AcceptsAgain
  <2> DEFINE m == [index |-> 0, issuer |-> account, text |-> Used]
  <2>1. m \in Verified /\ m.text = Used
    BY DEF Verified
  <2>2. accepted' = [accepted EXCEPT !.again = @ \cup {m}]
    BY <1>2 DEF VerifyEmpty, AcceptAgain
  <2> HIDE DEF m
  <2>3. AcceptsAgain
    BY <2>1, <2>2 DEF AcceptsAgain
  <2> QED
    BY <1>1, <1>2, <2>3 DEF VerifyEmpty, appVars, handlerVars, HandlersKept, ReadsNonces
<1>3. ASSUME NEW index \in DOMAIN messages, VerifyByAcc(index)
      PROVE  HandlersKept /\ ReadsNonces /\ UNCHANGED messages /\ AcceptsAgain
  <2> DEFINE account == messages[index].issuer
             m == [index |-> index, issuer |-> account, text |-> messages[index].text]
             M == [issuer : Accounts, text : Texts \cup {Used}]
  <2>1. messages \in Seq(M)
    BY DEF TypeInv
  <2> HIDE DEF M
  <2>2. index \in 1 .. Len(messages) /\ index \in Nat
    BY <2>1
  <2>3. messages[index] \in M
    BY <2>1, <2>2, ElementOfSeq
  <2>4. messages[index] \in [issuer : Accounts, text : Texts \cup {Used}]
    BY <2>3 DEF M
  <2>5. m \in Verified /\ account \in Accounts
    BY <2>2, <2>4 DEF Verified
  <2>6. m.index = index /\ messages[index] = [issuer |-> m.issuer, text |-> m.text]
    BY <2>4
  <2>7. accepted' = [accepted EXCEPT !.again = @ \cup {m}]
    BY <1>3 DEF VerifyByAcc, AcceptAgain
  <2>8. HandlersKept /\ UNCHANGED messages /\ heap' = Reading(account, DecisionNonce(account))
    BY <1>3 DEF VerifyByAcc, VerifyOnly, appVars, handlerVars, HandlersKept
  <2> HIDE DEF m, account
  <2>9. AcceptsAgain
    BY <2>5, <2>6, <2>7 DEF AcceptsAgain
  <2> QED
    BY <1>1, <2>5, <2>8, <2>9 DEF ReadsNonces
<1>4. ASSUME NEW account \in Accounts, NEW body \in Bodies, VerifyRefused(account, body)
      PROVE  HandlersKept /\ ReadsNonces /\ UNCHANGED <<messages, accepted>>
  <2>1. ReadsNonces
    <3>1. CASE ~OwnedByApp(account) /\ heap' = Reading(account, {NonceSlot(account, body)})
      <4>1. {NonceSlot(account, body)} \in SUBSET NonceTable[account]
        BY <3>1, SlotFacts
      <4> QED
        BY <3>1, <4>1 DEF ReadsNonces
    <3>2. CASE heap' = Reading(account, DecisionNonce(account))
      BY <1>1, <3>2 DEF ReadsNonces
    <3> QED
      BY <1>4, <3>1, <3>2 DEF VerifyRefused
  <2> QED
    BY <1>4, <2>1 DEF VerifyRefused, appVars, handlerVars, sigVars, HandlersKept
<1> QED
  BY <1>2, <1>3, <1>4

LEMMA NextHeapMoves ==
    ASSUME Ready, [Next]_vars
    PROVE  HeapMoves
<1>1. ASSUME NEW app \in Apps, NEW forwarded, InvokeAny(app, forwarded) PROVE HeapMoves
  <2>1. CASE InvokeTooDeep(app, forwarded) \/ Invoke(app, forwarded)
    BY <2>1, SpendsStep DEF HeapMoves
  <2>2. CASE InvokeWithoutGas(app, forwarded) \/ InvokeWithoutVersion(app, forwarded)
    BY <2>2 DEF InvokeWithoutGas, InvokeWithoutVersion, handlerVars, sigVars, HeapMoves, HandlersKept
  <2>3. CASE InvokeOptimistic(app, forwarded)
    BY <2>3 DEF InvokeOptimistic, sigVars, HeapMoves, CallsOptimistically
  <2> QED
    BY <1>1, <2>1, <2>2, <2>3 DEF InvokeAny
<1>2. CASE UNCHANGED <<handlerVars, heap, sigVars>>
  BY <1>2 DEF handlerVars, sigVars, HeapMoves, HandlersKept
<1>3. CASE Load \/ Store
  BY <1>3 DEF Load, Store, handlerVars, HeapMoves, HandlersKept
<1>4. ASSUME NEW account \in Accounts, NEW body \in Bodies, NEW spender \in Apps,
             VirtualSign(account, body, spender)
      PROVE  HeapMoves
  <2>1. HandlersKept /\ ReadsNonces
    <3>1. DecisionNonce(account) \in SUBSET NonceTable[account]
      BY DEF DecisionNonce
    <3> QED
      BY <1>4, <3>1 DEF VirtualSign, handlerVars, HandlersKept, ReadsNonces
  <2>2. UNCHANGED accepted /\ (UNCHANGED messages \/ Signs)
    BY <1>4 DEF VirtualSign, sigVars, Signs
  <2> QED
    BY <2>1, <2>2 DEF HeapMoves
<1>5. ASSUME NEW account \in Accounts, NEW body \in Bodies, NEW index \in DOMAIN messages,
             VerifyByApp(account, body, index) \/ VerifyWithNonce(account, body, index)
      PROVE  HeapMoves
  <2>1. HandlersKept
    BY <1>5 DEF VerifyByApp, VerifyWithNonce, appVars, handlerVars, HandlersKept
  <2>2. AcceptsOnce
    BY <1>5 DEF AcceptsOnce
  <2> QED
    BY <2>1, <2>2 DEF HeapMoves
<1>14. CASE \/ \E account \in Accounts : VerifyEmpty(account)
            \/ \E index \in DOMAIN messages : VerifyByAcc(index)
            \/ \E account \in Accounts, body \in Bodies : VerifyRefused(account, body)
  <2>1. HandlersKept /\ ReadsNonces /\ UNCHANGED messages /\ (AcceptsAgain \/ UNCHANGED accepted)
    BY <1>14, VerifiesStep DEF Ready
  <2> QED
    BY <2>1 DEF HeapMoves
<1>6. CASE LeaveContext
  <2>1. CASE Top.kind = "deferred" \/ request.controlled
    BY <1>6, <2>1 DEF LeaveContext, handlerVars, sigVars, HeapMoves, HandlersKept
  <2>2. CASE ~(Top.kind = "deferred" \/ request.controlled)
    <3>1. Depth >= 2
      BY <1>6, ReadyFacts DEF LeaveContext, At
    <3>2. Len(resources) >= 1
      BY <3>1, HandlersAlive DEF Ready
    <3> QED
      BY <1>6, <2>2, <3>2 DEF LeaveContext, sigVars, HeapMoves, CallsOptimistically
  <2> QED
    BY <2>1, <2>2
<1>7. CASE Join
  <2>1. Top.pc = "returning" /\ Depth >= 2
    BY <1>7, ReadyFacts DEF Join, At
  <2>2. request.controlled
    BY <2>1, ContextFacts DEF Ready, Shape, Top
  <2>3. Len(resources) >= 2
    BY <2>1, <2>2, HandlersAlive DEF Ready
  <2> QED
    BY <1>7, <2>2, <2>3 DEF Join, sigVars, HeapMoves, EndsCall
<1>8. CASE \/ EnterArea \/ ExitArea \/ AppFails \/ Return \/ FaultInGuardedArea \/ LoadsNoChunks
           \/ \E app \in Apps : InvokeDeferred(app)
  BY <1>2, <1>8 DEF EnterArea, ExitArea, AppFails, Return, FaultInGuardedArea, LoadsNoChunks,
     InvokeDeferred
<1>9. CASE Enter \/ EnterRefused \/ StartDeferred \/ Finish
  BY <1>2, <1>9 DEF Enter, EnterRefused, StartDeferred, Finish
<1>10. CASE Timer
  BY <1>2, <1>10 DEF Timer, TimerExpires, OptimisticTimerExpires
<1>11. CASE UNCHANGED vars
  BY <1>2, <1>11 DEF vars, handlerVars
<1>12. CASE Application
  BY <1>1, <1>3, <1>4, <1>5, <1>8, <1>12, <1>14 DEF Application
<1>13. CASE Machine
  BY <1>1, <1>6, <1>7, <1>9, <1>13 DEF Machine, RootCall
<1> QED
  BY <1>10, <1>11, <1>12, <1>13 DEF Next

LEMMA NotRunning ==
    ASSUME [Next]_vars, ~Running
    PROVE  UNCHANGED vars
<1>1. ASSUME NEW app, NEW forwarded, InvokeAny(app, forwarded) PROVE FALSE
  BY <1>1 DEF InvokeAny, InvokeWithoutGas, InvokeWithoutVersion, InvokeTooDeep, Invoke,
              InvokeOptimistic, Calls, At, Running
<1>2. ~Application
  <2>1. \A pc : ~At(pc)
    BY DEF At, Running
  <2>2. \A what : ~Does(what)
    BY <2>1 DEF Does
  <2>3. ~EnterArea /\ ~ExitArea /\ ~Load /\ ~Store
    BY <2>2 DEF EnterArea, ExitArea, Load, Store
  <2>4. ~AppFails /\ ~Return
    BY <2>1, <2>2 DEF AppFails, Return
  <2>5. ~FaultInGuardedArea
    BY <2>2 DEF FaultInGuardedArea
  <2>6. ~LoadsNoChunks
    BY <2>2 DEF LoadsNoChunks
  <2>7. ASSUME NEW app, InvokeDeferred(app) PROVE FALSE
    BY <2>2, <2>7 DEF InvokeDeferred
  <2>8. ASSUME NEW account, NEW body, NEW spender, VirtualSign(account, body, spender) PROVE FALSE
    BY <2>2, <2>8 DEF VirtualSign, LoadsArgContext
  <2>9. ASSUME NEW account, NEW body, NEW index,
               \/ VerifyEmpty(account) \/ VerifyByAcc(index) \/ VerifyRefused(account, body)
               \/ VerifyByApp(account, body, index) \/ VerifyWithNonce(account, body, index)
        PROVE  FALSE
    BY <2>2, <2>9 DEF VerifyEmpty, VerifyByAcc, VerifyRefused, VerifyByApp, VerifyWithNonce,
                      LoadsArgContext
  <2> QED
    BY <1>1, <2>3, <2>4, <2>5, <2>6, <2>7, <2>8, <2>9, Zenon DEF Application
<1>3. ~Machine
  <2>1. ~RootCall /\ ~Enter /\ ~EnterRefused
    BY DEF RootCall, Enter, EnterRefused, At, Running
  <2>2. ~StartDeferred /\ ~LeaveContext /\ ~Join /\ ~Finish
    BY DEF StartDeferred, LeaveContext, Join, Finish, At, Running
  <2> QED
    BY <2>1, <2>2 DEF Machine
<1>4. ~Timer
  BY DEF Timer, TimerExpires, OptimisticTimerExpires, Running
<1> QED
  BY <1>2, <1>3, <1>4 DEF Next

-----------------------------------------------------------------------------
(* Types *)

Messages == [issuer : Accounts, text : Texts \cup {Used}]

LEMMA TextType ==
    ASSUME NEW body \in Bodies, NEW app \in Apps, NEW nonce \in 0 .. NonceMax
    PROVE  TextFor(body, app, nonce) \in Texts
BY DEF TextFor, Texts

LEMMA NoNonceType == NoNonce \in 0 .. NonceMax
<1>1. NonceMax \in Nat
  BY VirtualSignaturesAssumption
<1> QED
  BY <1>1 DEF NoNonce

LEMMA MessagesType ==
    ASSUME TypeInv, Ready, HeapMoves
    PROVE  messages' \in Seq(Messages)
<1>1. messages \in Seq(Messages)
  BY DEF TypeInv, Messages
<1>2. CASE messages' = messages
  BY <1>1, <1>2
<1>3. CASE Signs
  <2>1. PICK account \in Accounts, body \in Bodies, spender \in Apps :
            Sign(TextFor(body, spender, NoNonce), account)
    BY <1>3 DEF Signs
  <2>2. TextFor(body, spender, NoNonce) \in Texts
    BY TextType, NoNonceType
  <2> DEFINE m == [issuer |-> account, text |-> TextFor(body, spender, NoNonce)]
  <2>3. m \in Messages
    BY <2>2 DEF Messages
  <2>4. messages' = Append(messages, m)
    BY <2>1 DEF Sign
  <2> HIDE DEF m
  <2> QED
    BY <1>1, <2>3, <2>4, AppendProperties
<1>4. ASSUME NEW account, NEW text, NEW index, VerifyAndInvalidate(text, account, index)
      PROVE  messages' \in Seq(Messages)
  <2> DEFINE m == [messages[index] EXCEPT !.text = Used]
  <2>1. index \in 1 .. Len(messages)
    BY <1>1, <1>4 DEF VerifyAndInvalidate, Verifies
  <2>2. messages[index] \in Messages
    BY <1>1, <2>1, ElementOfSeq
  <2>3. m \in Messages
    BY <2>2 DEF Messages
  <2>4. messages' = [messages EXCEPT ![index] = m]
    BY <1>4 DEF VerifyAndInvalidate
  <2> HIDE DEF m
  <2> QED
    BY <1>1, <2>1, <2>3, <2>4, ExceptSeq
<1>5. CASE AcceptsOnce
  BY <1>2, <1>4, <1>5 DEF AcceptsOnce, VerifyByApp, VerifyWithNonce, VerifyOnly
<1>6. CASE Load \/ Store
  BY <1>2, <1>6 DEF Load, Store, sigVars
<1> QED
  BY <1>2, <1>3, <1>5, <1>6 DEF HeapMoves, Spends, CallsOptimistically, EndsCall

\* What is known of the list of a nonce.
LEMMA NonceFacts ==
    ASSUME TypeInv, NEW account \in Accounts, NEW way \in NonceTable[account]
    PROVE  /\ heap.nonce[account][way] \in ListsOf(0 .. NonceMax)
           /\ (0 .. NonceMax) \in SUBSET Nat /\ currentVersion \in Nat
           /\ NonceOf(account, way) \in 0 .. NonceMax
<1>1. heap.nonce[account] \in [NonceTable[account] -> ListsOf(0 .. NonceMax)]
  BY DEF TypeInv, Heaps, NonceMaps, Nonces
<1>2. NonceMax \in Nat /\ currentVersion \in Nat
  BY VirtualSignaturesAssumption DEF TypeInv
<1>3. 0 \in 0 .. NonceMax /\ (0 .. NonceMax) \in SUBSET Nat
  BY <1>2
<1> DEFINE S == 0 .. NonceMax
<1>4. heap.nonce[account][way] \in ListsOf(S) /\ 0 \in S
  BY <1>1, <1>3
<1> HIDE DEF S
<1>5. Seen(heap.nonce[account][way], currentVersion, 0) \in S
  BY <1>2, <1>4, SeenType
<1> QED
  BY <1>2, <1>3, <1>4, <1>5 DEF NonceOf, S

LEMMA NoncesType ==
    ASSUME TypeInv, NEW account \in Accounts, NEW table \in Nonces(account),
           heap' = [heap EXCEPT !.nonce[account] = table]
    PROVE  /\ heap' \in Heaps /\ heap'.stored = heap.stored
           /\ heap'.nonce[account] = table
           /\ \A c \in Accounts : c # account => heap'.nonce[c] = heap.nonce[c]
<1> DEFINE Stored == ListsOf(SUBSET Nat)
<1>1. heap.stored \in Stored /\ heap.nonce \in NonceMaps
      /\ heap = [stored |-> heap.stored, nonce |-> heap.nonce]
  BY DEF TypeInv, Heaps
<1> HIDE DEF Stored
<1> DEFINE f == [heap.nonce EXCEPT ![account] = table]
<1>2. f \in NonceMaps /\ f[account] = table /\ \A c \in Accounts : c # account => f[c] = heap.nonce[c]
  BY <1>1 DEF NonceMaps
<1>3. heap' = [heap EXCEPT !.nonce = f]
  OBVIOUS
<1> HIDE DEF f
<1>4. heap' = [stored |-> heap.stored, nonce |-> f]
  BY <1>1, <1>3
<1>5. heap' \in [stored : Stored, nonce : NonceMaps]
  BY <1>1, <1>2, <1>4
<1>6. heap'.stored = heap.stored /\ heap'.nonce = f
  BY <1>4
<1> QED
  BY <1>2, <1>5, <1>6 DEF Heaps, Stored

LEMMA ReadingType ==
    ASSUME TypeInv, ReadsNonces
    PROVE  /\ heap' \in Heaps /\ heap'.stored = heap.stored
           /\ \A c \in Accounts : \A w \in NonceTable[c] :
                 heap'.nonce[c][w] \in {heap.nonce[c][w], SyncTo(heap.nonce[c][w], currentVersion)}
<1>1. PICK account \in Accounts : \E ways \in SUBSET NonceTable[account] : heap' = Reading(account, ways)
  BY DEF ReadsNonces
<1>2. PICK ways \in SUBSET NonceTable[account] : heap' = Reading(account, ways)
  BY <1>1
<1> DEFINE old == heap.nonce[account]
           synced(w) == SyncTo(old[w], currentVersion)
           table == [w \in DOMAIN old |-> IF w \in ways THEN synced(w) ELSE old[w]]
<1>3. old \in Nonces(account) /\ DOMAIN old = NonceTable[account]
  BY DEF TypeInv, Heaps, NonceMaps, Nonces
<1>4. \A w \in NonceTable[account] : old[w] \in ListsOf(0 .. NonceMax)
                                    /\ synced(w) \in ListsOf(0 .. NonceMax)
  BY NonceFacts, SyncToFacts
<1>5. heap' = [heap EXCEPT !.nonce[account] = table]
  BY <1>2 DEF Reading
<1> HIDE DEF old, synced
<1>6. /\ table \in Nonces(account)
      /\ \A w \in NonceTable[account] : table[w] \in {old[w], synced(w)}
  BY <1>3, <1>4 DEF Nonces
<1> HIDE DEF table
<1>7. /\ heap' \in Heaps /\ heap'.stored = heap.stored
      /\ heap'.nonce[account] = table
      /\ \A c \in Accounts : c # account => heap'.nonce[c] = heap.nonce[c]
  BY <1>5, <1>6, NoncesType
<1> QED
  BY <1>6, <1>7 DEF old, synced

\* The text of a message that is accepted is the one its spender presents.
Presented(account, body, text) ==
    /\ text.body = body
    /\ ~OwnedByApp(account) => text.nonce = NonceOf(account, NonceSlot(account, body))

AddsMark(account, body, index) ==
    \E mark \in Marks :
        /\ accepted'.once = Append(accepted.once, mark) /\ accepted'.again = accepted.again
        /\ mark.index = index /\ mark.issuer = account /\ mark.by = Resources.id
        /\ Presented(account, body, mark.text)
        /\ messages[index] = [issuer |-> account, text |-> mark.text]

\* What is left in a list of nonces once one of them was used.
NextNonce(account, way) ==
    WithLast(heap.nonce[account][way], currentVersion, NonceOf(account, way) + 1)

LEMMA MarkAdded ==
    ASSUME Ready, NEW account \in Accounts, NEW body \in Bodies, NEW index \in DOMAIN messages,
           NEW text \in Texts, AcceptOnce(account, text, index), At("app"),
           messages[index] = [issuer |-> account, text |-> text], Presented(account, body, text)
    PROVE  AddsMark(account, body, index) /\ accepted' \in [once : Seq(Marks), again : SUBSET Verified]
<1> DEFINE mark == [index |-> index, issuer |-> account, text |-> text, by |-> Resources.id]
<1>1. accepted \in [once : Seq(Marks), again : SUBSET Verified] /\ messages \in Seq(Messages)
  BY DEF Ready, TypeInv, Messages
<1>2. index \in Nat
  BY <1>1
<1>3. Resources.id \in Nat
  <2>1. Depth >= 2
    BY ReadyFacts DEF At
  <2>2. Resources \in HandlerRecords
    BY <2>1, HandlersAlive DEF Ready
  <2> QED
    BY <2>2 DEF HandlerRecords
<1>4. /\ mark \in Marks /\ mark.index = index /\ mark.issuer = account /\ mark.text = text
      /\ mark.by = Resources.id
  BY <1>2, <1>3 DEF Marks
<1>5. accepted' = [accepted EXCEPT !.once = Append(@, mark)]
  BY DEF AcceptOnce
<1> HIDE DEF mark
<1>6. accepted.once \in Seq(Marks) /\ Append(accepted.once, mark) \in Seq(Marks)
  BY <1>1, <1>4, AppendProperties
<1>7. /\ accepted'.once = Append(accepted.once, mark) /\ accepted'.again = accepted.again
      /\ accepted' \in [once : Seq(Marks), again : SUBSET Verified]
  BY <1>1, <1>5, <1>6
<1> QED
  BY <1>4, <1>7 DEF AddsMark

\* What is known once a message was used.
LEMMA AcceptedType ==
    ASSUME Ready, NEW account \in Accounts, NEW body \in Bodies, NEW index \in DOMAIN messages,
           VerifyByApp(account, body, index) \/ VerifyWithNonce(account, body, index)
    PROVE  /\ heap' \in Heaps /\ heap'.stored = heap.stored
           /\ accepted' \in [once : Seq(Marks), again : SUBSET Verified]
           /\ AddsMark(account, body, index)
           /\ \A c \in Accounts : \A w \in NonceTable[c] :
                 heap'.nonce[c][w] = IF VerifyWithNonce(account, body, index)
                                           /\ c = account /\ w = NonceSlot(account, body)
                                     THEN NextNonce(c, w) ELSE heap.nonce[c][w]
           /\ VerifyWithNonce(account, body, index) =>
                 NonceOf(account, NonceSlot(account, body)) + 1 \in 0 .. NonceMax
<1>1. TypeInv /\ heap \in Heaps
  BY DEF Ready, TypeInv
<1>2. At("app") /\ Top.app \in Apps
  <2>1. At("app")
    BY DEF VerifyByApp, VerifyWithNonce, LoadsArgContext, Does
  <2>2. Depth >= 2 /\ Depth \in Nat
    BY <2>1, ReadyFacts, ContextFacts DEF Ready, At
  <2> QED
    BY <2>1, <2>2, ContextFacts DEF Ready, Top
<1>3. CASE VerifyByApp(account, body, index)
  <2> DEFINE text == TextFor(body, Top.app, NoNonce)
  <2>1. text \in Texts
    BY <1>2, TextType, NoNonceType
  <2>2. /\ heap' = heap /\ OwnedByApp(account) /\ AcceptOnce(account, text, index)
        /\ messages[index] = [issuer |-> account, text |-> text]
    BY <1>3 DEF VerifyByApp, VerifyAndInvalidate, Verifies
  <2>3. Presented(account, body, text)
    BY <2>2 DEF Presented, TextFor
  <2>4. ~VerifyWithNonce(account, body, index)
    BY <2>2 DEF VerifyWithNonce
  <2> HIDE DEF text
  <2>5. AddsMark(account, body, index) /\ accepted' \in [once : Seq(Marks), again : SUBSET Verified]
    BY <1>2, <2>1, <2>2, <2>3, MarkAdded
  <2> QED
    BY <1>1, <2>2, <2>4, <2>5
<1>4. CASE VerifyWithNonce(account, body, index)
  <2> DEFINE slot == NonceSlot(account, body)
             nonce == NonceOf(account, slot)
             text == TextFor(body, Top.app, nonce)
             old == heap.nonce[account]
             table == [old EXCEPT ![slot] = NextNonce(account, slot)]
  <2>1. ~OwnedByApp(account) /\ nonce < NonceMax
    BY <1>4 DEF VerifyWithNonce
  <2>2. slot \in NonceTable[account]
    BY <2>1, SlotFacts
  <2>3. nonce \in 0 .. NonceMax /\ NonceMax \in Nat
    BY <1>1, <2>2, NonceFacts, VirtualSignaturesAssumption
  <2>4. nonce + 1 \in 0 .. NonceMax
    <3> HIDE DEF nonce
    <3> QED
      BY <2>1, <2>3
  <2>5. text \in Texts
    BY <1>2, <2>3, TextType
  <2>6. /\ AcceptOnce(account, text, index)
        /\ messages[index] = [issuer |-> account, text |-> text]
        /\ heap' = [heap EXCEPT !.nonce[account][slot] = WithLast(@, currentVersion, nonce + 1)]
    BY <1>4 DEF VerifyWithNonce, VerifyOnly, Verifies
  <2>7. Presented(account, body, text)
    BY DEF Presented, TextFor
  <2>8. AddsMark(account, body, index) /\ accepted' \in [once : Seq(Marks), again : SUBSET Verified]
    <3> HIDE DEF text
    <3> QED
      BY <1>2, <2>5, <2>6, <2>7, MarkAdded
  <2>9. heap' = [heap EXCEPT !.nonce[account] = table]
    BY <2>6 DEF NextNonce
  <2>10. NextNonce(account, slot) \in ListsOf(0 .. NonceMax)
    <3>1. heap.nonce[account][slot] \in ListsOf(0 .. NonceMax) /\ currentVersion \in Nat
      BY <1>1, <2>2, NonceFacts
    <3> HIDE DEF nonce
    <3> QED
      BY <2>4, <3>1, WithLastFacts DEF NextNonce, nonce
  <2>11. old \in [NonceTable[account] -> ListsOf(0 .. NonceMax)]
    BY <1>1 DEF Heaps, NonceMaps, Nonces
  <2> HIDE DEF old, slot
  <2>12. /\ table \in Nonces(account) /\ table[slot] = NextNonce(account, slot)
         /\ \A w \in NonceTable[account] : w # slot => table[w] = old[w]
    BY <2>2, <2>10, <2>11 DEF Nonces
  <2> HIDE DEF table
  <2>13. /\ heap' \in Heaps /\ heap'.stored = heap.stored
         /\ heap'.nonce[account] = table
         /\ \A c \in Accounts : c # account => heap'.nonce[c] = heap.nonce[c]
    BY <1>1, <2>9, <2>12, NoncesType
  <2>14. ASSUME NEW c \in Accounts, NEW w \in NonceTable[c]
         PROVE  heap'.nonce[c][w] = IF c = account /\ w = slot THEN NextNonce(c, w) ELSE heap.nonce[c][w]
    BY <2>12, <2>13, <2>14 DEF old
  <2> QED
    BY <1>4, <2>4, <2>8, <2>13, <2>14 DEF slot, nonce
<1> QED
  BY <1>3, <1>4

\* The list of what applications store.
LEMMA StoredFacts ==
    ASSUME Ready
    PROVE  /\ heap.stored \in ListsOf(SUBSET Nat) /\ currentVersion \in Nat /\ View \in SUBSET Nat
           /\ Load => heap' = [heap EXCEPT !.stored = SyncTo(heap.stored, currentVersion)]
           /\ Store => /\ Resources \in HandlerRecords /\ Resources.id \in Nat /\ Depth >= 2
                       /\ heap' = [heap EXCEPT !.stored =
                                     WithLast(heap.stored, currentVersion, View \cup {Resources.id})]
<1>1. heap.stored \in ListsOf(SUBSET Nat) /\ currentVersion \in Nat
  BY DEF Ready, TypeInv, Heaps
<1>2. View \in SUBSET Nat
  <2> DEFINE S == SUBSET Nat
  <2>1. heap.stored \in ListsOf(S) /\ {} \in S
    BY <1>1
  <2> HIDE DEF S
  <2>2. View \in S
    BY <1>1, <2>1, SeenType DEF View
  <2> QED
    BY <2>2 DEF S
<1>3. Load => heap' = [heap EXCEPT !.stored = SyncTo(heap.stored, currentVersion)]
  BY DEF Load
<1>4. ASSUME Store
      PROVE  /\ Resources \in HandlerRecords /\ Resources.id \in Nat /\ Depth >= 2
             /\ heap' = [heap EXCEPT !.stored =
                            WithLast(heap.stored, currentVersion, View \cup {Resources.id})]
  <2>1. Depth >= 2
    BY <1>4, ReadyFacts DEF Store, Does, At
  <2>2. Resources \in HandlerRecords
    BY <2>1, HandlersAlive DEF Ready
  <2>3. Resources.id \in Nat
    BY <2>2 DEF HandlerRecords
  <2> QED
    BY <1>4, <2>1, <2>2, <2>3 DEF Store
<1> QED
  BY <1>1, <1>2, <1>3, <1>4

LEMMA StoredType ==
    ASSUME Ready, Load \/ Store
    PROVE  heap' \in Heaps /\ heap'.nonce = heap.nonce
<1> DEFINE S == SUBSET Nat
<1>1. heap \in [stored : ListsOf(S), nonce : NonceMaps]
  BY DEF Ready, TypeInv, Heaps
<1>2. ASSUME NEW list \in ListsOf(S), heap' = [heap EXCEPT !.stored = list]
      PROVE  heap' \in Heaps /\ heap'.nonce = heap.nonce
  BY <1>1, <1>2 DEF Heaps
<1>3. heap.stored \in ListsOf(S) /\ currentVersion \in Nat
  BY StoredFacts
<1>4. Store => View \cup {Resources.id} \in S
  BY StoredFacts
<1> HIDE DEF S
<1>5. CASE Load
  BY <1>2, <1>3, <1>5, StoredFacts, SyncToFacts
<1>6. CASE Store
  BY <1>2, <1>3, <1>4, <1>6, StoredFacts, WithLastFacts
<1> QED
  BY <1>5, <1>6

LEMMA NextType ==
    ASSUME Ready, [Next]_vars
    PROVE  TypeInv'
<1>1. HeapMoves /\ request' = request /\ TypeInv
  BY NextHeapMoves, RequestKept DEF Ready
<1>2. messages' \in Seq(Messages)
  BY <1>1, MessagesType
<1>3. request' \in Requests
  BY <1>1 DEF TypeInv
<1> DEFINE Histories == [once : Seq(Marks), again : SUBSET Verified]
           Rest == /\ resources' \in Seq(HandlerRecords) /\ lastGeneratedID' \in Nat
                   /\ granted' \in Nat /\ currentVersion' \in Nat /\ heap' \in Heaps
                   /\ accepted' \in Histories
<1>4. /\ resources \in Seq(HandlerRecords) /\ Len(resources) \in Nat /\ lastGeneratedID \in Nat
      /\ granted \in Nat /\ currentVersion \in Nat /\ heap \in Heaps /\ accepted \in Histories
  BY <1>1 DEF TypeInv
<1> SUFFICES Rest
  BY <1>2, <1>3 DEF TypeInv, Messages
<1>5. ASSUME HandlersKept, heap' \in Heaps, accepted' \in Histories PROVE Rest
  BY <1>4, <1>5 DEF HandlersKept
<1>6. CASE HandlersKept /\ UNCHANGED <<heap, messages, accepted>>
  BY <1>4, <1>5, <1>6
<1>7. CASE HandlersKept /\ (Load \/ Store)
  <2>1. heap' \in Heaps
    BY <1>7, StoredType
  <2>2. accepted' = accepted
    BY <1>7 DEF Load, Store, sigVars
  <2> QED
    BY <1>4, <1>5, <1>7, <2>1, <2>2
<1>8. CASE HandlersKept /\ ReadsNonces /\ (AcceptsAgain \/ UNCHANGED accepted)
  <2>1. accepted' \in Histories
    <3>1. ASSUME NEW m \in Verified, accepted' = [accepted EXCEPT !.again = @ \cup {m}]
          PROVE  accepted' \in Histories
      BY <1>4, <3>1
    <3> QED
      BY <1>4, <1>8, <3>1 DEF AcceptsAgain
  <2> QED
    BY <1>1, <1>5, <1>8, <2>1, ReadingType
<1>9. CASE HandlersKept /\ AcceptsOnce
  BY <1>5, <1>9, AcceptedType DEF AcceptsOnce
<1>10. CASE Spends
  <2>1. PICK gas \in 0 .. Resources.remaining :
          \/ resources' = Forwarding(gas) /\ UNCHANGED <<currentVersion, granted>>
          \/ /\ resources' = Append(Forwarding(gas), Handler(lastGeneratedID + 1, gas, ExternalGas(gas)))
             /\ currentVersion' = currentVersion + 1
             /\ granted' = granted + gas
    BY <1>10 DEF Spends
  <2>2. gas \in Nat /\ lastGeneratedID + 1 \in Nat /\ Len(resources) >= 1
    BY <1>4, <1>10 DEF Spends
  <2>3. Forwarding(gas) \in Seq(HandlerRecords)
    BY <1>1, <2>2, ForwardingFacts
  <2>4. Handler(lastGeneratedID + 1, gas, ExternalGas(gas)) \in HandlerRecords
    BY <1>1, <2>2, HandlerType, ExternalGasBound
  <2>5. Append(Forwarding(gas), Handler(lastGeneratedID + 1, gas, ExternalGas(gas)))
           \in Seq(HandlerRecords)
    BY <2>3, <2>4, AppendProperties
  <2>6. lastGeneratedID' = lastGeneratedID + 1 /\ heap' = heap /\ accepted' = accepted
    BY <1>10 DEF Spends
  <2> DEFINE fs == Forwarding(gas)
             all == Append(fs, Handler(lastGeneratedID + 1, gas, ExternalGas(gas)))
  <2> HIDE DEF fs, all
  <2>7. resources' \in {fs, all} /\ currentVersion' \in {currentVersion, currentVersion + 1}
        /\ granted' \in {granted, granted + gas}
    BY <2>1 DEF fs, all
  <2>8. resources' \in Seq(HandlerRecords)
    BY <2>3, <2>5, <2>7 DEF fs, all
  <2>9. lastGeneratedID' \in Nat /\ granted' \in Nat /\ currentVersion' \in Nat
    BY <1>4, <2>2, <2>6, <2>7
  <2> QED
    BY <1>4, <2>6, <2>8, <2>9
<1>11. CASE CallsOptimistically
  <2>1. Append(resources, Handler(0, 0, 0)) \in Seq(HandlerRecords)
    BY <1>1, <1>4, HandlerType, AppendProperties
  <2>2. Len(resources) >= 1 => Pop(resources) \in Seq(HandlerRecords)
    BY <1>1, HandlersPopped
  <2> DEFINE all == Append(resources, Handler(0, 0, 0))
             popped == Pop(resources)
  <2> HIDE DEF all, popped
  <2>3. /\ lastGeneratedID' = lastGeneratedID /\ granted' = granted /\ heap' = heap
        /\ accepted' = accepted
        /\ currentVersion' \in {currentVersion, currentVersion + 1}
        /\ resources' = all \/ (Len(resources) >= 1 /\ resources' = popped)
    BY <1>11 DEF CallsOptimistically, all, popped
  <2>4. resources' \in Seq(HandlerRecords)
    BY <2>1, <2>2, <2>3 DEF all, popped
  <2> QED
    BY <1>4, <2>3, <2>4
<1>12. CASE EndsCall
  <2>1. Len(resources) >= 1
    BY <1>4, <1>12 DEF EndsCall
  <2>2. Pop(resources) \in Seq(HandlerRecords) /\ Resources \in HandlerRecords
    BY <1>1, <1>4, <2>1, HandlersPopped, ElementOfSeq DEF Resources
  <2>3. Resources.version \in Nat
    BY <2>2 DEF HandlerRecords
  <2> QED
    BY <1>4, <1>12, <2>2, <2>3 DEF EndsCall, Settle
<1> QED
  BY <1>1, <1>6, <1>7, <1>8, <1>9, <1>10, <1>11, <1>12 DEF HeapMoves

-----------------------------------------------------------------------------
(* Gas *)

LEMMA SpentBound ==
    ASSUME NEW all \in Nat, NEW before \in Nat, NEW gas \in Nat, NEW external \in Nat,
           NEW remaining \in Nat, NEW spent \in Nat,
           all - before - gas <= 3 * (external - remaining)
    PROVE  all - before - gas + 3 * spent <= 3 * (external - (remaining - spent))
OBVIOUS

LEMMA WeakerBound ==
    ASSUME NEW all \in Nat, NEW before \in Nat, NEW gas \in Nat, NEW external \in Nat,
           NEW remaining \in Int, NEW spent \in Nat,
           all - before - gas + 3 * spent <= 3 * (external - remaining)
    PROVE  all - before - gas <= 3 * (external - remaining)
OBVIOUS

LEMMA GasStep ==
    ASSUME Ready, [Next]_vars, GasInv
    PROVE  GasInv'
<1> SUFFICES ASSUME request.controlled PROVE GasInv'
  BY RequestKept DEF GasInv
<1>1. HeapMoves /\ request' = request /\ TypeInv
  BY NextHeapMoves, RequestKept DEF Ready
<1> DEFINE n == Len(resources)
<1>2. /\ resources \in Seq(HandlerRecords) /\ n \in Nat /\ n >= 1
      /\ granted \in Nat /\ lastGeneratedID \in Nat
      /\ Resources = resources[n]
  BY <1>1 DEF TypeInv, GasInv, Resources
<1>3. \A i \in 1 .. n : /\ resources[i] \in HandlerRecords
                        /\ resources[i].gas \in Nat /\ resources[i].remaining \in Nat
                        /\ resources[i].external \in Nat /\ resources[i].before \in Nat
  <2>1. \A i \in 1 .. n : resources[i] \in HandlerRecords
    BY <1>2, ElementOfSeq
  <2> QED
    BY <2>1 DEF HandlerRecords
<1>4. CASE UNCHANGED <<resources, granted>>
  BY <1>1, <1>4 DEF GasInv, Resources
<1>5. CASE Spends
  <2>1. PICK gas \in 0 .. Resources.remaining :
          \/ resources' = Forwarding(gas) /\ UNCHANGED granted
          \/ /\ resources' = Append(Forwarding(gas), Handler(lastGeneratedID + 1, gas, ExternalGas(gas)))
             /\ granted' = granted + gas
    BY <1>5 DEF Spends
  <2> DEFINE rs == Forwarding(gas)
  <2>2. gas \in Nat /\ gas <= resources[n].remaining
    BY <1>2, <1>3, <2>1
  <2>3. /\ rs \in Seq(HandlerRecords) /\ Len(rs) = n
        /\ \A i \in 1 .. n - 1 : rs[i] = resources[i]
        /\ rs[n] = [resources[n] EXCEPT !.remaining = @ - gas]
    BY <1>1, <1>2, ForwardingFacts
  <2> HIDE DEF rs
  <2>4. /\ rs[n].gas = resources[n].gas /\ rs[n].before = resources[n].before
        /\ rs[n].external = resources[n].external
        /\ rs[n].remaining = resources[n].remaining - gas
    BY <1>2, <1>3, <2>3 DEF HandlerRecords
  <2>5. /\ rs[1].gas = 0 /\ rs[1].before = 0 /\ rs[1].external = request.maxClocks
    <3>1. resources[1].gas = 0 /\ resources[1].before = 0
          /\ resources[1].external = request.maxClocks
      BY DEF GasInv
    <3>2. CASE n = 1
      BY <2>4, <3>1, <3>2
    <3>3. CASE n # 1
      <4>1. 1 \in 1 .. n - 1
        <5>1. n \in Nat /\ n >= 1
          BY <1>2
        <5> HIDE DEF n
        <5> QED
          BY <5>1, <3>3
      <4>2. rs[1] = resources[1]
        BY <2>3, <4>1
      <4> QED
        BY <3>1, <4>2
    <3> QED
      BY <3>2, <3>3
  <2>6. \A i \in 1 .. n : /\ rs[i].remaining <= rs[i].external
                          /\ i > 1 => 3 * rs[i].external <= 2 * rs[i].gas
    <3>1. ASSUME NEW i \in 1 .. n
          PROVE  rs[i].remaining <= rs[i].external /\ (i > 1 => 3 * rs[i].external <= 2 * rs[i].gas)
      <4>1. resources[i].remaining <= resources[i].external
            /\ (i > 1 => 3 * resources[i].external <= 2 * resources[i].gas)
        BY <3>1 DEF GasInv
      <4>2. CASE i = n
        BY <1>3, <2>2, <2>4, <4>1, <4>2
      <4>3. CASE i # n
        BY <1>2, <2>3, <4>1, <4>3
      <4> QED
        BY <4>2, <4>3
    <3> QED
      BY <3>1
  <2>7. ASSUME NEW i \in 1 .. n - 1
        PROVE  rs[i + 1].before - rs[i].before - rs[i].gas + 3 * rs[i + 1].gas
                 <= 3 * (rs[i].external - rs[i].remaining)
    <3>1. rs[i] = resources[i]
      BY <2>3, <2>7
    <3>2. rs[i + 1].before = resources[i + 1].before /\ rs[i + 1].gas = resources[i + 1].gas
      <4>1. CASE i + 1 = n
        BY <2>4, <4>1
      <4>2. CASE i + 1 # n
        <5>1. i + 1 \in 1 .. n - 1
          BY <1>2, <2>7, <4>2
        <5>2. rs[i + 1] = resources[i + 1]
          BY <2>3, <5>1
        <5> QED
          BY <5>2
      <4> QED
        BY <4>1, <4>2
    <3>3. resources[i + 1].before - resources[i].before - resources[i].gas
             + 3 * resources[i + 1].gas <= 3 * (resources[i].external - resources[i].remaining)
      BY <2>7 DEF GasInv
    <3> HIDE DEF n
    <3> QED
      BY <3>1, <3>2, <3>3
  <2>8. granted - rs[n].before - rs[n].gas + 3 * gas <= 3 * (rs[n].external - rs[n].remaining)
    <3>1. granted - resources[n].before - resources[n].gas
             <= 3 * (resources[n].external - resources[n].remaining)
      BY <1>2 DEF GasInv
    <3>2. /\ resources[n].gas \in Nat /\ resources[n].remaining \in Nat
          /\ resources[n].external \in Nat /\ resources[n].before \in Nat
      BY <1>2, <1>3
    <3> HIDE DEF n
    <3>3. granted - resources[n].before - resources[n].gas + 3 * gas
             <= 3 * (resources[n].external - (resources[n].remaining - gas))
      BY <1>2, <2>2, <3>1, <3>2, SpentBound
    <3> QED
      BY <2>4, <3>3
  <2>9. CASE resources' = rs /\ UNCHANGED granted
    <3>1. granted - rs[n].before - rs[n].gas <= 3 * (rs[n].external - rs[n].remaining)
      <4>1. /\ rs[n].gas \in Nat /\ rs[n].external \in Nat /\ rs[n].before \in Nat
            /\ rs[n].remaining \in Int
        BY <1>2, <1>3, <2>2, <2>4
      <4> HIDE DEF n
      <4> QED
        BY <1>2, <2>2, <2>8, <4>1, WeakerBound
    <3> QED
      BY <1>1, <1>2, <2>3, <2>5, <2>6, <2>7, <2>9, <3>1 DEF GasInv, Resources
  <2>10. CASE /\ resources' = Append(rs, Handler(lastGeneratedID + 1, gas, ExternalGas(gas)))
              /\ granted' = granted + gas
    <3> DEFINE h == Handler(lastGeneratedID + 1, gas, ExternalGas(gas))
    <3>1. h \in HandlerRecords
      BY <1>1, <1>2, <2>2, HandlerType, ExternalGasBound
    <3>2. /\ h.gas = gas /\ h.before = granted /\ h.external = ExternalGas(gas)
          /\ h.remaining = ExternalGas(gas)
      BY DEF Handler
    <3> HIDE DEF h
    <3>3. Len(resources') = n + 1 /\ resources'[n + 1] = h
          /\ \A i \in 1 .. n : resources'[i] = rs[i]
      BY <2>3, <2>10, <3>1, AppendProperties DEF h
    <3>4. ExternalGas(gas) \in Nat /\ 3 * ExternalGas(gas) <= 2 * gas
      BY <2>2, ExternalGasBound
    <3>5. ASSUME NEW i \in 1 .. n + 1
          PROVE  /\ resources'[i].remaining <= resources'[i].external
                 /\ i > 1 => 3 * resources'[i].external <= 2 * resources'[i].gas
      <4>1. CASE i = n + 1
        BY <3>2, <3>3, <3>4, <4>1
      <4>2. CASE i # n + 1
        BY <1>2, <2>6, <3>3, <4>2
      <4> QED
        BY <4>1, <4>2
    <3>6. ASSUME NEW i \in 1 .. n
          PROVE  resources'[i + 1].before - resources'[i].before - resources'[i].gas
                   + 3 * resources'[i + 1].gas
                   <= 3 * (resources'[i].external - resources'[i].remaining)
      <4>1. CASE i = n
        BY <1>2, <2>8, <3>2, <3>3, <4>1
      <4>2. CASE i # n
        BY <1>2, <2>7, <3>3, <4>2
      <4> QED
        BY <4>1, <4>2
    <3>7. granted' - h.before - h.gas <= 3 * (h.external - h.remaining)
      BY <1>2, <2>2, <2>10, <3>2, <3>4
    <3>8. Resources' = h /\ resources'[1] = rs[1]
      BY <1>2, <3>3 DEF Resources
    <3> QED
      BY <1>1, <1>2, <2>5, <3>3, <3>5, <3>6, <3>7, <3>8 DEF GasInv
  <2> QED
    BY <2>1, <2>9, <2>10 DEF rs
<1>6. CASE EndsCall
  <2>1. n >= 2 /\ granted' = granted /\ resources' = Pop(resources)
    BY <1>6 DEF EndsCall
  <2>2. Len(resources') = n - 1 /\ \A i \in 1 .. n - 1 : resources'[i] = resources[i]
    BY <1>1, <1>2, <2>1, HandlersPopped
  <2> DEFINE h == resources[n]
             g == resources[n - 1]
  <2>3. granted - h.before - h.gas <= 3 * (h.external - h.remaining)
    BY <1>2 DEF GasInv
  <2>4. h.before - g.before - g.gas + 3 * h.gas <= 3 * (g.external - g.remaining)
    <3>1. n - 1 \in 1 .. n - 1 /\ n - 1 + 1 = n
      BY <1>2, <2>1
    <3> QED
      BY <3>1 DEF GasInv
  <2>5. 3 * h.external <= 2 * h.gas
    BY <1>2, <2>1 DEF GasInv
  <2>6. /\ h.gas \in Nat /\ h.remaining \in Nat /\ h.external \in Nat /\ h.before \in Nat
        /\ g.gas \in Nat /\ g.remaining \in Nat /\ g.external \in Nat /\ g.before \in Nat
    BY <1>2, <1>3, <2>1
  <2> HIDE DEF h, g
  \* What a call has started, up to 2/3 of its gas three times over, is paid for by its caller.
  <2>7. granted - g.before - g.gas <= 3 * (g.external - g.remaining)
    <3> DEFINE under == h.before
               share == h.gas
               above == h.external
               rest == h.remaining
               before == g.before
               gas == g.gas
               external == g.external
               remaining == g.remaining
    <3>1. /\ granted \in Nat /\ under \in Nat /\ share \in Nat /\ above \in Nat /\ rest \in Nat
          /\ before \in Nat /\ gas \in Nat /\ external \in Nat /\ remaining \in Nat
      BY <1>2, <2>6
    <3>2. /\ granted - under - share <= 3 * (above - rest)
          /\ under - before - gas + 3 * share <= 3 * (external - remaining)
          /\ 3 * above <= 2 * share
      BY <2>3, <2>4, <2>5
    <3> HIDE DEF under, share, above, rest, before, gas, external, remaining
    <3>3. granted - before - gas <= 3 * (external - remaining)
      BY <3>1, <3>2
    <3> QED
      BY <3>3 DEF before, gas, external, remaining
  <2>8. Resources' = g /\ resources'[1] = resources[1]
    BY <1>2, <2>1, <2>2 DEF Resources, g
  <2>9. \A i \in 1 .. n - 1 : /\ resources[i].remaining <= resources[i].external
                              /\ i > 1 => 3 * resources[i].external <= 2 * resources[i].gas
    BY <1>2 DEF GasInv
  <2>10. \A i \in 1 .. n - 1 - 1 :
            resources'[i + 1].before - resources'[i].before - resources'[i].gas
                   + 3 * resources'[i + 1].gas
                   <= 3 * (resources'[i].external - resources'[i].remaining)
    <3>1. \A i \in 1 .. n - 1 - 1 : i \in 1 .. n - 1 /\ i + 1 \in 1 .. n - 1
      BY <1>2
    <3> QED
      BY <2>2, <3>1 DEF GasInv
  <2>11. resources[1].gas = 0 /\ resources[1].before = 0 /\ resources[1].external = request.maxClocks
    BY DEF GasInv
  <2> QED
    BY <1>1, <1>2, <2>1, <2>2, <2>7, <2>8, <2>9, <2>10, <2>11 DEF GasInv
<1> QED
  BY <1>1, <1>4, <1>5, <1>6 DEF HeapMoves, HandlersKept, CallsOptimistically

-----------------------------------------------------------------------------
(* What calls leave in the heap *)

LEMMA SpendsFacts ==
    ASSUME Ready, Spends
    PROVE  LET n == Len(resources)
           IN  /\ n \in Nat /\ n >= 1 /\ resources' \in Seq(HandlerRecords)
               /\ \A i \in 1 .. n : /\ resources'[i].id = resources[i].id
                                   /\ resources'[i].version = resources[i].version
               /\ \/ Len(resources') = n /\ currentVersion' = currentVersion
                  \/ /\ Len(resources') = n + 1 /\ currentVersion' = currentVersion + 1
                     /\ resources'[n + 1].id = lastGeneratedID + 1
                     /\ resources'[n + 1].version = currentVersion
<1> DEFINE n == Len(resources)
           last == lastGeneratedID
<1>1. TypeInv
  BY DEF Ready
<1>2. /\ resources \in Seq(HandlerRecords) /\ n \in Nat /\ n >= 1 /\ last \in Nat
      /\ Resources = resources[n]
  BY <1>1 DEF TypeInv, Resources, Spends
<1>3. PICK gas \in 0 .. Resources.remaining :
          \/ resources' = Forwarding(gas) /\ UNCHANGED <<currentVersion, granted>>
          \/ /\ resources' = Append(Forwarding(gas), Handler(last + 1, gas, ExternalGas(gas)))
             /\ currentVersion' = currentVersion + 1
             /\ granted' = granted + gas
  BY DEF Spends
<1> DEFINE rs == Forwarding(gas)
           h == Handler(last + 1, gas, ExternalGas(gas))
<1>4. /\ rs \in Seq(HandlerRecords) /\ Len(rs) = n
      /\ \A i \in 1 .. n - 1 : rs[i] = resources[i]
      /\ rs[n] = [resources[n] EXCEPT !.remaining = @ - gas]
  BY <1>1, <1>2, ForwardingFacts
<1>5. resources[n] \in HandlerRecords
  BY <1>2, ElementOfSeq
<1>6. h \in HandlerRecords /\ h.id = last + 1 /\ h.version = currentVersion
  <2>1. Resources.remaining \in Nat
    BY <1>2, <1>5 DEF HandlerRecords
  <2>2. gas \in Nat
    BY <1>3, <2>1
  <2>3. last + 1 \in Nat /\ ExternalGas(gas) \in Nat
    <3>1. ExternalGas(gas) \in Nat
      BY <2>2, ExternalGasBound
    <3> HIDE DEF last
    <3> QED
      BY <1>2, <3>1
  <2>4. h \in HandlerRecords
    BY <1>1, <2>2, <2>3, HandlerType
  <2> QED
    BY <2>4 DEF Handler
<1>7. \/ resources' = rs /\ currentVersion' = currentVersion
      \/ resources' = Append(rs, h) /\ currentVersion' = currentVersion + 1
  BY <1>3
<1> HIDE DEF rs, h
<1>8. rs[n].id = resources[n].id /\ rs[n].version = resources[n].version
  BY <1>4, <1>5 DEF HandlerRecords
<1> HIDE DEF n, last
<1>9. ASSUME NEW i \in 1 .. n
      PROVE  rs[i].id = resources[i].id /\ rs[i].version = resources[i].version
  <2>1. CASE i = n
    BY <1>8, <2>1
  <2>2. CASE i # n
    <3>1. i \in 1 .. n - 1
      BY <1>2, <1>9, <2>2
    <3> QED
      BY <1>4, <3>1
  <2> QED
    BY <2>1, <2>2
<1>10. CASE resources' = rs /\ currentVersion' = currentVersion
  BY <1>2, <1>4, <1>9, <1>10 DEF n
<1>11. CASE resources' = Append(rs, h) /\ currentVersion' = currentVersion + 1
  <2>1. /\ Len(resources') = n + 1 /\ resources'[n + 1] = h /\ resources' \in Seq(HandlerRecords)
        /\ \A i \in 1 .. n : resources'[i] = rs[i]
    BY <1>4, <1>6, <1>11, AppendProperties
  <2> QED
    BY <1>2, <1>6, <1>9, <1>11, <2>1 DEF n, last
<1> QED
  BY <1>7, <1>10, <1>11

LEMMA EndsFacts ==
    ASSUME Ready, EndsCall
    PROVE  LET n == Len(resources)
           IN  /\ n \in Nat /\ n >= 2 /\ Resources = resources[n]
               /\ Len(resources') = n - 1 /\ \A i \in 1 .. n - 1 : resources'[i] = resources[i]
<1>1. TypeInv /\ Len(resources) \in Nat /\ Len(resources) >= 2 /\ resources' = Pop(resources)
  BY DEF Ready, TypeInv, EndsCall
<1>2. Len(resources) >= 1
  BY <1>1
<1> QED
  BY <1>1, <1>2, HandlersPopped DEF Resources

\* The numbers that a version is seen by are numbers.
LEMMA HandlerFacts ==
    ASSUME Ready
    PROVE  /\ Len(resources) \in Nat /\ lastGeneratedID \in Nat /\ currentVersion \in Nat
           /\ \A i \in 1 .. Len(resources) : resources[i].id \in Nat /\ resources[i].version \in Nat
<1>1. /\ resources \in Seq(HandlerRecords) /\ Len(resources) \in Nat
      /\ lastGeneratedID \in Nat /\ currentVersion \in Nat
  BY DEF Ready, TypeInv
<1>2. ASSUME NEW i \in 1 .. Len(resources)
      PROVE  resources[i].id \in Nat /\ resources[i].version \in Nat
  <2>1. resources[i] \in HandlerRecords
    BY <1>1, <1>2, ElementOfSeq
  <2> QED
    BY <2>1 DEF HandlerRecords
<1> QED
  BY <1>1, <1>2

LEMMA NumberedStep ==
    ASSUME Ready, HeapMoves, request.controlled, Numbered
    PROVE  Numbered'
<1>1. /\ Len(resources) \in Nat /\ lastGeneratedID \in Nat /\ currentVersion \in Nat
      /\ \A i \in 1 .. Len(resources) : resources[i].id \in Nat /\ resources[i].version \in Nat
  BY HandlerFacts
<1>2. CASE HandlersKept
  BY <1>2 DEF Numbered, HandlersKept
<1>3. CASE Spends
  <2> DEFINE n == Len(resources)
             m == Len(resources')
             last == lastGeneratedID
  <2>1. /\ \A i \in 1 .. n : /\ resources'[i].id = resources[i].id
                           /\ resources'[i].version = resources[i].version
        /\ \/ m = n /\ currentVersion' = currentVersion
           \/ /\ m = n + 1 /\ currentVersion' = currentVersion + 1
              /\ resources'[n + 1].id = last + 1
              /\ resources'[n + 1].version = currentVersion
    BY <1>3, SpendsFacts
  <2>2. failed' = failed /\ lastGeneratedID' = last + 1
    BY <1>3 DEF Spends
  <2>3. /\ failed \subseteq 1 .. last
        /\ \A i \in 1 .. n : resources[i].id \in 1 .. last /\ resources[i].id \notin failed
        /\ \A i, j \in 1 .. n : i < j => resources[i].id < resources[j].id
        /\ \A i \in 2 .. n : resources[i].version < currentVersion
        /\ \A i, j \in 2 .. n : i < j => resources[i].version < resources[j].version
    BY DEF Numbered
  <2> HIDE DEF n, m, last
  <2>4. n \in Nat /\ last \in Nat /\ m \in Nat /\ m <= n + 1 /\ n <= m
    BY <1>1, <2>1 DEF n, last
  <2>5. ASSUME NEW i \in 1 .. m, i \notin 1 .. n
        PROVE  /\ i = n + 1 /\ resources'[i].id = last + 1 /\ resources'[i].version = currentVersion
               /\ currentVersion' = currentVersion + 1
    BY <2>1, <2>4, <2>5
  <2>6. ASSUME NEW i \in 1 .. m
        PROVE  resources'[i].id \in 1 .. last + 1 /\ resources'[i].id \notin failed
    <3>1. CASE i \in 1 .. n
      <4>1. resources'[i].id = resources[i].id /\ resources[i].id \in 1 .. last
            /\ resources[i].id \notin failed
        BY <2>1, <2>3, <3>1
      <4> QED
        BY <2>4, <4>1
    <3>2. CASE i \notin 1 .. n
      BY <2>3, <2>4, <2>5, <3>2
    <3> QED
      BY <3>1, <3>2
  <2>7. ASSUME NEW i \in 1 .. m, NEW j \in 1 .. m, i < j
        PROVE  resources'[i].id < resources'[j].id
    <3>1. i \in 1 .. n /\ resources'[i].id = resources[i].id /\ resources[i].id \in 1 .. last
      BY <2>1, <2>3, <2>4, <2>7
    <3>2. CASE j \in 1 .. n
      BY <2>1, <2>3, <2>7, <3>1, <3>2
    <3>3. CASE j \notin 1 .. n
      <4>1. resources'[j].id = last + 1
        BY <2>5, <3>3
      <4> QED
        BY <2>4, <3>1, <4>1
    <3> QED
      BY <3>2, <3>3
  <2>8. ASSUME NEW i \in 2 .. m PROVE resources'[i].version < currentVersion'
    <3>1. CASE i \in 1 .. n
      <4>1. /\ resources'[i].version = resources[i].version /\ resources[i].version \in Nat
            /\ resources[i].version < currentVersion /\ currentVersion \in Nat
        BY <1>1, <2>1, <2>3, <2>8, <3>1 DEF n
      <4>2. currentVersion' \in {currentVersion, currentVersion + 1}
        BY <2>1
      <4> QED
        BY <4>1, <4>2
    <3>2. CASE i \notin 1 .. n
      BY <1>1, <2>5, <2>8, <3>2
    <3> QED
      BY <3>1, <3>2
  <2>9. ASSUME NEW i \in 2 .. m, NEW j \in 2 .. m, i < j
        PROVE  resources'[i].version < resources'[j].version
    <3>1. i \in 2 .. n /\ resources'[i].version = resources[i].version
      BY <2>1, <2>4, <2>9
    <3>2. CASE j \in 1 .. n
      <4>1. j \in 2 .. n /\ resources'[j].version = resources[j].version
        BY <2>1, <2>9, <3>2
      <4> QED
        BY <2>3, <2>9, <3>1, <4>1
    <3>3. CASE j \notin 1 .. n
      <4>1. resources'[j].version = currentVersion
        BY <2>5, <2>9, <3>3
      <4> QED
        BY <2>3, <3>1, <4>1
    <3> QED
      BY <3>2, <3>3
  <2>10. failed \subseteq 1 .. last + 1
    BY <2>3, <2>4
  <2> QED
    BY <2>2, <2>6, <2>7, <2>8, <2>9, <2>10 DEF Numbered, m
<1>4. CASE EndsCall
  <2> DEFINE n == Len(resources)
             last == lastGeneratedID
  <2>1. /\ n \in Nat /\ n >= 2 /\ Resources = resources[n]
        /\ Len(resources') = n - 1 /\ \A i \in 1 .. n - 1 : resources'[i] = resources[i]
    BY <1>4, EndsFacts
  <2>2. Settle /\ lastGeneratedID' = last
    BY <1>4 DEF EndsCall
  <2>3. /\ failed \subseteq 1 .. last
        /\ \A i \in 1 .. n : resources[i].id \in 1 .. last /\ resources[i].id \notin failed
        /\ \A i, j \in 1 .. n : i < j => resources[i].id < resources[j].id
        /\ \A i \in 2 .. n : resources[i].version < currentVersion
        /\ \A i, j \in 2 .. n : i < j => resources[i].version < resources[j].version
    BY DEF Numbered
  <2> HIDE DEF n
  <2>4. /\ n \in 2 .. n /\ n \in 1 .. n
        /\ \A i \in 1 .. n - 1 : i \in 1 .. n /\ i < n
        /\ \A i \in 2 .. n - 1 : i \in 2 .. n /\ i < n /\ i \in 1 .. n - 1
    BY <2>1
  <2>5. failed' \subseteq 1 .. last
    <3>1. resources[n].id .. last \subseteq 1 .. last
      BY <1>1, <2>3, <2>4
    <3> QED
      BY <2>1, <2>2, <2>3, <3>1 DEF Settle, TakenBack
  <2>6. ASSUME NEW i \in 1 .. n - 1
        PROVE  resources'[i].id \in 1 .. last /\ resources'[i].id \notin failed'
    <3>1. /\ resources'[i] = resources[i] /\ resources[i].id \in 1 .. last
          /\ resources[i].id \notin failed /\ resources[i].id < resources[n].id
          /\ resources[n].id \in 1 .. last
      BY <2>1, <2>3, <2>4
    <3>2. resources[i].id \notin resources[n].id .. last
      BY <1>1, <3>1
    <3> QED
      BY <2>1, <2>2, <3>1, <3>2 DEF Settle, TakenBack
  <2>7. ASSUME NEW i \in 2 .. n - 1 PROVE resources'[i].version < currentVersion'
    <3>1. /\ resources'[i] = resources[i] /\ resources[i].version < currentVersion
          /\ resources[i].version < resources[n].version
      BY <2>1, <2>3, <2>4
    <3> QED
      BY <2>1, <2>2, <3>1 DEF Settle
  <2>8. \A i, j \in 1 .. n - 1 : i < j => resources'[i].id < resources'[j].id
    BY <2>1, <2>3, <2>4
  <2>9. \A i, j \in 2 .. n - 1 : i < j => resources'[i].version < resources'[j].version
    BY <2>1, <2>3, <2>4
  <2> QED
    BY <2>1, <2>2, <2>5, <2>6, <2>7, <2>8, <2>9 DEF Numbered
<1> QED
  BY <1>2, <1>3, <1>4 DEF HeapMoves, CallsOptimistically

LEMMA LoadsAndStores == Load \/ Store => HandlersKept
BY DEF Load, Store, handlerVars, HandlersKept

\* What a step does to the list of what was stored.
LEMMA StoredSame ==
    ASSUME Ready, HeapMoves, ~Load, ~Store
    PROVE  heap'.stored = heap.stored
<1>1. TypeInv
  BY DEF Ready
<1>2. CASE AcceptsOnce
  BY <1>2, AcceptedType DEF AcceptsOnce
<1>3. CASE ReadsNonces
  BY <1>1, <1>3, ReadingType
<1> QED
  BY <1>2, <1>3 DEF HeapMoves, Spends, CallsOptimistically, EndsCall

LEMMA StoredKept ==
    ASSUME Ready, request.controlled, Numbered, Marked, HandlersKept, Load \/ Store
    PROVE  /\ Marked'
           /\ Seen(heap'.stored, currentVersion, {}) \cap failed \subseteq View \cap failed
<1> DEFINE S == SUBSET Nat
           list == heap.stored
           v == currentVersion
           last == lastGeneratedID
           content == View \cup {Resources.id}
           after == heap'.stored
<1>1. list \in ListsOf(S) /\ v \in Nat /\ View \in S
  BY StoredFacts
<1>2. /\ SetsGrow(list) /\ \A n \in DOMAIN list : list[n] \subseteq 1 .. last
  BY DEF Marked
<1>3. View \subseteq 1 .. last
  BY <1>1, <1>2, ListFacts DEF View, Seen
<1>4. heap \in [stored : ListsOf(S), nonce : NonceMaps]
  BY DEF Ready, TypeInv, Heaps
<1>5. Load => after = SyncTo(list, v)
  <2>1. Load => heap' = [heap EXCEPT !.stored = SyncTo(list, v)]
    BY StoredFacts
  <2> QED
    BY <1>4, <2>1
<1>6. Store => after = WithLast(list, v, content) /\ content \in S
  <2>1. Store => heap' = [heap EXCEPT !.stored = WithLast(list, v, content)] /\ content \in S
    BY StoredFacts
  <2> QED
    BY <1>4, <2>1
<1>7. Store => Resources.id \in 1 .. last /\ Resources.id \notin failed
  <2> SUFFICES ASSUME Store PROVE Resources.id \in 1 .. last /\ Resources.id \notin failed
    OBVIOUS
  <2>1. Depth >= 2
    BY StoredFacts
  <2>2. Len(resources) >= 1 /\ Len(resources) \in Nat
    BY <2>1, HandlersAlive, HandlerFacts DEF Ready
  <2> QED
    BY <2>2 DEF Numbered, Resources
<1>8. View \subseteq content /\ (Store => content \subseteq 1 .. last)
  BY <1>3, <1>7
<1>9. Seen(list, v, {}) = View
  BY DEF View
<1> HIDE DEF S, list, v, content, after
<1>10. SetsGrow(after)
  BY <1>1, <1>2, <1>5, <1>6, <1>8, <1>9, SetsKeepGrowing
<1>11. \A n \in DOMAIN after : after[n] \subseteq 1 .. last
  <2>1. UpTo(list, v) \subseteq DOMAIN list
    BY <1>1, ListFacts
  <2> QED
    BY <1>2, <1>5, <1>6, <1>8, <2>1 DEF SyncTo, WithLast
<1>12. \A u \in Nat : u < v => Seen(after, u, {}) = Seen(list, u, {})
  <2>1. CASE Load
    <3>1. \A u \in Nat : u < v => u <= v
      BY <1>1
    <3> QED
      BY <1>1, <1>5, <2>1, <3>1, SyncToFacts
  <2>2. CASE Store
    BY <1>1, <1>6, <2>2, WithLastFacts
  <2> QED
    BY <2>1, <2>2
<1>13. Seen(after, v, {}) = IF Store THEN content ELSE View
  <2>1. CASE Store
    BY <1>1, <1>6, <2>1, WithLastFacts
  <2>2. CASE ~Store
    <3>1. v <= v
      BY <1>1
    <3> QED
      BY <1>1, <1>5, <1>9, <2>2, <3>1, SyncToFacts
  <2> QED
    BY <2>1, <2>2
<1>14. \A i \in 2 .. Len(resources) :
          Seen(after, resources[i].version, {}) \subseteq 1 .. resources[i].id - 1
  <2>1. ASSUME NEW i \in 2 .. Len(resources)
        PROVE  Seen(after, resources[i].version, {}) \subseteq 1 .. resources[i].id - 1
    <3>1. resources[i].version \in Nat /\ resources[i].version < v
      BY HandlerFacts DEF Numbered, v
    <3>2. Seen(list, resources[i].version, {}) \subseteq 1 .. resources[i].id - 1
      BY DEF Marked, list
    <3> QED
      BY <1>12, <3>1, <3>2
  <2> QED
    BY <2>1
<1>15. Marked'
  BY <1>10, <1>11, <1>14 DEF Marked, HandlersKept, after
<1>16. Seen(after, v, {}) \cap failed \subseteq View
  BY <1>7, <1>13 DEF content
<1> QED
  BY <1>15, <1>16 DEF after, v

LEMMA MarkedStep ==
    ASSUME Ready, HeapMoves, request.controlled, Numbered, Marked
    PROVE  Marked'
<1>1. CASE Load \/ Store
  BY <1>1, StoredKept, LoadsAndStores
<1>2. CASE ~Load /\ ~Store
  <2> DEFINE list == heap.stored
             n == Len(resources)
             last == lastGeneratedID
  <2>1. heap'.stored = list
    BY <1>2, StoredSame
  <2>2. /\ n \in Nat /\ last \in Nat /\ currentVersion \in Nat
        /\ \A i \in 1 .. n : resources[i].id \in Nat /\ resources[i].version \in Nat
    BY HandlerFacts
  <2>3. /\ SetsGrow(list) /\ \A k \in DOMAIN list : list[k] \subseteq 1 .. last
        /\ \A i \in 2 .. n : Seen(list, resources[i].version, {}) \subseteq 1 .. resources[i].id - 1
    BY DEF Marked
  <2>4. CASE HandlersKept
    BY <2>1, <2>3, <2>4 DEF Marked, HandlersKept
  <2>5. CASE Spends
    <3>1. /\ \A i \in 1 .. n : /\ resources'[i].id = resources[i].id
                             /\ resources'[i].version = resources[i].version
          /\ \/ Len(resources') = n
             \/ /\ Len(resources') = n + 1
                /\ resources'[n + 1].id = last + 1
                /\ resources'[n + 1].version = currentVersion
      BY <2>5, SpendsFacts
    <3>2. lastGeneratedID' = last + 1
      BY <2>5 DEF Spends
    <3>3. Seen(list, currentVersion, {}) \subseteq 1 .. last
      <4>1. list \in ListsOf(SUBSET Nat)
        BY StoredFacts
      <4> HIDE DEF list
      <4>2. /\ UpTo(list, currentVersion) \subseteq DOMAIN list
            /\ UpTo(list, currentVersion) # {} =>
                  Newest(UpTo(list, currentVersion)) \in UpTo(list, currentVersion)
        BY <2>2, <4>1, ListFacts
      <4> QED
        BY <2>3, <4>2 DEF Seen
    <3>4. 1 .. last \subseteq 1 .. last + 1
      BY <2>2
    <3> HIDE DEF n, last
    <3>5. ASSUME NEW i \in 2 .. Len(resources')
          PROVE  Seen(list, resources'[i].version, {}) \subseteq 1 .. resources'[i].id - 1
      <4>1. CASE i \in 2 .. n
        <5>1. i \in 1 .. n
          BY <2>2, <4>1
        <5> QED
          BY <2>3, <3>1, <4>1, <5>1
      <4>2. CASE i \notin 2 .. n
        <5>1. i = n + 1 /\ Len(resources') = n + 1
          BY <2>2, <3>1, <3>5, <4>2
        <5>2. Len(resources') # n
          BY <2>2, <5>1
        <5>3. resources'[n + 1].version = currentVersion /\ resources'[n + 1].id = last + 1
          BY <3>1, <5>2
        <5>4. resources'[i].version = currentVersion /\ resources'[i].id = last + 1
          BY <5>1, <5>3
        <5>5. resources'[i].id - 1 = last
          BY <2>2, <5>4
        <5> QED
          BY <3>3, <5>4, <5>5
      <4> QED
        BY <4>1, <4>2
    <3>6. \A k \in DOMAIN list : list[k] \subseteq 1 .. last + 1
      BY <2>3, <3>4 DEF last
    <3> HIDE DEF list
    <3> QED
      BY <2>1, <2>3, <3>2, <3>5, <3>6 DEF Marked
  <2>6. CASE EndsCall
    <3>1. /\ n >= 2 /\ Len(resources') = n - 1 /\ \A i \in 1 .. n - 1 : resources'[i] = resources[i]
      BY <2>6, EndsFacts
    <3>2. lastGeneratedID' = last
      BY <2>6 DEF EndsCall
    <3> HIDE DEF n, list
    <3>3. \A i \in 2 .. n - 1 : i \in 1 .. n - 1 /\ i \in 2 .. n
      BY <2>2, <3>1
    <3> QED
      BY <2>1, <2>3, <3>1, <3>2, <3>3 DEF Marked
  <2> QED
    BY <1>2, <2>4, <2>5, <2>6 DEF HeapMoves, CallsOptimistically
<1> QED
  BY <1>1, <1>2

LEMMA TraceStep ==
    ASSUME Ready, [Next]_vars, TraceInv
    PROVE  TraceInv'
<1>1. HeapMoves /\ request' = request
  BY NextHeapMoves, RequestKept
<1>2. CASE request.controlled
  BY <1>1, <1>2, NumberedStep, MarkedStep DEF TraceInv
<1>3. CASE ~request.controlled
  BY <1>1, <1>3 DEF TraceInv, HeapMoves, HandlersKept, Spends, CallsOptimistically, EndsCall
<1> QED
  BY <1>2, <1>3

\* Only a version that is saved on top of what is left over shows it again.
LEMMA TraceShrinks ==
    ASSUME Ready, [Next]_vars, TraceInv
    PROVE  Revives \/ Trace' \subseteq Trace
<1> DEFINE list == heap.stored
           v == currentVersion
<1>1. HeapMoves /\ request' = request /\ list \in ListsOf(SUBSET Nat) /\ v \in Nat
  BY NextHeapMoves, RequestKept, StoredFacts
<1>2. CASE ~request.controlled
  <2>1. failed' = {}
    BY <1>1, <1>2, TraceStep DEF TraceInv
  <2> QED
    BY <2>1 DEF Trace
<1>3. CASE request.controlled
  <2>1. Numbered /\ Marked
    BY <1>3 DEF TraceInv
  <2>2. CASE Load \/ Store
    <3>1. HandlersKept
      BY <2>2, LoadsAndStores
    <3>2. Seen(heap'.stored, v, {}) \cap failed \subseteq View \cap failed
      BY <1>3, <2>1, <2>2, <3>1, StoredKept
    <3> QED
      BY <3>1, <3>2 DEF HandlersKept, Trace, View
  <2>3. CASE ~Load /\ ~Store
    <3>1. heap'.stored = list
      BY <1>1, <2>3, StoredSame
    <3>2. Trace' = Seen(list, currentVersion', {}) \cap failed'
      BY <3>1 DEF Trace, View
    <3>3. Trace = Seen(list, v, {}) \cap failed
      BY DEF Trace, View
    <3>4. CASE HandlersKept
      BY <3>2, <3>3, <3>4 DEF HandlersKept
    <3>5. CASE Spends
      <4>1. failed' = failed /\ currentVersion' \in {v, v + 1}
        BY <3>5, SpendsFacts DEF Spends
      <4>2. CASE v + 1 \in DOMAIN list /\ currentVersion' = v + 1
        BY <4>2 DEF Revives
      <4>3. CASE v + 1 \notin DOMAIN list
        <5>1. Seen(list, v + 1, {}) = Seen(list, v, {})
          BY <1>1, <4>3, SeenAhead
        <5> QED
          BY <3>2, <3>3, <4>1, <5>1
      <4>4. CASE currentVersion' = v
        BY <3>2, <3>3, <4>1, <4>4
      <4> QED
        BY <4>1, <4>2, <4>3, <4>4
    <3>6. CASE EndsCall
      <4> DEFINE n == Len(resources)
                 h == resources[n]
      <4>1. n \in Nat /\ n >= 2 /\ Resources = h /\ Settle
        BY <3>6, EndsFacts DEF EndsCall
      <4>2. CASE Top.ok
        BY <3>2, <3>3, <4>1, <4>2 DEF Settle
      <4>3. CASE ~Top.ok
        <5>1. currentVersion' = h.version /\ failed' = failed \cup (h.id .. lastGeneratedID)
          BY <4>1, <4>3 DEF Settle, TakenBack
        <5>2. n \in 2 .. n /\ n \in 1 .. n
          <6> HIDE DEF n
          <6> QED
            BY <4>1
        <5>3. h.version \in Nat /\ h.version < v /\ h.id \in Nat /\ lastGeneratedID \in Nat
          BY <2>1, <5>2, HandlerFacts DEF Numbered
        <5>4. Seen(list, h.version, {}) \subseteq 1 .. h.id - 1
          BY <2>1, <5>2 DEF Marked
        <5>5. Seen(list, h.version, {}) \subseteq Seen(list, v, {})
          <6>1. SetsGrow(list) /\ h.version <= v
            BY <1>1, <2>1, <5>3 DEF Marked
          <6> HIDE DEF list, h
          <6> QED
            BY <1>1, <5>3, <6>1, SetsSeen
        <5> HIDE DEF list, h
        <5>6. (1 .. h.id - 1) \cap (h.id .. lastGeneratedID) = {}
          BY <5>3
        <5>7. Seen(list, h.version, {}) \cap failed' \subseteq Seen(list, v, {}) \cap failed
          BY <5>1, <5>4, <5>5, <5>6
        <5> QED
          BY <3>2, <3>3, <5>1, <5>7
      <4> QED
        BY <4>2, <4>3
    <3> QED
      BY <1>1, <1>3, <2>3, <3>4, <3>5, <3>6 DEF HeapMoves, CallsOptimistically
  <2> QED
    BY <2>2, <2>3
<1> QED
  BY <1>2, <1>3

-----------------------------------------------------------------------------
(* What was accepted *)

\* What is attached counts only if it is signed with the key of a user's account, and what was
\* added since is signed by applications.
Attested(ms, attached) ==
    /\ Len(ms) >= Len(attached)
    /\ \A i \in 1 .. Len(ms) :
          IF i \in DOMAIN attached
          THEN ms[i].text # Used =>
                  /\ ~OwnedByApp(ms[i].issuer)
                  /\ attached[i] = [issuer |-> ms[i].issuer, text |-> ms[i].text, signed |-> TRUE]
          ELSE OwnedByApp(ms[i].issuer)

Authentic(m, attached) ==
    m.text # Used =>
        IF m.index \in DOMAIN attached
        THEN /\ ~OwnedByApp(m.issuer)
             /\ attached[m.index] = [issuer |-> m.issuer, text |-> m.text, signed |-> TRUE]
        ELSE OwnedByApp(m.issuer)

\* A version sees a later nonce than that of a message.
Passed(h, m, version) ==
    m.text.nonce < Seen(h.nonce[m.issuer][NonceSlot(m.issuer, m.text.body)], version, 0)

\* An accepted message is used up, or its nonce is: for the call that runs, and for the
\* versions that are restored by failures that do not take the message back.
UsedUp(m) ==
    IF OwnedByApp(m.issuer) THEN m.index \in 1 .. Len(messages) /\ messages[m.index].text = Used
    ELSE m.by \notin failed =>
            /\ Passed(heap, m, currentVersion)
            /\ request.controlled =>
                  /\ m.by <= lastGeneratedID
                  /\ \A i \in 2 .. Len(resources) :
                        m.by < resources[i].id => Passed(heap, m, resources[i].version)

Different(m, n) ==
    IF OwnedByApp(m.issuer) THEN m.index # n.index ELSE m.issuer # n.issuer \/ m.text # n.text

NoncesGrow == \A c \in Accounts : \A w \in NonceTable[c] : NumbersGrow(heap.nonce[c][w])

AcceptedOnce(m) == \E k \in 1 .. Len(accepted.once) : accepted.once[k] = m

AuthInv ==
    /\ Attested(messages, request.attached)
    /\ \A m \in accepted.again : Authentic(m, request.attached)
    /\ \A m \in Marks : AcceptedOnce(m) => Authentic(m, request.attached) /\ UsedUp(m)
    /\ \A k, l \in 1 .. Len(accepted.once) :
          LET m == accepted.once[k]
              n == accepted.once[l]
          IN  k # l /\ m.by \notin failed /\ n.by \notin failed => Different(m, n)
    /\ NoncesGrow

\* The list of messages only grows, and an invalidated message stays so.
Grows(ms, ns) ==
    /\ Len(ns) >= Len(ms)
    /\ \A i \in 1 .. Len(ms) : ns[i].issuer = ms[i].issuer /\ ns[i].text \in {ms[i].text, Used}

LEMMA NotUsed ==
    ASSUME NEW text \in Texts
    PROVE  text # Used
<1>1. text.body \in Bodies /\ "" \notin Bodies
  BY VirtualSignaturesAssumption DEF Texts
<1>2. Used.body = ""
  BY DEF Used, TextFor
<1> QED
  BY <1>1, <1>2

\* An application signs: the message is none of those attached.
LEMMA SignedKept ==
    ASSUME NEW ms \in Seq(Messages), NEW m \in Messages, OwnedByApp(m.issuer),
           NEW length \in Nat, NEW attached, DOMAIN attached = 1 .. length, Len(attached) = length,
           Attested(ms, attached)
    PROVE  Grows(ms, Append(ms, m)) /\ Attested(Append(ms, m), attached)
<1> DEFINE ns == Append(ms, m)
           n == Len(ms)
<1>1. n \in Nat /\ Len(ns) = n + 1 /\ ns[n + 1] = m /\ \A i \in 1 .. n : ns[i] = ms[i]
  BY AppendProperties
<1>2. n >= length
  BY DEF Attested
<1> HIDE DEF ns
<1>3. ASSUME NEW i \in 1 .. n + 1
      PROVE  IF i \in DOMAIN attached
             THEN ns[i].text # Used =>
                     /\ ~OwnedByApp(ns[i].issuer)
                     /\ attached[i] = [issuer |-> ns[i].issuer, text |-> ns[i].text, signed |-> TRUE]
             ELSE OwnedByApp(ns[i].issuer)
  <2>1. CASE i \in 1 .. n
    BY <1>1, <2>1 DEF Attested
  <2>2. CASE i \notin 1 .. n
    <3> HIDE DEF n
    <3>1. i = n + 1 /\ i \notin 1 .. length
      BY <1>1, <1>2, <2>2
    <3> QED
      BY <1>1, <3>1
  <2> QED
    BY <2>1, <2>2
<1>4. Len(ns) >= length
  BY <1>1, <1>2
<1>5. Attested(ns, attached)
  BY <1>1, <1>3, <1>4 DEF Attested
<1>6. Grows(ms, ns)
  BY <1>1 DEF Grows
<1> QED
  BY <1>5, <1>6 DEF ns

LEMMA InvalidatedKept ==
    ASSUME NEW ms \in Seq(Messages), NEW index \in 1 .. Len(ms), NEW attached,
           Attested(ms, attached)
    PROVE  LET ns == [ms EXCEPT ![index].text = Used]
           IN  /\ ns \in Seq(Messages) /\ Len(ns) = Len(ms)
               /\ Grows(ms, ns) /\ Attested(ns, attached)
               /\ ns[index].text = Used /\ ns[index].issuer = ms[index].issuer
<1> DEFINE e == [ms[index] EXCEPT !.text = Used]
           ns == [ms EXCEPT ![index] = e]
<1>1. ms[index] \in Messages
  BY ElementOfSeq
<1>2. e \in Messages /\ e.issuer = ms[index].issuer /\ e.text = Used
  BY <1>1 DEF Messages
<1> HIDE DEF e
<1>3. /\ ns \in Seq(Messages) /\ Len(ns) = Len(ms)
      /\ \A i \in 1 .. Len(ms) : ns[i] = IF i = index THEN e ELSE ms[i]
  BY <1>2, ExceptSeq
<1> HIDE DEF ns
<1>4. \A i \in 1 .. Len(ms) : ns[i].issuer = ms[i].issuer /\ ns[i].text \in {ms[i].text, Used}
  BY <1>2, <1>3
<1>5. Grows(ms, ns)
  BY <1>3, <1>4 DEF Grows
<1>6. Attested(ns, attached)
  BY <1>3, <1>4 DEF Attested
<1>7. ns[index].text = Used /\ ns[index].issuer = ms[index].issuer
  BY <1>2, <1>3
<1> QED
  BY <1>3, <1>5, <1>6, <1>7 DEF ns, e

LEMMA AttachedFacts ==
    ASSUME TypeInv
    PROVE  /\ Len(request.attached) \in Nat
           /\ DOMAIN request.attached = 1 .. Len(request.attached)
<1>1. request.attached \in Seq([issuer : Accounts, text : Texts, signed : BOOLEAN])
  BY ExecutorCallsAssumption DEF TypeInv
<1> QED
  BY <1>1, LenProperties

LEMMA MessagesKept ==
    ASSUME TypeInv, Ready, HeapMoves, Attested(messages, request.attached)
    PROVE  Grows(messages, messages') /\ Attested(messages', request.attached)
<1>1. messages \in Seq(Messages)
  BY DEF TypeInv, Messages
<1>2. CASE messages' = messages
  BY <1>1, <1>2 DEF Grows
<1>3. CASE Signs
  <2>1. PICK account \in Accounts, body \in Bodies, spender \in Apps :
            OwnedByApp(account) /\ Sign(TextFor(body, spender, NoNonce), account)
    BY <1>3 DEF Signs
  <2>2. TextFor(body, spender, NoNonce) \in Texts
    BY TextType, NoNonceType
  <2> DEFINE m == [issuer |-> account, text |-> TextFor(body, spender, NoNonce)]
  <2>3. m \in Messages /\ m.issuer = account
    BY <2>2 DEF Messages
  <2>4. messages' = Append(messages, m)
    BY <2>1 DEF Sign
  <2> HIDE DEF m
  <2> QED
    BY <1>1, <2>1, <2>3, <2>4, SignedKept, AttachedFacts
<1>4. ASSUME NEW account, NEW text, NEW index, VerifyAndInvalidate(text, account, index)
      PROVE  Grows(messages, messages') /\ Attested(messages', request.attached)
  <2>1. index \in 1 .. Len(messages)
    BY <1>1, <1>4 DEF VerifyAndInvalidate, Verifies
  <2>2. messages' = [messages EXCEPT ![index].text = Used]
    BY <1>4 DEF VerifyAndInvalidate
  <2> QED
    BY <1>1, <2>1, <2>2, InvalidatedKept
<1>5. CASE AcceptsOnce
  BY <1>2, <1>4, <1>5 DEF AcceptsOnce, VerifyByApp, VerifyWithNonce, VerifyOnly
<1>6. CASE Load \/ Store
  BY <1>2, <1>6 DEF Load, Store, sigVars
<1> QED
  BY <1>2, <1>3, <1>5, <1>6 DEF HeapMoves, Spends, CallsOptimistically, EndsCall

\* No list of nonces goes back, and no version that can be current again sees less.
LEMMA NoncesRise ==
    ASSUME Ready, HeapMoves, NoncesGrow
    PROVE  /\ NoncesGrow'
           /\ \A c \in Accounts : \A w \in NonceTable[c] :
                 /\ heap'.nonce[c][w] \in ListsOf(0 .. NonceMax)
                 /\ \A u \in Nat : u <= currentVersion =>
                       Seen(heap.nonce[c][w], u, 0) <= Seen(heap'.nonce[c][w], u, 0)
<1>1. ASSUME NEW c \in Accounts, NEW w \in NonceTable[c]
      PROVE  /\ NumbersGrow(heap'.nonce[c][w]) /\ heap'.nonce[c][w] \in ListsOf(0 .. NonceMax)
             /\ \A u \in Nat : u <= currentVersion =>
                   Seen(heap.nonce[c][w], u, 0) <= Seen(heap'.nonce[c][w], u, 0)
  <2> DEFINE list == heap.nonce[c][w]
             after == heap'.nonce[c][w]
             S == 0 .. NonceMax
             v == currentVersion
             Next1 == WithLast(list, v, Seen(list, v, 0) + 1)
  <2>1. list \in ListsOf(S) /\ S \in SUBSET Nat /\ v \in Nat /\ NumbersGrow(list)
    BY <1>1, NonceFacts DEF Ready, NoncesGrow
  <2>2. \/ after \in {list, SyncTo(list, v)}
        \/ after = Next1 /\ Seen(list, v, 0) + 1 \in S
    <3>1. CASE AcceptsOnce
      <4>1. PICK account \in Accounts, body \in Bodies, index \in DOMAIN messages :
               VerifyByApp(account, body, index) \/ VerifyWithNonce(account, body, index)
        BY <3>1 DEF AcceptsOnce
      <4> DEFINE Uses == VerifyWithNonce(account, body, index)
                 slot == NonceSlot(account, body)
      <4>2. /\ after = IF Uses /\ c = account /\ w = slot THEN NextNonce(c, w) ELSE list
            /\ Uses => NonceOf(account, slot) + 1 \in S
        BY <1>1, <4>1, AcceptedType
      <4> HIDE DEF Uses, slot, S, after, list
      <4>3. CASE Uses /\ c = account /\ w = slot
        <5>1. after = NextNonce(c, w) /\ NonceOf(c, w) + 1 \in S
          BY <4>2, <4>3
        <5> QED
          BY <5>1 DEF NextNonce, NonceOf, list
      <4>4. CASE ~(Uses /\ c = account /\ w = slot)
        BY <4>2, <4>4
      <4> QED
        BY <4>3, <4>4
    <3>2. CASE ReadsNonces
      BY <1>1, <3>2, ReadingType DEF Ready
    <3>3. CASE Load \/ Store
      BY <3>3, StoredType
    <3>4. CASE heap' = heap
      BY <3>4
    <3> QED
      BY <3>1, <3>2, <3>3, <3>4 DEF HeapMoves, Spends, CallsOptimistically, EndsCall
  <2> HIDE DEF list, after, S, v
  <2> QED
    BY <2>1, <2>2, NumbersRise DEF list, after, S, v
<1>2. NoncesGrow'
  BY <1>1 DEF NoncesGrow
<1> QED
  BY <1>1, <1>2

\* The list of nonces that says whether a user's message can be used.
LEMMA MarkFacts ==
    ASSUME TypeInv, NEW m \in Marks, ~OwnedByApp(m.issuer)
    PROVE  /\ m.issuer \in Accounts /\ m.text.body \in Bodies /\ m.text.nonce \in Int
           /\ NonceSlot(m.issuer, m.text.body) \in NonceTable[m.issuer]
           /\ heap.nonce[m.issuer][NonceSlot(m.issuer, m.text.body)] \in ListsOf(0 .. NonceMax)
           /\ (0 .. NonceMax) \in SUBSET Nat
<1>1. m.issuer \in Accounts /\ m.text.body \in Bodies /\ m.text.nonce \in 0 .. NonceMax
  BY DEF Marks, Texts
<1>2. NonceSlot(m.issuer, m.text.body) \in NonceTable[m.issuer]
  BY <1>1, SlotFacts
<1>3. m.text.nonce \in Int
  BY <1>1
<1> QED
  BY <1>1, <1>2, <1>3, NonceFacts

LEMMA PassedKept ==
    ASSUME Ready, HeapMoves, NoncesGrow, NEW m \in Marks, ~OwnedByApp(m.issuer),
           NEW v \in Nat, v <= currentVersion, Passed(heap, m, v)
    PROVE  Passed(heap', m, v)
<1> DEFINE c == m.issuer
           w == NonceSlot(m.issuer, m.text.body)
           before == Seen(heap.nonce[c][w], v, 0)
           after == Seen(heap'.nonce[c][w], v, 0)
           S == 0 .. NonceMax
<1>1. /\ c \in Accounts /\ w \in NonceTable[c] /\ m.text.nonce \in Int
      /\ heap.nonce[c][w] \in ListsOf(S) /\ S \in SUBSET Nat
  BY MarkFacts DEF Ready
<1>2. heap'.nonce[c][w] \in ListsOf(S) /\ before <= after
  BY <1>1, NoncesRise
<1> HIDE DEF S, c, w
<1>3. before \in Nat /\ after \in Nat
  BY <1>1, <1>2, NumberSeen
<1>4. m.text.nonce < before
  BY DEF Passed, c, w
<1> HIDE DEF before, after
<1>5. m.text.nonce < after
  BY <1>1, <1>2, <1>3, <1>4
<1> QED
  BY <1>5 DEF Passed, after, c, w

LEMMA PassedLater ==
    ASSUME Ready, NoncesGrow, NEW m \in Marks, ~OwnedByApp(m.issuer),
           NEW u \in Nat, NEW v \in Nat, u <= v, Passed(heap, m, u)
    PROVE  Passed(heap, m, v)
<1> DEFINE list == heap.nonce[m.issuer][NonceSlot(m.issuer, m.text.body)]
           S == 0 .. NonceMax
<1>1. m.text.nonce \in Int /\ list \in ListsOf(S) /\ S \in SUBSET Nat /\ NumbersGrow(list)
  BY MarkFacts DEF Ready, NoncesGrow
<1>2. m.text.nonce < Seen(list, u, 0)
  BY DEF Passed
<1> HIDE DEF list, S
<1>3. Seen(list, u, 0) \in Nat /\ Seen(list, v, 0) \in Nat /\ Seen(list, u, 0) <= Seen(list, v, 0)
  BY <1>1, NumberSeen, NumbersSeen
<1>4. m.text.nonce < Seen(list, v, 0)
  BY <1>1, <1>2, <1>3
<1> QED
  BY <1>4 DEF Passed, list

LEMMA UsedUpKept ==
    ASSUME Ready, HeapMoves, TraceInv, Attested(messages, request.attached), NoncesGrow,
           request' = request, NEW m \in Marks, UsedUp(m)
    PROVE  UsedUp(m)'
<1>1. TypeInv /\ messages \in Seq(Messages) /\ messages' \in Seq(Messages)
  BY MessagesType DEF Ready, TypeInv, Messages
<1>2. CASE OwnedByApp(m.issuer)
  <2>1. m.index \in 1 .. Len(messages) /\ messages[m.index].text = Used
    BY <1>2 DEF UsedUp
  <2>2. Grows(messages, messages')
    BY <1>1, MessagesKept
  <2>3. Len(messages) \in Nat /\ Len(messages') \in Nat
    BY <1>1
  <2>4. m.index \in 1 .. Len(messages') /\ messages'[m.index].text = Used
    BY <2>1, <2>2, <2>3 DEF Grows
  <2> QED
    BY <1>2, <2>4 DEF UsedUp
<1>3. CASE ~OwnedByApp(m.issuer)
  <2> DEFINE n == Len(resources)
             last == lastGeneratedID
             v == currentVersion
             Still == /\ Passed(heap', m, currentVersion')
                      /\ request.controlled =>
                            /\ m.by <= lastGeneratedID'
                            /\ \A i \in 2 .. Len(resources') :
                                  m.by < resources'[i].id => Passed(heap', m, resources'[i].version)
  <2> SUFFICES ASSUME m.by \notin failed' PROVE Still
    BY <1>3 DEF UsedUp, Passed
  <2>1. failed \subseteq failed'
    BY LoadsAndStores DEF HeapMoves, HandlersKept, Spends, CallsOptimistically, EndsCall, Settle
  <2>2. /\ Passed(heap, m, v)
        /\ request.controlled =>
              /\ m.by <= last
              /\ \A i \in 2 .. n : m.by < resources[i].id => Passed(heap, m, resources[i].version)
    BY <1>3, <2>1 DEF UsedUp
  <2>3. /\ n \in Nat /\ last \in Nat /\ v \in Nat /\ m.by \in Nat
        /\ \A i \in 1 .. n : resources[i].id \in Nat /\ resources[i].version \in Nat
    BY HandlerFacts DEF Marks
  <2>4. request.controlled => \A i \in 2 .. n : resources[i].version \in Nat
                                               /\ resources[i].version <= v
    <3> SUFFICES ASSUME request.controlled, NEW i \in 2 .. n
                 PROVE  resources[i].version \in Nat /\ resources[i].version <= v
      OBVIOUS
    <3>1. resources[i].version < v
      BY DEF TraceInv, Numbered
    <3>2. resources[i].version \in Nat
      BY <2>3
    <3> QED
      BY <2>3, <3>1, <3>2
  <2> HIDE DEF n, last, v
  <2>5. CASE HandlersKept
    <3>1. /\ currentVersion' = v /\ lastGeneratedID' = last /\ resources' = resources
          /\ Len(resources') = n
      BY <2>5 DEF HandlersKept, n, last, v
    <3>2. Passed(heap', m, v)
      BY <1>3, <2>2, <2>3, PassedKept DEF v
    <3>3. ASSUME request.controlled, NEW i \in 2 .. n, m.by < resources[i].id
          PROVE  Passed(heap', m, resources[i].version)
      BY <1>3, <2>2, <2>4, <3>3, PassedKept DEF v
    <3> QED
      BY <2>2, <3>1, <3>2, <3>3
  <2>6. CASE Spends
    <3>1. /\ \A i \in 1 .. n : /\ resources'[i].id = resources[i].id
                             /\ resources'[i].version = resources[i].version
          /\ \/ Len(resources') = n /\ currentVersion' = v
             \/ /\ Len(resources') = n + 1 /\ currentVersion' = v + 1
                /\ resources'[n + 1].version = v
      BY <2>6, SpendsFacts DEF n, v
    <3>2. heap' = heap /\ lastGeneratedID' = last + 1 /\ request.controlled
      BY <2>6 DEF Spends, last
    <3>3. Passed(heap, m, v + 1)
      <4>1. v + 1 \in Nat /\ v <= v + 1
        BY <2>3
      <4> QED
        BY <1>3, <2>2, <2>3, <4>1, PassedLater
    <3>4. m.by <= last + 1
      BY <2>2, <2>3, <3>2
    <3>5. ASSUME NEW i \in 2 .. Len(resources'), m.by < resources'[i].id
          PROVE  Passed(heap, m, resources'[i].version)
      <4>1. CASE i \in 2 .. n
        <5>1. i \in 1 .. n
          BY <2>3, <4>1
        <5> QED
          BY <2>2, <3>1, <3>2, <3>5, <4>1, <5>1
      <4>2. CASE i \notin 2 .. n
        <5>1. Len(resources') = n + 1 /\ i = n + 1
          BY <2>3, <3>1, <3>5, <4>2
        <5>2. Len(resources') # n
          BY <2>3, <5>1
        <5>3. resources'[n + 1].version = v
          BY <3>1, <5>2
        <5> QED
          BY <2>2, <5>1, <5>3
      <4> QED
        BY <4>1, <4>2
    <3> QED
      BY <2>2, <3>1, <3>2, <3>3, <3>4, <3>5
  <2>7. CASE CallsOptimistically
    <3>1. ~request.controlled /\ heap' = heap /\ currentVersion' \in {v, v + 1}
      BY <2>7 DEF CallsOptimistically, v
    <3>2. v + 1 \in Nat /\ v <= v + 1
      BY <2>3
    <3>3. Passed(heap, m, v + 1)
      BY <1>3, <2>2, <2>3, <3>2, PassedLater
    <3> QED
      BY <2>2, <3>1, <3>3
  <2>8. CASE EndsCall
    <3>1. /\ n >= 2 /\ Resources = resources[n] /\ Len(resources') = n - 1
          /\ \A i \in 1 .. n - 1 : resources'[i] = resources[i]
      BY <2>8, EndsFacts DEF n
    <3>2. heap' = heap /\ lastGeneratedID' = last /\ request.controlled /\ Settle
      BY <2>8 DEF EndsCall, last
    <3>3. n \in 2 .. n /\ n \in 1 .. n /\ \A i \in 2 .. n - 1 : i \in 1 .. n - 1 /\ i \in 2 .. n
      BY <2>3, <3>1
    <3>4. Passed(heap, m, currentVersion')
      <4>1. CASE Top.ok
        BY <2>2, <3>2, <4>1 DEF Settle, v
      <4>2. CASE ~Top.ok
        <5>1. currentVersion' = resources[n].version /\ m.by \notin resources[n].id .. last
          BY <3>1, <3>2, <4>2 DEF Settle, TakenBack, last
        <5>2. resources[n].id \in Nat
          BY <2>3, <3>3
        <5>3. m.by < resources[n].id
          BY <2>2, <2>3, <3>2, <5>1, <5>2
        <5> QED
          BY <2>2, <3>2, <3>3, <5>1, <5>3
      <4> QED
        BY <4>1, <4>2
    <3> QED
      BY <2>2, <3>1, <3>2, <3>3, <3>4
  <2> QED
    BY <2>5, <2>6, <2>7, <2>8 DEF HeapMoves
<1> QED
  BY <1>2, <1>3

\* What is attached and what was signed in the session is never taken for each other.
LEMMA KindsDiffer ==
    ASSUME NEW m \in Marks, NEW n \in Marks, NEW attached,
           Authentic(m, attached), Authentic(n, attached),
           OwnedByApp(m.issuer), ~OwnedByApp(n.issuer)
    PROVE  Different(m, n) /\ Different(n, m)
<1>1. m.text # Used /\ n.text # Used
  BY NotUsed DEF Marks
<1>2. m.index \notin DOMAIN attached /\ n.index \in DOMAIN attached
  BY <1>1 DEF Authentic
<1> QED
  BY <1>2 DEF Different

\* The message that is used now was not used before, unless that was taken back.
LEMMA MarkIsNew ==
    ASSUME Ready, TraceInv, AuthInv, NEW account \in Accounts, NEW body \in Bodies,
           NEW index \in DOMAIN messages,
           VerifyByApp(account, body, index) \/ VerifyWithNonce(account, body, index),
           NEW mark \in Marks, mark.index = index, mark.issuer = account, mark.by = Resources.id,
           Presented(account, body, mark.text),
           messages[index] = [issuer |-> account, text |-> mark.text]
    PROVE  /\ Authentic(mark, request.attached)
           /\ \A n \in Marks : AcceptedOnce(n) /\ n.by \notin failed =>
                 Different(mark, n) /\ Different(n, mark)
<1>1. messages \in Seq(Messages) /\ TypeInv
  BY DEF Ready, TypeInv, Messages
<1>2. index \in 1 .. Len(messages)
  BY <1>1
<1>3. mark.text # Used /\ messages[index].issuer = account /\ messages[index].text = mark.text
  BY NotUsed DEF Marks
<1>4. Authentic(mark, request.attached)
  BY <1>2, <1>3 DEF AuthInv, Attested, Authentic
<1>5. ASSUME NEW n \in Marks, AcceptedOnce(n), n.by \notin failed
      PROVE  Different(mark, n) /\ Different(n, mark)
  <2>1. Authentic(n, request.attached) /\ UsedUp(n)
    BY <1>5 DEF AuthInv
  <2>2. CASE OwnedByApp(account) /\ OwnedByApp(n.issuer)
    <3>1. messages[n.index].text = Used
      BY <2>1, <2>2 DEF UsedUp
    <3> QED
      BY <1>3, <2>2, <3>1 DEF Different
  <2>3. CASE ~OwnedByApp(account) /\ ~OwnedByApp(n.issuer)
    <3> SUFFICES ASSUME n.issuer = account, n.text = mark.text PROVE FALSE
      BY <2>3 DEF Different
    <3>1. Passed(heap, n, currentVersion)
      BY <1>5, <2>1, <2>3 DEF UsedUp
    <3>2. n.text.body = body /\ n.text.nonce = NonceOf(account, NonceSlot(account, body))
      BY <2>3 DEF Presented
    <3>3. n.text.nonce < n.text.nonce
      BY <3>1, <3>2 DEF Passed, NonceOf
    <3>4. n.text.nonce \in Int
      BY <1>1, <2>3, MarkFacts
    <3> QED
      BY <3>3, <3>4
  <2>4. CASE OwnedByApp(account) /\ ~OwnedByApp(n.issuer)
    BY <1>4, <2>1, <2>4, KindsDiffer
  <2>5. CASE ~OwnedByApp(account) /\ OwnedByApp(n.issuer)
    BY <1>4, <2>1, <2>5, KindsDiffer
  <2> QED
    BY <2>2, <2>3, <2>4, <2>5
<1> QED
  BY <1>4, <1>5

LEMMA LastSeen ==
    ASSUME NEW S, NEW list \in ListsOf(S), NEW version \in Nat, NEW content \in S
    PROVE  Seen(WithLast(list, version, content), version, 0) = content
BY WithLastFacts

LEMMA MarkIsUsedUp ==
    ASSUME Ready, TraceInv, AuthInv, request' = request,
           NEW account \in Accounts, NEW body \in Bodies, NEW index \in DOMAIN messages,
           VerifyByApp(account, body, index) \/ VerifyWithNonce(account, body, index),
           NEW mark \in Marks, mark.index = index, mark.issuer = account, mark.by = Resources.id,
           Presented(account, body, mark.text)
    PROVE  UsedUp(mark)'
<1>1. messages \in Seq(Messages) /\ TypeInv
  BY DEF Ready, TypeInv, Messages
<1>2. index \in 1 .. Len(messages)
  BY <1>1
<1>3. CASE VerifyByApp(account, body, index)
  <2>1. messages' = [messages EXCEPT ![index].text = Used] /\ OwnedByApp(account)
    BY <1>3 DEF VerifyByApp, VerifyAndInvalidate
  <2>2. messages'[index].text = Used /\ index \in 1 .. Len(messages')
    BY <1>1, <1>2, <2>1, InvalidatedKept DEF AuthInv
  <2> QED
    BY <2>1, <2>2 DEF UsedUp
<1>4. CASE VerifyWithNonce(account, body, index)
  <2> DEFINE slot == NonceSlot(account, body)
             nonce == NonceOf(account, slot)
             v == currentVersion
             n == Len(resources)
  <2>1. ~OwnedByApp(account) /\ UNCHANGED appVars
    BY <1>4 DEF VerifyWithNonce
  <2>2. UNCHANGED <<resources, lastGeneratedID, currentVersion, failed>>
    BY <2>1 DEF appVars, handlerVars
  <2>3. slot \in NonceTable[account]
    BY <2>1, SlotFacts
  <2>4. /\ heap.nonce[account][slot] \in ListsOf(0 .. NonceMax) /\ v \in Nat
        /\ nonce \in Nat
    BY <1>1, <2>3, NonceFacts
  <2>5. heap'.nonce[account][slot] = NextNonce(account, slot) /\ nonce + 1 \in 0 .. NonceMax
    BY <1>4, <2>3, AcceptedType
  <2>6. Seen(heap'.nonce[account][slot], v, 0) = nonce + 1
    <3>1. \A list \in ListsOf(0 .. NonceMax), content \in 0 .. NonceMax :
             Seen(WithLast(list, v, content), v, 0) = content
      BY <2>4, LastSeen
    <3> HIDE DEF slot, nonce, v
    <3>2. Seen(WithLast(heap.nonce[account][slot], v, nonce + 1), v, 0) = nonce + 1
      BY <2>4, <2>5, <3>1
    <3> QED
      BY <2>5, <3>2 DEF NextNonce, nonce, v
  <2>7. mark.text.body = body /\ mark.text.nonce = nonce
    BY <2>1 DEF Presented
  <2>8. Passed(heap', mark, v)
    <3>1. nonce < nonce + 1
      <4> HIDE DEF nonce
      <4> QED
        BY <2>4
    <3> QED
      BY <2>6, <2>7, <3>1 DEF Passed
  <2>9. ASSUME request.controlled
        PROVE  /\ mark.by <= lastGeneratedID
               /\ \A i \in 2 .. n : ~(mark.by < resources[i].id)
    <3>1. Depth >= 2
      BY <1>4, ReadyFacts DEF VerifyWithNonce, LoadsArgContext, Does, At
    <3>2. n >= 1 /\ n \in Nat /\ \A i \in 1 .. n : resources[i].id \in Nat
      BY <3>1, HandlersAlive, HandlerFacts DEF Ready
    <3>3. mark.by = resources[n].id
      BY DEF Resources
    <3>4. /\ \A i \in 1 .. n : resources[i].id \in 1 .. lastGeneratedID
          /\ \A i, j \in 1 .. n : i < j => resources[i].id < resources[j].id
      BY <2>9 DEF TraceInv, Numbered
    <3> HIDE DEF n
    <3>5. n \in 1 .. n
      BY <3>2
    <3>6. ASSUME NEW i \in 2 .. n PROVE ~(resources[n].id < resources[i].id)
      <4>1. i \in 1 .. n /\ (i = n \/ i < n)
        BY <3>2
      <4>2. i = n \/ resources[i].id < resources[n].id
        BY <3>4, <3>5, <4>1
      <4>3. resources[i].id \in Nat /\ resources[n].id \in Nat
        BY <3>2, <3>5, <4>1
      <4> QED
        BY <4>2, <4>3
    <3>7. resources[n].id <= lastGeneratedID
      BY <3>4, <3>5
    <3> QED
      BY <3>3, <3>6, <3>7
  <2> HIDE DEF n, v
  <2>10. Len(resources') = n /\ currentVersion' = v
    BY <2>2 DEF n, v
  <2> QED
    BY <2>1, <2>2, <2>8, <2>9, <2>10 DEF UsedUp
<1> QED
  BY <1>3, <1>4

LEMMA OnceStep ==
    ASSUME Ready, HeapMoves, TraceInv, AuthInv, request' = request
    PROVE  /\ \A m \in Marks : AcceptedOnce(m)' => Authentic(m, request.attached) /\ UsedUp(m)'
           /\ \A k, l \in 1 .. Len(accepted'.once) :
                 LET m == accepted'.once[k]
                     n == accepted'.once[l]
                 IN  k # l /\ m.by \notin failed' /\ n.by \notin failed' => Different(m, n)
<1> DEFINE attached == request.attached
           ms == accepted.once
           ns == accepted'.once
           last == Len(accepted.once)
           Pairs == \A k, l \in 1 .. Len(ns) :
                       k # l /\ ns[k].by \notin failed' /\ ns[l].by \notin failed' =>
                          Different(ns[k], ns[l])
<1>1. ms \in Seq(Marks) /\ last \in Nat /\ last = Len(ms)
  BY DEF Ready, TypeInv
<1>2. failed \subseteq failed'
  BY DEF HeapMoves, HandlersKept, Spends, CallsOptimistically, EndsCall, Settle
<1>3. ASSUME NEW m \in Marks, AcceptedOnce(m) PROVE Authentic(m, attached) /\ UsedUp(m)'
  BY <1>3, UsedUpKept DEF AuthInv
<1>4. \A k, l \in 1 .. last : k # l /\ ms[k].by \notin failed' /\ ms[l].by \notin failed' =>
                              Different(ms[k], ms[l])
  BY <1>2 DEF AuthInv
<1>5. CASE ns = ms
  <2>1. \A m : AcceptedOnce(m)' => AcceptedOnce(m)
    BY <1>5 DEF AcceptedOnce
  <2>2. Pairs
    BY <1>4, <1>5
  <2> QED
    BY <1>3, <2>1, <2>2
<1>6. CASE AcceptsOnce
  <2>1. PICK account \in Accounts, body \in Bodies, index \in DOMAIN messages :
           VerifyByApp(account, body, index) \/ VerifyWithNonce(account, body, index)
    BY <1>6 DEF AcceptsOnce
  <2>2. PICK mark \in Marks :
            /\ ns = Append(ms, mark)
            /\ mark.index = index /\ mark.issuer = account /\ mark.by = Resources.id
            /\ Presented(account, body, mark.text)
            /\ messages[index] = [issuer |-> account, text |-> mark.text]
    BY <2>1, AcceptedType DEF AddsMark
  <2>3. /\ Authentic(mark, attached)
        /\ \A n \in Marks : AcceptedOnce(n) /\ n.by \notin failed =>
              Different(mark, n) /\ Different(n, mark)
    BY <2>1, <2>2, MarkIsNew
  <2>4. UsedUp(mark)'
    BY <2>1, <2>2, MarkIsUsedUp
  <2>5. /\ Len(ns) = last + 1 /\ ns[last + 1] = mark
        /\ \A k \in 1 .. last : ns[k] = ms[k]
    BY <1>1, <2>2, AppendProperties
  <2>6. \A k \in 1 .. last : ms[k] \in Marks /\ AcceptedOnce(ms[k])
    BY <1>1, ElementOfSeq DEF AcceptedOnce
  <2>7. ASSUME NEW m \in Marks, AcceptedOnce(m)' PROVE Authentic(m, attached) /\ UsedUp(m)'
    <3>1. PICK k \in 1 .. Len(ns) : ns[k] = m
      BY <2>7 DEF AcceptedOnce
    <3> HIDE DEF last, ns, ms
    <3>2. CASE k \in 1 .. last
      <4>1. m = ms[k]
        BY <2>5, <3>1, <3>2
      <4>2. AcceptedOnce(m)
        BY <3>2, <4>1 DEF AcceptedOnce, last, ms
      <4> QED
        BY <1>3, <4>2
    <3>3. CASE k \notin 1 .. last
      <4>1. k = last + 1
        BY <1>1, <2>5, <3>3
      <4>2. m = mark
        BY <2>5, <3>1, <4>1
      <4> QED
        BY <2>3, <2>4, <4>2
    <3> QED
      BY <3>2, <3>3
  <2>8. ASSUME NEW k \in 1 .. Len(ns), NEW l \in 1 .. Len(ns), k # l,
               ns[k].by \notin failed', ns[l].by \notin failed'
        PROVE  Different(ns[k], ns[l])
    <3> HIDE DEF last, ns, ms
    <3>1. CASE k \in 1 .. last /\ l \in 1 .. last
      BY <1>4, <2>5, <2>8, <3>1
    <3>2. CASE k \in 1 .. last /\ l \notin 1 .. last
      <4>1. l = last + 1 /\ ns[k] = ms[k]
        BY <1>1, <2>5, <2>8, <3>2
      <4> QED
        BY <1>2, <2>3, <2>5, <2>6, <2>8, <3>2, <4>1
    <3>3. CASE k \notin 1 .. last
      <4>1. k = last + 1 /\ l \in 1 .. last
        BY <1>1, <2>5, <2>8, <3>3
      <4>2. ns[l] = ms[l]
        BY <2>5, <4>1
      <4> QED
        BY <1>2, <2>3, <2>5, <2>6, <2>8, <4>1, <4>2
    <3> QED
      BY <3>1, <3>2, <3>3
  <2>9. Pairs
    BY <2>8
  <2> QED
    BY <2>7, <2>9
<1>7. ~AcceptsOnce => ns = ms
  <2>1. AcceptsAgain => ns = ms
    <3>1. accepted \in [once : Seq(Marks), again : SUBSET Verified]
      BY DEF Ready, TypeInv
    <3> QED
      BY <3>1 DEF AcceptsAgain
  <2>2. Load \/ Store => accepted' = accepted
    BY DEF Load, Store, sigVars
  <2> QED
    BY <2>1, <2>2 DEF HeapMoves, Spends, CallsOptimistically, EndsCall
<1> QED
  BY <1>5, <1>6, <1>7

LEMMA AgainStep ==
    ASSUME Ready, HeapMoves, AuthInv
    PROVE  \A m \in accepted'.again : Authentic(m, request.attached)
<1>1. /\ accepted \in [once : Seq(Marks), again : SUBSET Verified]
      /\ messages \in Seq(Messages)
  BY DEF Ready, TypeInv, Messages
<1>2. CASE accepted'.again = accepted.again
  BY <1>2 DEF AuthInv
<1>3. CASE AcceptsAgain
  <2>1. PICK m \in Verified :
            /\ accepted' = [accepted EXCEPT !.again = @ \cup {m}]
            /\ m.text = Used \/ (m.index \in DOMAIN messages
                                  /\ messages[m.index] = [issuer |-> m.issuer, text |-> m.text])
    BY <1>3 DEF AcceptsAgain
  <2>2. accepted'.again = accepted.again \cup {m}
    BY <1>1, <2>1
  <2>3. Authentic(m, request.attached)
    <3>1. m.index \in DOMAIN messages => m.index \in 1 .. Len(messages)
      BY <1>1
    <3> QED
      BY <2>1, <3>1 DEF AuthInv, Attested, Authentic
  <2> QED
    BY <2>2, <2>3 DEF AuthInv
<1>4. CASE AcceptsOnce
  BY <1>2, <1>4, AcceptedType DEF AcceptsOnce, AddsMark
<1>5. CASE Load \/ Store
  BY <1>2, <1>5 DEF Load, Store, sigVars
<1> QED
  BY <1>2, <1>3, <1>4, <1>5 DEF HeapMoves, Spends, CallsOptimistically, EndsCall

LEMMA AuthStep ==
    ASSUME Ready, [Next]_vars, TraceInv, AuthInv
    PROVE  AuthInv'
<1>1. HeapMoves /\ request' = request /\ TypeInv
  BY NextHeapMoves, RequestKept DEF Ready
<1>2. Attested(messages', request.attached)
  BY <1>1, MessagesKept DEF AuthInv
<1>3. NoncesGrow'
  BY <1>1, NoncesRise DEF AuthInv
<1>4. /\ \A m \in Marks : AcceptedOnce(m)' => Authentic(m, request.attached) /\ UsedUp(m)'
      /\ \A k, l \in 1 .. Len(accepted'.once) :
            LET m == accepted'.once[k]
                n == accepted'.once[l]
            IN  k # l /\ m.by \notin failed' /\ n.by \notin failed' => Different(m, n)
  BY <1>1, OnceStep
<1>5. \A m \in accepted'.again : Authentic(m, request.attached)
  BY <1>1, AgainStep
<1> QED
  BY <1>1, <1>2, <1>3, <1>4, <1>5 DEF AuthInv

LEMMA InitAuth ==
    ASSUME Init, TypeInv
    PROVE  AuthInv
<1> DEFINE attached == request.attached
<1>1. messages = SigManagerFor(attached)
  BY DEF Init
<1>2. /\ Len(attached) \in Nat /\ DOMAIN attached = 1 .. Len(attached)
      /\ \A i \in 1 .. Len(attached) :
            attached[i] \in [issuer : Accounts, text : Texts, signed : BOOLEAN]
  <2>1. attached \in Seq([issuer : Accounts, text : Texts, signed : BOOLEAN])
    BY ExecutorCallsAssumption DEF TypeInv
  <2> HIDE DEF attached
  <2> QED
    BY <2>1, LenProperties, ElementOfSeq
<1>3. messages \in Seq(Messages)
  BY DEF TypeInv, Messages
<1> HIDE DEF attached
<1>4. DOMAIN messages = DOMAIN attached
  BY <1>1 DEF SigManagerFor
<1>5. Len(messages) = Len(attached)
  BY <1>2, <1>3, <1>4
<1>6. ASSUME NEW i \in 1 .. Len(messages), messages[i].text # Used
      PROVE  /\ ~OwnedByApp(messages[i].issuer)
             /\ attached[i] = [issuer |-> messages[i].issuer, text |-> messages[i].text, signed |-> TRUE]
  <2>1. /\ messages[i].issuer = attached[i].issuer
        /\ messages[i].text = IF attached[i].signed /\ ~OwnedByApp(attached[i].issuer)
                              THEN attached[i].text ELSE Used
    BY <1>1, <1>2, <1>5 DEF SigManagerFor
  <2>2. attached[i] \in [issuer : Accounts, text : Texts, signed : BOOLEAN]
    BY <1>2, <1>5
  <2>3. /\ attached[i].signed /\ ~OwnedByApp(attached[i].issuer)
        /\ messages[i].text = attached[i].text
    BY <1>6, <2>1
  <2> QED
    BY <2>1, <2>2, <2>3
<1>7. Attested(messages, attached)
  BY <1>2, <1>5, <1>6 DEF Attested
<1>8. accepted.again = {} /\ Len(accepted.once) = 0
  BY DEF Init
<1>9. NoncesGrow
  <2>1. \A c \in Accounts : \A w \in NonceTable[c] : heap.nonce[c][w] = << >>
    BY DEF Init
  <2> QED
    BY <2>1 DEF NoncesGrow, NumbersGrow
<1>10. \A m \in Marks : ~AcceptedOnce(m)
  BY <1>8 DEF AcceptedOnce
<1> QED
  BY <1>7, <1>8, <1>9, <1>10 DEF AuthInv, attached

-----------------------------------------------------------------------------
(* The inductive invariant *)

CallInv ==
    /\ TypeInv /\ StackInv /\ GasInv /\ LockInv /\ MaskInv /\ TraceInv /\ AuthInv
    /\ ContextFollows

LEMMA SigManagerType ==
    ASSUME NEW r \in Requests
    PROVE  SigManagerFor(r.attached) \in Seq(Messages)
<1>1. r.attached \in Seq([issuer : Accounts, text : Texts, signed : BOOLEAN])
  BY ExecutorCallsAssumption
<1> DEFINE a == r.attached
<1>2. Len(a) \in Nat /\ DOMAIN a = 1 .. Len(a)
      /\ \A i \in 1 .. Len(a) : a[i] \in [issuer : Accounts, text : Texts, signed : BOOLEAN]
  BY <1>1, LenProperties, ElementOfSeq
<1> HIDE DEF a
<1>3. SigManagerFor(a) \in [1 .. Len(a) -> Messages]
  BY <1>2 DEF SigManagerFor, Messages
<1> QED
  BY <1>2, <1>3, SeqDef DEF a

LEMMA FirstContext ==
    ASSUME Init
    PROVE  /\ request \in Requests /\ Depth = 1 /\ Top = RootContext /\ frames[1] = RootContext
           /\ RootContext \in Frames /\ frames \in Seq(Frames) /\ request.controlled \in BOOLEAN
<1>1. request \in Requests /\ frames = <<RootContext>>
  BY DEF Init
<1>2. request.controlled \in BOOLEAN
  BY <1>1, ExecutorCallsAssumption
<1>3. RootContext \in Frames
  BY <1>2 DEF RootContext, Frame, Frames
<1> QED
  BY <1>1, <1>2, <1>3 DEF Depth, Top

LEMMA InitType ==
    ASSUME Init
    PROVE  TypeInv
<1>1. request \in Requests /\ request.maxClocks \in Nat
  BY ExecutorCallsAssumption DEF Init
<1>2. lastGeneratedID \in Nat /\ granted \in Nat /\ currentVersion \in Nat
  BY DEF Init
<1>3. heap \in Heaps
  <2> DEFINE none == [c \in Accounts |-> [w \in NonceTable[c] |-> << >>]]
  <2>1. \A S : << >> \in ListsOf(S)
    <3> SUFFICES ASSUME NEW S PROVE << >> \in ListsOf(S)
      OBVIOUS
    <3>1. << >> \in [{} -> S]
      OBVIOUS
    <3>2. {} \in SUBSET Nat
      OBVIOUS
    <3> QED
      BY <3>1, <3>2 DEF ListsOf
  <2>2. none \in NonceMaps
    BY <2>1 DEF NonceMaps, Nonces
  <2> HIDE DEF none
  <2>3. heap = [stored |-> << >>, nonce |-> none]
    BY DEF Init, none
  <2> QED
    BY <2>1, <2>2, <2>3 DEF Heaps
<1>4. messages \in Seq(Messages)
  BY <1>1, SigManagerType DEF Init
<1>5. RootHandler \in HandlerRecords
  BY <1>1, <1>2, <1>3 DEF RootHandler, Handler, HandlerRecords
<1>6. resources \in Seq(HandlerRecords)
  BY <1>5 DEF Init
<1>7. accepted \in [once : Seq(Marks), again : SUBSET Verified]
  <2>1. accepted = [once |-> << >>, again |-> {}]
    BY DEF Init
  <2> QED
    BY <2>1
<1> QED
  BY <1>1, <1>2, <1>3, <1>4, <1>6, <1>7 DEF TypeInv, Messages

LEMMA InitStack ==
    ASSUME Init
    PROVE  Shape /\ Handlers
<1>1. /\ Depth = 1 /\ frames[1] = RootContext /\ frames \in Seq(Frames)
      /\ request.controlled \in BOOLEAN
  BY FirstContext
<1>2. RootContext.kind = "root" /\ RootContext.app = NoApp /\ RootContext.pc = "start"
  BY DEF RootContext, Frame
<1>3. Shape
  BY <1>1, <1>2 DEF Shape, Places
<1>4. CallFrames = {1}
  BY <1>1, <1>2 DEF CallFrames
<1>5. Cardinality(CallFrames) = 1
  BY <1>4, FS_Singleton
<1>6. MaxDepth \in Nat \ {0}
  BY ExecutorCallsAssumption
<1>7. /\ Len(resources) = IF request.controlled THEN 1 ELSE 0
      /\ callDepth = IF request.controlled THEN 1 ELSE 0
  BY DEF Init
<1>8. Handlers
  BY <1>1, <1>5, <1>6, <1>7 DEF Handlers
<1> QED
  BY <1>3, <1>8

LEMMA InitCalls ==
    ASSUME Init
    PROVE  CallInv
<1>1. /\ Depth = 1 /\ Top = RootContext /\ frames[1] = RootContext /\ frames \in Seq(Frames)
      /\ request.controlled \in BOOLEAN
  BY FirstContext
<1>2. /\ RootContext.kind = "root" /\ RootContext.pc = "start" /\ RootContext.hasLock = FALSE
      /\ request.controlled => RootContext.timer = "none"
  BY DEF RootContext, Frame
<1>3. Locks
  <2>1. isLocked = [a \in Apps |-> FALSE]
    BY DEF Init
  <2> QED
    BY <1>1, <1>2, <2>1 DEF Locks
<1>4. MaskInv
  <2> SUFFICES ASSUME request.controlled PROVE Masks
    BY DEF MaskInv
  <2>1. RootContext.timer = "none"
    BY <1>2
  <2> QED
    BY <1>1, <1>2, <2>1 DEF Masks
<1>5. ContextFollows
  BY <1>1, <1>2 DEF ContextFollows, At
<1>6. RootHandler = [id |-> 1, gas |-> 0, remaining |-> request.maxClocks,
                     external |-> request.maxClocks, before |-> 0, version |-> 0]
  BY DEF Init, RootHandler, Handler
<1>7. request.maxClocks \in Nat
  BY InitType, RequestFacts
<1>8. request.controlled => resources = <<RootHandler>>
  BY DEF Init
<1>9. /\ granted = 0 /\ failed = {} /\ heap.stored = << >> /\ currentVersion = 0
      /\ request.controlled => lastGeneratedID = 1
  BY DEF Init
<1>10. GasInv
  <2> SUFFICES ASSUME request.controlled PROVE GasInv
    BY DEF GasInv
  <2>1. Len(resources) = 1 /\ resources[1] = RootHandler
    BY <1>8
  <2>2. /\ resources[1].gas = 0 /\ resources[1].before = 0
        /\ resources[1].external = request.maxClocks /\ resources[1].remaining = request.maxClocks
    BY <1>6, <2>1
  <2>3. Resources = resources[1]
    BY <2>1 DEF Resources
  <2> QED
    BY <1>7, <1>9, <2>1, <2>2, <2>3 DEF GasInv
<1>11. TraceInv
  <2> SUFFICES ASSUME request.controlled PROVE Numbered /\ Marked
    BY <1>9 DEF TraceInv
  <2>1. Len(resources) = 1 /\ resources[1].id = 1
    BY <1>6, <1>8
  <2>2. Numbered
    BY <1>9, <2>1 DEF Numbered
  <2>3. Marked
    BY <1>9, <2>1 DEF Marked, SetsGrow
  <2> QED
    BY <2>2, <2>3
<1> QED
  BY <1>3, <1>4, <1>5, <1>10, <1>11, InitType, InitStack, InitAuth DEF CallInv, StackInv, LockInv

LEMMA StepCalls ==
    ASSUME CallInv, [Next]_vars
    PROVE  CallInv'
<1>1. CASE ~Running
  <2>1. UNCHANGED vars
    BY <1>1, NotRunning
  <2>2. request' = request /\ ~Running' /\ UNCHANGED <<resources, granted, lastGeneratedID,
            currentVersion, heap, messages, failed, accepted>>
    BY <1>1, <2>1 DEF vars, sigVars, Running
  <2>3. TypeInv' /\ GasInv' /\ TraceInv'
    BY <2>2 DEF CallInv, TypeInv, GasInv, TraceInv, Numbered, Marked, Resources
  <2>4. AuthInv'
    BY <2>2 DEF CallInv, AuthInv, UsedUp, Passed, AcceptedOnce, NoncesGrow
  <2> QED
    BY <2>2, <2>3, <2>4 DEF CallInv, StackInv, LockInv, MaskInv, ContextFollows, At, Running
<1>2. CASE Running
  <2>1. Ready /\ request' = request
    BY <1>2, RequestKept DEF CallInv, StackInv, Ready
  <2>2. TypeInv' /\ GasInv' /\ TraceInv' /\ AuthInv'
    BY <2>1, NextType, GasStep, TraceStep, AuthStep DEF CallInv
  <2>3. CASE ~Running'
    BY <2>2, <2>3 DEF CallInv, StackInv, LockInv, MaskInv, ContextFollows, At, Running
  <2>4. CASE Running'
    <3>1. Moves
      BY <2>1, <2>4, NextMoves DEF CallInv
    <3>2. Shape' /\ Handlers'
      BY <2>1, <3>1, MovesShape, MovesHandlers
    <3>3. ContextFollows'
      BY <2>1, <3>1, MovesContext DEF CallInv
    <3>4. Locks'
      BY <1>2, <2>1, <3>1, MovesLocks DEF CallInv, LockInv
    <3>5. MaskInv'
      BY <1>2, <2>1, <3>1, MovesMasks DEF CallInv, MaskInv
    <3> QED
      BY <2>2, <3>2, <3>3, <3>4, <3>5 DEF CallInv, StackInv, LockInv
  <2> QED
    BY <2>3, <2>4
<1> QED
  BY <1>1, <1>2

-----------------------------------------------------------------------------
(* The call list *)

\* Whatever runs, waits for a call or is being finished has been looked up and found.
Admitted == {app \in Apps : CheckApp(Table, app) = "ok"}

ListInv ==
    Running =>
        /\ CanBuild(AppCache, request.callList)
        /\ \A i \in 2 .. Depth :
              frames[i].pc \in {"waiting", "app", "finishing"} => frames[i].app \in Admitted

LEMMA CutAdmitted ==
    ASSUME Ready, request' = request, ListInv, NEW n, NEW pc, NEW lock, NEW t,
           Cut(n, pc, lock, t),
           n > 1 /\ pc \in {"waiting", "app", "finishing"} => frames[n].app \in Admitted
    PROVE  ListInv'
<1>1. n \in 1 .. Depth /\ Depth' = n /\ Depth \in Nat /\ Depth >= 1
  BY ContextFacts DEF Ready, Cut
<1>2. Admitted' = Admitted
  BY DEF Admitted, Table
<1>3. ASSUME NEW i \in 2 .. n, frames'[i].pc \in {"waiting", "app", "finishing"}
      PROVE  frames'[i].app \in Admitted
  <2>1. i \in 1 .. n /\ i \in 2 .. Depth /\ (i # n => i \in 1 .. n - 1)
    BY <1>1
  <2>2. frames'[i].app = frames[i].app
    BY <2>1 DEF Cut
  <2>3. CASE i = n
    <3>1. frames'[i].pc = pc /\ n > 1
      BY <1>1, <2>1, <2>3 DEF Cut
    <3> QED
      BY <1>3, <2>2, <2>3, <3>1
  <2>4. CASE i # n
    <3>1. frames'[i].pc = frames[i].pc
      BY <2>1, <2>4 DEF Cut
    <3> QED
      BY <1>3, <2>1, <2>2, <3>1 DEF ListInv, Ready
  <2> QED
    BY <2>3, <2>4
<1> QED
  BY <1>1, <1>2, <1>3 DEF ListInv, Ready

LEMMA PushAdmitted ==
    ASSUME Ready, request' = request, ListInv, NEW app \in Apps, NEW kind \in {"call", "deferred"},
           Pushed(app, kind), Top.pc \in {"start", "app", "finishing"}
    PROVE  ListInv'
<1>1. Depth \in Nat /\ Depth >= 1 /\ Depth' = Depth + 1 /\ Top = frames[Depth]
  BY ContextFacts DEF Ready, Pushed, Top
<1>2. Admitted' = Admitted
  BY DEF Admitted, Table
<1>3. Depth > 1 => Top.pc # "start"
  BY <1>1, ContextFacts DEF Ready
<1>4. ASSUME NEW i \in 2 .. Depth + 1, frames'[i].pc \in {"waiting", "app", "finishing"}
      PROVE  frames'[i].app \in Admitted
  <2>1. i # Depth + 1
    BY <1>4 DEF Pushed
  <2>2. i \in 2 .. Depth /\ i \in 1 .. Depth /\ (i # Depth => i \in 1 .. Depth - 1)
    BY <1>1, <2>1
  <2>3. frames'[i].app = frames[i].app
    BY <2>2 DEF Pushed
  <2>4. frames[i].pc \in {"waiting", "app", "finishing"}
    <3>1. CASE i = Depth
      BY <1>1, <1>3, <2>2, <3>1
    <3>2. CASE i # Depth
      <4>1. frames'[i].pc = frames[i].pc
        BY <2>2, <3>2 DEF Pushed
      <4> QED
        BY <1>4, <4>1
    <3> QED
      BY <3>1, <3>2
  <2> QED
    BY <2>2, <2>3, <2>4 DEF ListInv, Ready
<1> QED
  BY <1>1, <1>2, <1>4 DEF ListInv, Ready

LEMMA MovesAdmitted ==
    ASSUME Ready, request' = request, ListInv, Moves
    PROVE  ListInv'
<1>1. Depth \in Nat /\ Depth >= 1 /\ Top = frames[Depth]
  BY ContextFacts DEF Ready, Top
<1>2. Depth > 1 /\ Top.pc \in {"waiting", "app", "finishing"} => Top.app \in Admitted
  BY <1>1 DEF ListInv, Ready
<1>3. CASE Stays
  BY <1>1, <1>2, <1>3, CutAdmitted DEF Stays
<1>4. CASE Ticks
  <2>1. Admitted' = Admitted
    BY DEF Admitted, Table
  <2>2. Depth' = Depth /\ \A i \in 2 .. Depth :
           frames'[i].app = frames[i].app /\ frames'[i].pc = frames[i].pc
    BY <1>1, <1>4 DEF Ticks
  <2> QED
    BY <2>1, <2>2 DEF ListInv, Ready
<1>5. CASE Refuses
  <2>1. Depth > 1 => Top.pc = "app"
    BY <1>1, <1>5, ContextFacts DEF Refuses, Ready
  <2> HIDE DEF Base
  <2>2. Cut(Depth, AfterCall(Depth), Top.hasLock, Base)
    BY <1>5 DEF Refuses
  <2> QED
    BY <1>1, <1>2, <2>1, <2>2, CutAdmitted
<1>6. CASE PushesDeferred
  BY <1>6, PushAdmitted DEF PushesDeferred
<1>7. CASE Enters
  <2>1. Depth > 1 => Top.app \in Admitted
    BY <1>1, <1>7, ContextFacts DEF Enters, Exists, Admitted, Ready
  <2> HIDE DEF Base
  <2> QED
    BY <1>1, <1>7, <2>1, CutAdmitted DEF Enters
<1>8. CASE Answers
  BY <1>8, CutAdmitted DEF Answers
<1>9. CASE Fails
  <2> HIDE DEF Base
  <2> QED
    BY <1>9, CutAdmitted DEF Fails
<1>10. CASE \E held \in BOOLEAN : SetsLock(held)
  <2>1. PICK held \in BOOLEAN : SetsLock(held)
    BY <1>10
  <2> QED
    BY <1>1, <1>2, <2>1, CutAdmitted DEF SetsLock
<1>11. CASE Returns
  BY <1>1, <1>2, <1>11, CutAdmitted DEF Returns
<1>12. CASE PopsDeferred \/ PopsCall
  <2>1. Depth >= 2 /\ Depth - 1 \in 1 .. Depth - 1 /\ Top.kind \in {"call", "deferred"}
    BY <1>1, <1>12 DEF PopsDeferred, PopsCall
  <2>2. frames[Depth - 1].pc = IF frames[Depth - 1 + 1].kind = "call" THEN "waiting" ELSE "finishing"
    BY <2>1 DEF Ready, Shape
  <2>3. Depth - 1 > 1 => frames[Depth - 1].app \in Admitted
    <3>1. Depth - 1 > 1 => Depth - 1 \in 2 .. Depth
      BY <1>1
    <3> QED
      BY <2>2, <3>1 DEF ListInv, Ready
  <2>4. \E pc, lock, t : Cut(Depth - 1, pc, lock, t)
    <3>1. CASE PopsDeferred
      BY <3>1, Zenon DEF PopsDeferred
    <3>2. CASE PopsCall
      BY <3>2, Zenon DEF PopsCall
    <3> QED
      BY <1>12, <3>1, <3>2
  <2> QED
    BY <2>3, <2>4, CutAdmitted
<1>13. CASE PushesCall
  BY <1>13, PushAdmitted DEF PushesCall
<1> QED
  BY <1>3, <1>4, <1>5, <1>6, <1>7, <1>8, <1>9, <1>10, <1>11, <1>12, <1>13 DEF Moves

LEMMA ListStep ==
    ASSUME CallInv, ListInv, [Next]_vars
    PROVE  ListInv'
<1>1. CASE ~Running
  <2>1. ~Running'
    BY <1>1, NotRunning DEF vars, Running
  <2> QED
    BY <2>1 DEF ListInv
<1>2. CASE ~Running'
  BY <1>2 DEF ListInv
<1>3. CASE Running /\ Running'
  <2>1. Ready /\ request' = request
    BY <1>3, RequestKept DEF CallInv, StackInv, Ready
  <2>2. Moves
    BY <1>3, <2>1, NextMoves DEF CallInv
  <2> QED
    BY <2>1, <2>2, MovesAdmitted
<1> QED
  BY <1>1, <1>2, <1>3

-----------------------------------------------------------------------------
(* Theorems *)

\* The invariant holds in every state of every request: the stack of contexts and handlers,
\* their gas, their locks and masks, what they leave in the version lists of the heap, and
\* what was accepted.
THEOREM CallsInvariant == Spec => []CallInv
BY InitCalls, StepCalls, PTL DEF Spec

\* Every variable keeps its type (executor/Executor.h, RestrictedModifier.h): no counter of
\* gas or versions goes below zero, and every list holds what it is declared to hold.
THEOREM ExecutorTypeCorrect == Spec => []TypeInv
<1>1. CallInv => TypeInv
  BY DEF CallInv
<1> QED
  BY <1>1, CallsInvariant, PTL

\* FailureManager::nextInvocation and completeInvocation (FailureManager.cpp:30-60): callDepth
\* counts the handlers that are alive, however calls end, and stays within MAX_CALL_DEPTH.
THEOREM DepthIsCounted == Spec => []DepthCounts
<1>1. CallInv => DepthCounts
  BY DEF CallInv, StackInv, Handlers, DepthCounts
<1> QED
  BY <1>1, CallsInvariant, PTL

LEMMA HoldersCounted ==
    ASSUME Running, Shape, Locks, NEW a \in Apps
    PROVE  Cardinality({i \in DOMAIN frames : frames[i].app = a /\ frames[i].hasLock})
             = IF isLocked[a] THEN 1 ELSE 0
<1> DEFINE holders == {i \in DOMAIN frames : frames[i].app = a /\ frames[i].hasLock}
<1>1. DOMAIN frames = 1 .. Depth
  BY ContextFacts
<1>2. CASE isLocked[a]
  <2>1. PICK i \in 1 .. Depth : frames[i].hasLock /\ frames[i].app = a
    BY <1>2 DEF Locks
  <2>2. holders = {i}
    BY <1>1, <2>1 DEF Locks
  <2> HIDE DEF holders
  <2>3. Cardinality(holders) = 1
    BY <2>2, FS_Singleton
  <2> QED
    BY <1>2, <2>3 DEF holders
<1>3. CASE ~isLocked[a]
  <2>1. holders = {}
    BY <1>1, <1>3 DEF Locks
  <2> HIDE DEF holders
  <2>2. Cardinality(holders) = 0
    BY <2>1, FS_EmptySet
  <2> QED
    BY <1>3, <2>2 DEF holders
<1> QED
  BY <1>2, <1>3

\* enter_area and exit_area (invoke.cpp:28-50): whichever way contexts are left, by a return,
\* an error or the signal of a timer, an application is locked by exactly one context if it is
\* locked, and by none otherwise.
THEOREM LocksAreHeld == Spec => []LocksMatch
<1>1. CallInv => LocksMatch
  BY HoldersCounted DEF CallInv, StackInv, LockInv, LocksMatch
<1> QED
  BY <1>1, CallsInvariant, PTL

\* ~CallContext and ~CallResourceHandler (Executor.cpp:158-168, 291-292): the code of an
\* application always runs with the heap modifier loaded for that application.
THEOREM HeapFollowsContext == Spec => []ContextFollows
<1>1. CallInv => ContextFollows
  BY DEF CallInv
<1> QED
  BY <1>1, CallsInvariant, PTL

LEMMA SharedBound ==
    ASSUME NEW all \in Nat, NEW before \in Nat, NEW gas \in Nat, NEW external \in Nat,
           NEW remaining \in Nat, all - before - gas <= 3 * (external - remaining)
    PROVE  /\ all - before - gas <= 3 * external
           /\ 3 * external <= 2 * gas => all - before - gas <= 2 * gas
OBVIOUS

LEMMA GasIsShared ==
    ASSUME CallInv
    PROVE  GasShared
<1> SUFFICES ASSUME request.controlled PROVE GasShared
  BY DEF GasShared
<1> DEFINE n == Len(resources)
           h == resources[n]
<1>1. resources \in Seq(HandlerRecords) /\ n \in Nat /\ n >= 1 /\ n \in 1 .. n
      /\ granted \in Nat /\ Resources = h
  BY DEF CallInv, TypeInv, GasInv, Resources
<1>2. h \in HandlerRecords
  BY <1>1, ElementOfSeq
<1>3. h.gas \in Nat /\ h.remaining \in Nat /\ h.external \in Nat /\ h.before \in Nat
  BY <1>2 DEF HandlerRecords
<1>4. granted - h.before - h.gas <= 3 * (h.external - h.remaining)
  BY <1>1 DEF CallInv, GasInv
<1>5. granted - h.before - h.gas <= 3 * h.external
      /\ (3 * h.external <= 2 * h.gas => granted - h.before - h.gas <= 2 * h.gas)
  <2> HIDE DEF h
  <2> QED
    BY <1>1, <1>3, <1>4, SharedBound
<1>6. CASE n = 1
  <2>1. h.external = request.maxClocks
    BY <1>6 DEF CallInv, GasInv
  <2> HIDE DEF h, n
  <2>2. granted - h.before - h.gas <= 3 * request.maxClocks
    BY <1>5, <2>1
  <2> QED
    BY <1>1, <1>6, <2>2 DEF GasShared, n
<1>7. CASE n # 1
  <2>1. 3 * h.external <= 2 * h.gas
    <3>1. n > 1
      <4> HIDE DEF n
      <4> QED
        BY <1>1, <1>7
    <3> QED
      BY <1>1, <3>1 DEF CallInv, GasInv
  <2> HIDE DEF h, n
  <2>2. granted - h.before - h.gas <= 2 * h.gas
    BY <1>5, <2>1
  <2> QED
    BY <1>1, <1>7, <2>2 DEF GasShared, n
<1> QED
  BY <1>6, <1>7

\* "the total amount of externalGas would be 2 * currentGas" (Executor.cpp:255): the calls below
\* a call, for any depth and number of them, are started with at most twice its gas, and those
\* of a request with at most three times its clocks.
THEOREM GasIsBounded == Spec => []GasShared
BY GasIsShared, CallsInvariant, PTL

\* restoreVersion in the destructor of a handler (Executor.cpp:288-290) only makes an older
\* number current.  Even so, no step of a request but one shows anything of what a failed call,
\* or a call it has made, has stored.  That one is saveVersion, when it makes a number current
\* that a failed call has left in the list.
THEOREM FailedCallsLeaveNothing == Spec => FailedLeaveNoTrace
<1>1. ASSUME CallInv, [Next]_vars PROVE Revives \/ Trace' \subseteq Trace
  <2>1. CASE Running
    BY <1>1, <2>1, TraceShrinks DEF CallInv, StackInv, Ready
  <2>2. CASE ~Running
    BY <1>1, <2>2, NotRunning DEF vars, Trace, View
  <2> QED
    BY <2>1, <2>2
<1>2. CallInv /\ [Next]_vars => [Revives \/ Trace' \subseteq Trace]_vars
  BY <1>1
<1> QED
  BY <1>2, CallsInvariant, PTL DEF Spec, FailedLeaveNoTrace

\* maskSignals and the guards (invoke.cpp:79-84, Executor.cpp:170-200): while the code of an
\* application runs, its thread's timer is set and its signal is neither blocked nor deferred.
THEOREM CodeIsInterruptible == Spec => []Interruptible
<1>1. CallInv => Interruptible
  BY DEF CallInv, MaskInv, Masks, Interruptible, At, Running
<1> QED
  BY <1>1, CallsInvariant, PTL

\* verify_by_acc_once, verify_by_acc and getSigManagerFor (auth.cpp:42-89, 167-170,
\* RequestScheduler.cpp:193-219): of what verify_by_acc_once has accepted and no failure has
\* taken back, no two have the same message of an application's account or the same nonce of a
\* user; and of all that was accepted, only what is attached and verified is taken for a user's.
\* The empty message is accepted for any account at any time, and says nothing.
THEOREM MessagesAcceptedOnce == Spec => []AuthenticOnce
<1>1. ASSUME CallInv, Running PROVE AuthenticOnce
  <2>1. accepted \in [once : Seq(Marks), again : SUBSET Verified] /\ AuthInv
    BY <1>1 DEF CallInv, TypeInv
  <2> DEFINE ms == accepted.once
  <2>2. DOMAIN ms = 1 .. Len(ms) /\ \A i \in 1 .. Len(ms) : ms[i] \in Marks
    BY <2>1, LenProperties, ElementOfSeq
  <2>3. \A i, j \in DOMAIN ms : i # j =>
           LET m == ms[i]
               n == ms[j]
           IN  m.by \notin failed /\ n.by \notin failed =>
                   IF OwnedByApp(m.issuer) THEN m.index # n.index
                   ELSE m.issuer # n.issuer \/ m.text # n.text
    BY <2>1, <2>2 DEF AuthInv, Different
  <2>4. \A i \in DOMAIN ms : Authentic(ms[i], request.attached)
    BY <2>1, <2>2 DEF AuthInv, AcceptedOnce
  <2>5. \A m \in {ms[i] : i \in DOMAIN ms} \cup accepted.again : Authentic(m, request.attached)
    BY <2>1, <2>4 DEF AuthInv
  <2> QED
    BY <2>3, <2>5 DEF AuthenticOnce, Authentic
<1>2. CallInv => AuthenticOnce
  BY <1>1 DEF AuthenticOnce
<1> QED
  BY <1>2, CallsInvariant, PTL

LEMMA TableFacts ==
    ASSUME TypeInv, CanBuild(AppCache, request.callList), NEW app \in Apps
    PROVE  /\ CheckApp(Table, app) = "limit_violated" <=> app \notin Listed(request.callList)
           /\ CheckApp(Table, app) = "ok" => app \in Listed(request.callList) /\ Loads(app)
<1> DEFINE list == request.callList
           at == Find(list, app)
<1>1. app \in Int /\ list \in Seq(Int) /\ \A i, j \in DOMAIN list : i < j => list[i] < list[j]
  BY ExecutorCallsAssumption DEF TypeInv
<1>2. Ascending(list) /\ DOMAIN list = 1 .. Len(list)
  BY <1>1 DEF Ascending
<1>3. /\ at = NotFound <=> \A i \in 1 .. Len(list) : list[i] # app
      /\ at # NotFound => at \in 1 .. Len(list) /\ list[at] = app
  <2> HIDE DEF list
  <2> QED
    BY <1>1, <1>2, FindIsExact
<1>4. at = NotFound <=> app \notin Listed(list)
  BY <1>2, <1>3 DEF Listed
<1>5. Table.keys = list /\ Table.values = [i \in DOMAIN list |-> AppCache[list[i]]]
  BY DEF Table, BuildAppTable
<1>6. at # NotFound => Table.values[at] = Dispatcher(app)
  <2> SUFFICES ASSUME at # NotFound PROVE Table.values[at] = Dispatcher(app)
    OBVIOUS
  <2>1. Table.values[at] = AppCache[app] /\ app \in Listed(list)
    BY <1>2, <1>3, <1>4, <1>5
  <2>2. app \in DOMAIN AppCache
    BY <2>1 DEF CanBuild
  <2>3. AppCache = [a \in DOMAIN << >> \cup Listed(Prepared) |->
                       IF a \in DOMAIN << >> THEN << >>[a] ELSE Dispatcher(a)]
    BY DEF AppCache, PrepareApps
  <2>4. DOMAIN << >> = {}
    OBVIOUS
  <2> QED
    BY <2>1, <2>2, <2>3, <2>4
<1>7. CheckApp(Table, app) = CASE at = NotFound -> "limit_violated"
                               [] at # NotFound /\ Table.values[at] = Null -> "not_found"
                               [] at # NotFound /\ Table.values[at] # Null -> "ok"
  BY <1>5 DEF CheckApp
<1> HIDE DEF at
<1>8. CheckApp(Table, app) = "limit_violated" <=> at = NotFound
  BY <1>7
<1>9. CheckApp(Table, app) = "ok" => at # NotFound /\ Dispatcher(app) # Null
  BY <1>6, <1>7
<1>10. Dispatcher(app) # Null => Loads(app)
  BY DEF Dispatcher
<1> QED
  BY <1>4, <1>8, <1>9, <1>10

\* AppTable::checkApp over the bisection of OrderedStaticMap (AppTable.cpp:27-36,
\* OrderedStaticMap.hpp:57-66): the code of an application runs only if the request has
\* declared it and the loader has found its dispatcher, and no declared one is refused as
\* undeclared, for lists of any length.
THEOREM CallsKeepToTheList == Spec => []CallListKept
<1>1. Init => ListInv
  <2> SUFFICES ASSUME Init PROVE ListInv
    OBVIOUS
  <2>1. Running => CanBuild(AppCache, request.callList)
    BY DEF Init, Running
  <2>2. Depth = 1
    BY DEF Init, Depth
  <2> QED
    BY <2>1, <2>2 DEF ListInv
<1>2. CallInv /\ ListInv /\ [Next]_vars => ListInv'
  BY ListStep
<1>3. ASSUME CallInv, ListInv PROVE CallListKept
  <2> SUFFICES ASSUME Running PROVE CallListKept
    BY DEF CallListKept
  <2>1. TypeInv /\ CanBuild(AppCache, request.callList)
    BY <1>3 DEF CallInv, ListInv
  <2>2. \A app \in Admitted : app \in Listed(request.callList) /\ Loads(app)
    BY <2>1, TableFacts DEF Admitted
  <2>3. \A app \in Apps : CheckApp(Table, app) = "limit_violated" <=> app \notin Listed(request.callList)
    BY <2>1, TableFacts
  <2> QED
    BY <1>3, <2>2, <2>3 DEF CallListKept, ListInv
<1> QED
  BY <1>1, <1>2, <1>3, CallsInvariant, PTL DEF Spec
=============================================================================
