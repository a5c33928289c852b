---------------------------- MODULE MCPageCache ----------------------------
(* PageCache on two pages, bytes of four values and three blocks. *)
EXTENDS PageCache, PageServer

\* Numbers 0 .. 2 have codes of one byte, 3 .. 5 of two.
MCTrie == <<3, 15>>

A == <<1, 0, 0>>
B == <<1, 0, 1>>
M == <<2, 0, 0>>
W == <<2, 3, 0, 1>> \* a chunk of an account whose code has two bytes

MCPageIds == {A, B}

Page(native, migrants) == [native |-> native, migrants |-> migrants]
Of(id, bytes) == [id |-> id, bytes |-> bytes]

History(a1, a2, b1, b2) ==
    [n \in 0 .. 2 |-> [id \in MCPageIds |->
        CASE n = 0 -> EmptyPage
          [] n = 1 -> IF id = A THEN a1 ELSE b1
          [] n = 2 -> IF id = A THEN a2 ELSE b2]]

\* One in which A grows and the only migrant of B is replaced, one in which A shrinks and
\* B gets a second migrant.
MCChains ==
    {History(Page(<<1>>, << >>), Page(<<2, 0, 1>>, <<Of(M, <<1>>)>>),
             Page(<< >>, <<Of(M, <<1, 2>>)>>), Page(<<1>>, <<Of(W, <<2>>)>>)),
     History(Page(<<2, 3, 1>>, << >>), Page(<<2>>, << >>),
             Page(<< >>, <<Of(M, <<1>>)>>), Page(<<3>>, <<Of(M, << >>), Of(W, <<0, 1>>)>>))}

Proposal(readonly, writable, migrations, bounds, writes) ==
    [readonly |-> readonly, writable |-> writable, migrations |-> migrations,
     bounds |-> bounds, writes |-> writes]
Move(from, chunk, to) == [fromIndex |-> from, chunkIndex |-> chunk, toIndex |-> to]
Bound(id, upper) == [id |-> id, upper |-> upper]
Write(id, size, byte) == [id |-> id, size |-> size, byte |-> byte]

MCProposals ==
    {Proposal(<<A, B>>, << >>, << >>, << >>, {}),
     Proposal(<<A>>, <<B>>, << >>, <<Bound(B, 3)>>, {Write(B, 2, 3)}),
     Proposal(<<A>>, <<B, A>>, << >>, <<Bound(A, 2), Bound(M, 3)>>, {Write(M, 3, 1)}),
     Proposal(<<A, B>>, <<B>>, <<Move(1, 0, 0)>>, << >>, {}),
     Proposal(<<A, B>>, <<A, B>>, <<Move(1, 0, 0), Move(0, -1, 1)>>, << >>, {Write(A, 1, 1)})}

\* The last byte is the first one of a number of two: what is before it is read.
MCBroken(answer) == IF answer = << >> THEN answer ELSE [answer EXCEPT ![Len(answer)] = 3]

\* What the proofs ask of the server, on the pages of these chains: wherever a page is, its
\* chunks in any order among others and with room behind the sizes, a delta makes it the
\* next page. A place is a chunk per native chunk and migrant, with the room it has.
Padded(bytes, room) == [size |-> Len(bytes), bytes |-> bytes \o [o \in 1 .. room |-> 0],
                        writable |-> TRUE]
Parts(page) == <<page.native>> \o [i \in DOMAIN page.migrants |-> page.migrants[i].bytes]
Places(page) ==
    LET k == Len(Parts(page))
    IN  {<<refs, room>> \in [1 .. k -> 1 .. k + 1] \X [1 .. k -> {0, 2}] :
            \A i, j \in 1 .. k : refs[i] = refs[j] => i = j}
CachedAt(page, refs) ==
    [version |-> 0,
     native |-> refs[1],
     migrants |-> [i \in DOMAIN page.migrants |-> Migrant(page.migrants[i].id, refs[i + 1])]]
ObjectsAt(page, refs, room) ==
    [c \in 1 .. Len(Parts(page)) + 1 |->
        IF \E i \in DOMAIN refs : refs[i] = c
        THEN LET i == CHOOSE i \in DOMAIN refs : refs[i] = c IN Padded(Parts(page)[i], room[i])
        ELSE Padded(<<3, 3>>, 1)]
BytesOf(c) == SubSeq(c.bytes, 1, c.size)
Says(page, objects) ==
    [native |-> BytesOf(objects[page.native]),
     migrants |-> [i \in DOMAIN page.migrants |->
        Of(page.migrants[i].id, BytesOf(objects[page.migrants[i].chunk]))]]

ASSUME ServerAnswersDeltas ==
    \A history \in MCChains, id \in MCPageIds, n \in Versions, m \in Versions :
        \A style \in {"bytes", "span"} :
            LET old == history[n][id]
                s == GetDelta(old, history[m][id], style)
            IN  n <= m =>
                IF s = << >> THEN old = history[m][id]
                ELSE \A place \in Places(old) :
                        LET a == AppliedTo(CachedAt(old, place[1]),
                                           ObjectsAt(old, place[1], place[2]), s)
                        IN  ~a.threw /\ Says(a.page, a.objects) = history[m][id]
=============================================================================
