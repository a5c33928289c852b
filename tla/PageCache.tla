----------------------------- MODULE PageCache -----------------------------
(***************************************************************************)
(* The pages a validator keeps between blocks, and what one validation     *)
(* does with them: BlockValidator::conditionalValidate brings the pages of *)
(* the block up to date with the deltas of a PV-DB server, applies the     *)
(* proposed migrations, indexes the chunks, reserves their space, lets the *)
(* requests change them, and decides.  It may be asked for blocks it did   *)
(* not see the predecessors of, and for several with the same one.         *)
(*                                                                         *)
(* What the requests do is in other modules; here they change a chunk.     *)
(* The server is outside of the program: asked for what has changed from   *)
(* one version of a page to another, it answers with some bytes.           *)
(***************************************************************************)
EXTENDS ChunkDeltas, FiniteSets, SequencesExt

CONSTANTS PageIds,     \* identifiers of pages, as bytes
          LastBlock,   \* bound of the model: block numbers are 0 .. LastBlock
          Chains,      \* per block number and page, the page in the chain
          Delta(_, _, _), \* what the server answers for two pages, in a style of its own
          Broken(_),   \* what may arrive instead of an answer
          Proposals,   \* [readonly, writable, migrations, bounds, writes]
          MaxBlocks,   \* bound of the model: blocks that are validated
          MaxTries     \* bound of the model: answers with a wrong digest, or broken ones

EmptyPage == [native |-> << >>, migrants |-> << >>]

Versions == 0 .. LastBlock

ASSUME PageCacheAssumption ==
    /\ LastBlock \in Nat
    /\ IsFiniteSet(PageIds)
    /\ \A id \in PageIds : HasId(id, 1, Len(id)) /\ ReadId(id, 1, Len(id)).value = id
    /\ \A history \in Chains : \A id \in PageIds :
          /\ history[0][id] = EmptyPage
          /\ \A n \in 1 .. LastBlock :
                Len(history[n - 1][id].migrants) <= Len(history[n][id].migrants)
          /\ \A n, m \in Versions : \A style \in {"bytes", "span"} :
                LET answer == Delta(history[n][id], history[m][id], style)
                IN  answer \in Seq(0 .. Radix - 1) /\ Broken(answer) \in Seq(0 .. Radix - 1)
    /\ \A proposal \in Proposals :
          /\ proposal.readonly \in Seq(PageIds) /\ proposal.writable \in Seq(PageIds)
          /\ proposal.migrations \in Seq([fromIndex : Int, chunkIndex : Int, toIndex : Int])
          /\ proposal.bounds \in Seq([id : Seq(Nat), upper : Nat])
          /\ \A write \in proposal.writes : write.size \in Nat /\ write.byte \in 0 .. Radix - 1
    \* The id of a page is moved from when its native chunk is migrated.
    /\ \A proposal \in Proposals : \A i, k \in DOMAIN proposal.migrations :
          LET migrations == proposal.migrations
          IN  i < k /\ migrations[i].chunkIndex = -1 /\ migrations[k].chunkIndex = -1
                => migrations[i].fromIndex # migrations[k].fromIndex

VARIABLES chain,
          cut,       \* how the server cuts its deltas: a block per byte, or one for all
          cache,     \* pages by id: version, native chunk, migrants
          chunks,    \* the Chunk objects, in the order in which they were made
          previous,  \* number of the previous block
          block,     \* the proposal that is validated
          stage,     \* idle, preparing, updating, migrating, indexing, executing, deciding
          pending,   \* the page lists that are not prepared yet
          list,      \* pageAccessList
          pos,       \* how many of its pages are updated, or of the migrations applied
          tries,     \* history: answers with a wrong digest, or broken ones
          validated, \* history: how many blocks were begun
          index,     \* chunkIndex: chunks by id
          clean,     \* history: pages whose content came from the server's answers alone
          torn       \* history: chunks of a page on which a delta has thrown

vars == <<chain, cut, cache, chunks, previous, block, stage, pending, list, pos, tries,
          validated, index, clean, torn>>

NoBlock == [readonly |-> << >>, writable |-> << >>, migrations |-> << >>,
            bounds |-> << >>, writes |-> {}]

Init ==
    /\ chain \in Chains
    /\ cut \in {"bytes", "span"}
    /\ cache = << >>
    /\ chunks = << >>
    /\ previous = 0
    /\ block = NoBlock
    /\ stage = "idle"
    /\ pending = {}
    /\ list = << >> /\ pos = 0
    /\ tries = 0 /\ validated = 0
    /\ index = << >>
    /\ clean = [id \in PageIds |-> FALSE]
    /\ torn = {}
-----------------------------------------------------------------------------
(* Page::applyDelta *)

Migrant(id, chunk) == [id |-> id, chunk |-> chunk]

\* The body of the loop over the ids at the beginning of a delta, r.index the index of the
\* last: a new migrant for the index after the last migrant, another id for one that is taken.
PutMigrant(r, id, i) ==
    IF i = Len(r.migrants) + 1
    THEN [r EXCEPT !.migrants = Append(@, Migrant(id.value, Len(r.objects) + 1)),
                   !.objects = Append(@, NewChunk), !.at = id.next, !.index = i]
    ELSE [r EXCEPT !.migrants[i].id = id.value, !.at = id.next, !.index = i]

\* "chunk removal not implemented", an index behind the last or a wrong id throw.
NameMigrant(r, s, diff) ==
    LET next == r.index + diff.value
        Throws == \/ ~HasId(s, diff.next, Len(s))
                  \/ next # Len(r.migrants) + 1 /\ (next > Len(r.migrants) \/ s[diff.next] = 0)
    IN  IF diff.value = 0 THEN Stop(r, diff.next, "ended")
        ELSE IF Throws THEN Stop(r, diff.next, "threw")
        ELSE PutMigrant(r, ReadId(s, diff.next, Len(s)), next)

ReadMigrant(r, s) ==
    IF r.state # "reads" THEN r
    ELSE IF ~HasCode(VarUInt, s, r.at, Len(s)) THEN Stop(r, r.at, "threw")
    ELSE NameMigrant(r, s, Decode(VarUInt, s, r.at, Len(s)))

\* An id takes more than one byte.
ReadMigrants(migrants, objects, s) ==
    LET start == [migrants |-> migrants, objects |-> objects, at |-> 1, index |-> 0,
                  state |-> "reads"]
        read[k \in 0 .. Len(s)] == IF k = 0 THEN start ELSE ReadMigrant(read[k - 1], s)
    IN  read[Len(s)]

\* The loop over the chunks of a page, whose deltas follow.
ReadChunk(r, chunk, s) ==
    LET Became(read) == [objects |-> [r.objects EXCEPT ![chunk] = read.chunk],
                         at |-> read.at, threw |-> read.state = "threw"]
    IN  IF r.threw THEN r ELSE Became(ApplyDelta(r.objects[chunk], s, r.at, Len(s)))

ReadChunks(refs, objects, s, at) ==
    LET start == [objects |-> objects, at |-> at, threw |-> FALSE]
        read[k \in 0 .. Len(refs)] == IF k = 0 THEN start ELSE ReadChunk(read[k - 1], refs[k], s)
    IN  read[Len(refs)]

ChunksOf(page) == <<page.native>> \o [i \in DOMAIN page.migrants |-> page.migrants[i].chunk]

\* What a page and the chunks become, and whether it threw.
AppliedTo(page, objects, s) ==
    LET Result(named, read, threw) == [page |-> named, objects |-> read.objects, threw |-> threw]
        All(named, read) == Result(named, read, read.threw)
        Named(ids, named) ==
            IF ids.state = "threw" THEN Result(named, ids, TRUE)
            ELSE All(named, ReadChunks(ChunksOf(named), ids.objects, s, ids.at))
        WithIds(ids) == Named(ids, [page EXCEPT !.migrants = ids.migrants])
    IN  WithIds(ReadMigrants(page.migrants, objects, s))
-----------------------------------------------------------------------------
(* BlockValidator::conditionalValidate and PageCache::preparePages *)

\* The validator is asked for a block.
StartBlock ==
    /\ stage = "idle" /\ validated < MaxBlocks
    /\ previous' \in previous .. LastBlock
    /\ block' \in Proposals
    /\ stage' = "preparing"
    /\ pending' = {"readonly", "writable"}
    /\ validated' = validated + 1
    /\ UNCHANGED <<chain, cut, cache, chunks, list, pos, tries, index, clean, torn>>

\* The validator returns, or an exception leaves it: the lists and the index of the block
\* end, and rollback, if it is called, does nothing.
Left ==
    /\ stage' = "idle"
    /\ block' = NoBlock /\ pending' = {} /\ list' = << >> /\ pos' = 0 /\ index' = << >>

\* What is not in the cache gets a page with the number of the previous block.
\* The two lists are arguments of one call: their order is not specified.
PreparePages ==
    \E which \in pending :
        LET pages == IF which = "readonly" THEN block.readonly ELSE block.writable
            new == SetToSeq({pages[i] : i \in DOMAIN pages} \ DOMAIN cache)
            NewPage(k) == [version |-> previous, native |-> Len(chunks) + k, migrants |-> << >>]
            Place(id) == CHOOSE k \in DOMAIN new : new[k] = id
        IN  /\ stage = "preparing"
            /\ pending' = pending \ {which}
            /\ list' = pages
            /\ cache' = [id \in DOMAIN cache \cup {new[k] : k \in DOMAIN new} |->
                            IF id \in DOMAIN cache THEN cache[id] ELSE NewPage(Place(id))]
            /\ chunks' = chunks \o [k \in DOMAIN new |-> NewChunk]
            /\ clean' = [id \in PageIds |-> IF \E k \in DOMAIN new : new[k] = id
                                            THEN chain[previous][id] = EmptyPage ELSE clean[id]]
            /\ pos' = 0
            /\ stage' = "updating"
            /\ UNCHANGED <<chain, cut, previous, block, tries, validated, index, torn>>

Updating == stage = "updating" /\ pos < Len(list)

Current == list[pos + 1]

\* setCurrentBlock is forgotten: the loader asks for what it has.
TargetStale == cache[Current].version

\* The version that is asked for.
Target == previous

Answer == Delta(chain[cache[Current].version][Current], chain[Target][Current], cut)

VersionSet(page) == [page EXCEPT !.version = previous]

\* An empty delta changes nothing, not even the version.
SkipPage ==
    /\ Updating /\ Answer = << >>
    /\ pos' = pos + 1
    /\ UNCHANGED <<chain, cut, cache, chunks, previous, block, stage, pending, list, tries,
                   validated, index, clean, torn>>

UpdatePage ==
    /\ Updating /\ Answer # << >>
    /\ \E applied \in {AppliedTo(cache[Current], chunks, Answer)} :
          /\ ~applied.threw
          /\ cache' = [cache EXCEPT ![Current] = VersionSet(applied.page)]
          /\ chunks' = applied.objects
    /\ pos' = pos + 1
    /\ UNCHANGED <<chain, cut, previous, block, stage, pending, list, tries, validated, index,
                   clean, torn>>

\* The digest is not that of the page: the next delta is applied to what this one left.
RetryUpdate ==
    /\ Updating /\ Answer # << >>
    /\ tries < MaxTries
    /\ tries' = tries + 1
    /\ \E applied \in {AppliedTo(cache[Current], chunks, Answer)} :
          /\ ~applied.threw
          /\ cache' = [cache EXCEPT ![Current] = applied.page]
          /\ chunks' = applied.objects
    /\ clean' = [clean EXCEPT ![Current] = FALSE]
    /\ UNCHANGED <<chain, cut, previous, block, stage, pending, list, pos, validated, index,
                   torn>>

\* The delta does not fit the page, or is no delta; an exception that is not a BlockError
\* leaves the validator. What was read before is in the chunks.
UpdateFails ==
    /\ Updating
    /\ \E answer \in {Answer, Broken(Answer)} :
          /\ answer # << >>
          /\ answer # Answer => tries < MaxTries
          /\ tries' = IF answer = Answer THEN tries ELSE tries + 1
          /\ clean' = [clean EXCEPT ![Current] = @ /\ answer = Answer]
          /\ \E applied \in {AppliedTo(cache[Current], chunks, answer)} :
                /\ applied.threw
                /\ cache' = [cache EXCEPT ![Current] = applied.page]
                /\ chunks' = applied.objects
                /\ torn' = torn \cup ToSet(ChunksOf(applied.page))
    /\ Left
    /\ UNCHANGED <<chain, cut, previous, validated>>

PagesUpdated ==
    /\ stage = "updating" /\ pos = Len(list)
    /\ stage' = "migrating" /\ pos' = 0
    /\ UNCHANGED <<chain, cut, cache, chunks, previous, block, pending, list, tries,
                   validated, index, clean, torn>>

Migrating == stage = "migrating" /\ pos < Len(block.migrations)
Migration == block.migrations[pos + 1]
MigratesNative == Migration.chunkIndex = -1

\* result.at throws out_of_range, which is no BlockError.
NoSuchPage == ~({Migration.fromIndex, Migration.toIndex} \subseteq 0 .. Len(list) - 1)

From == list[Migration.fromIndex + 1]
To == list[Migration.toIndex + 1]

\* extractMigrant throws a BlockError.
NoSuchMigrant ==
    /\ ~NoSuchPage /\ ~MigratesNative
    /\ Migration.chunkIndex + 1 \notin DOMAIN cache[From].migrants

\* The chunk is taken to its new page and stays in the old one.
ExtractedKept(migrants, i) == migrants

\* The later migrants move one place down.
Extracted(migrants, i) == RemoveAt(migrants, i)

Migrate ==
    /\ Migrating /\ ~NoSuchPage /\ ~NoSuchMigrant
    /\ cache' =
        IF MigratesNative
        THEN [cache EXCEPT ![To].migrants = Append(@, Migrant(From, cache[From].native))]
        ELSE LET i == Migration.chunkIndex + 1
                 without == [cache EXCEPT ![From].migrants = Extracted(@, i)]
             IN  [without EXCEPT ![To].migrants = Append(@, cache[From].migrants[i])]
    /\ clean' = [clean EXCEPT ![From] = FALSE, ![To] = FALSE]
    /\ pos' = pos + 1
    /\ UNCHANGED <<chain, cut, chunks, previous, block, stage, pending, list, tries,
                   validated, index, torn>>

MigrationFails ==
    /\ Migrating
    /\ NoSuchPage \/ NoSuchMigrant
    /\ Left
    /\ UNCHANGED <<chain, cut, cache, chunks, previous, tries, validated, clean, torn>>

PagesPrepared ==
    /\ stage = "migrating" /\ pos = Len(block.migrations)
    /\ stage' = IF pending = {} THEN "indexing" ELSE "preparing"
    /\ UNCHANGED <<chain, cut, cache, chunks, previous, block, pending, list, pos, tries,
                   validated, index, clean, torn>>
-----------------------------------------------------------------------------
(* ChunkIndex *)

\* The chunks of a list of pages under their ids.
Entries(pages) ==
    FlattenSeq([i \in DOMAIN pages |->
        <<Migrant(pages[i], cache[pages[i]].native)>> \o cache[pages[i]].migrants])

\* The writable pages are indexed first.
IndexOrderSwapped == <<TRUE, FALSE>>

IndexOrder == <<FALSE, TRUE>>

PagesFor(writable) == IF writable THEN block.writable ELSE block.readonly

\* What setWritable leaves in a chunk: the last list that has it counts.
Flag(chunk) ==
    LET Has(writable) == \E i \in DOMAIN Entries(PagesFor(writable)) :
                            Entries(PagesFor(writable))[i].chunk = chunk
    IN  IF Has(IndexOrder[2]) THEN IndexOrder[2]
        ELSE IF Has(IndexOrder[1]) THEN IndexOrder[1]
        ELSE chunks[chunk].writable

\* emplace keeps the first chunk of an id.
Indexed ==
    LET entries == Entries(PagesFor(IndexOrder[1])) \o Entries(PagesFor(IndexOrder[2]))
        Of(id) == {i \in DOMAIN entries : entries[i].id = id}
    IN  [id \in {entries[i].id : i \in DOMAIN entries} |-> entries[Least(Of(id))].chunk]

\* The constructor of the ChunkIndex: a chunk without an entry is a BlockError, after
\* the space of the chunks before it was reserved.
BuildIndex ==
    LET missing == {b \in DOMAIN block.bounds : block.bounds[b].id \notin DOMAIN Indexed}
        reached == {b \in DOMAIN block.bounds : \A m \in missing : b < m}
        Upper(c) == {block.bounds[b].upper :
                        b \in {r \in reached : Indexed[block.bounds[r].id] = c}} \cup {0}
        Greatest(S) == CHOOSE n \in S : \A k \in S : k <= n
    IN  /\ stage = "indexing"
        /\ chunks' = [c \in DOMAIN chunks |->
                        ReserveSpace([chunks[c] EXCEPT !.writable = Flag(c)], Greatest(Upper(c)))]
        /\ \/ /\ missing = {}
              /\ index' = Indexed
              /\ stage' = "executing"
              /\ UNCHANGED <<block, pending, list, pos>>
           \/ missing # {} /\ Left
        /\ UNCHANGED <<chain, cut, cache, previous, tries, validated, clean, torn>>
-----------------------------------------------------------------------------
(* The requests *)

\* A request resizes a chunk that may be written, and writes its last byte.
Execute(write) ==
    LET c == index[write.id]
        resized == SetSize(chunks[c], write.size)
    IN  /\ stage = "executing" /\ write \in block.writes
        /\ write.id \in DOMAIN index
        /\ chunks[c].writable /\ write.size <= Capacity(chunks[c])
        /\ chunks' = [chunks EXCEPT ![c] =
                        [resized EXCEPT !.bytes = [o \in DOMAIN @ |->
                            IF o = write.size THEN write.byte ELSE @[o]]]]
        /\ clean' = [id \in PageIds |->
                        clean[id] /\ \A i \in DOMAIN ChunksOf(cache[id]) : ChunksOf(cache[id])[i] # c]
        /\ stage' = "deciding"
        /\ UNCHANGED <<chain, cut, cache, previous, block, pending, list, pos, tries,
                       validated, index, torn>>

\* The digests of the responses are compared, after commit has done nothing; or
\* buildModifier or the execution has found the block invalid, and rollback does nothing.
Decide ==
    /\ stage \in {"executing", "deciding"}
    /\ Left
    /\ UNCHANGED <<chain, cut, cache, chunks, previous, tries, validated, clean, torn>>

Next ==
    \/ StartBlock \/ PreparePages \/ SkipPage \/ UpdatePage \/ RetryUpdate
    \/ UpdateFails \/ PagesUpdated
    \/ Migrate \/ MigrationFails \/ PagesPrepared \/ BuildIndex
    \/ \E write \in block.writes : Execute(write)
    \/ Decide

Spec == Init /\ [][Next]_vars
-----------------------------------------------------------------------------
(* Properties *)

Content(chunk) == SubSeq(chunks[chunk].bytes, 1, chunks[chunk].size)

PageContent(id) ==
    [native |-> Content(cache[id].native),
     migrants |-> [i \in DOMAIN cache[id].migrants |->
                     [id |-> cache[id].migrants[i].id, bytes |-> Content(cache[id].migrants[i].chunk)]]]

\* A page that blocks have only read, and that was new when it came into the cache, is
\* the chain's page of its version: whatever blocks were skipped or validated twice,
\* however the server cuts its deltas, ids and chunks are decoded to what was encoded.
\* When the requests of a block run, the pages it only reads are those of the previous
\* block, also if the delta was empty and the version was left behind.
CleanPagesFollowChain ==
    \A id \in DOMAIN cache : clean[id] =>
        /\ PageContent(id) = chain[cache[id].version][id]
        /\ stage = "executing" /\ (\E i \in DOMAIN block.readonly : block.readonly[i] = id) =>
              PageContent(id) = chain[previous][id]

ZeroTail(chunk) ==
    \A o \in chunk.size + 1 .. Capacity(chunk) : chunk.bytes[o] = 0

\* setSize never asks for more than the capacity (Chunk.cpp:53), and behind the size a
\* chunk is zero, though the bytes were used by deltas, by requests of blocks that were
\* rejected, or before the chunk shrank. The chunks of a page on which a delta has thrown
\* are left out: what it wrote behind the old size stays (Chunk.cpp:108-118).
ZeroBehindSize ==
    \A c \in DOMAIN chunks :
        /\ chunks[c].size <= Capacity(chunks[c])
        /\ c \notin torn => ZeroTail(chunks[c])

\* A chunk may be written in a block exactly if one of the block's writable pages has
\* it (Chunk.h:87), wherever it was in the blocks before and whether or not its page is
\* also in the list of those that are read.
WritableByList ==
    stage = "executing" =>
        \A id \in DOMAIN index :
            chunks[index[id]].writable <=>
                \E i \in DOMAIN block.writable :
                    \E k \in DOMAIN ChunksOf(cache[block.writable[i]]) :
                        ChunksOf(cache[block.writable[i]])[k] = index[id]

\* "The page will take the ownership of the pointer" (Page.h:61): in whatever order the
\* migrants of the blocks are moved, the only chunks that have two places in the cache
\* are those that are the native chunk of a page, which getNative does not release.
SingleOwner ==
    \A p, q \in DOMAIN cache :
        \A i \in DOMAIN ChunksOf(cache[p]), k \in DOMAIN ChunksOf(cache[q]) :
            ChunksOf(cache[p])[i] = ChunksOf(cache[q])[k] =>
                \/ p = q /\ i = k
                \/ \E id \in DOMAIN cache : cache[id].native = ChunksOf(cache[p])[i]
=============================================================================
