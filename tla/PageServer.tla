---------------------------- MODULE PageServer -----------------------------
(***************************************************************************)
(* A PV-DB server, which is outside of the program: a delta between two    *)
(* pages, in the format that Page and Chunk document.                      *)
(***************************************************************************)
EXTENDS ChunkDeltas, FiniteSets, SequencesExt

Bytes(s, o) == IF o <= Len(s) THEN s[o] ELSE 0

\* The blocks of a chunk's delta: one for each changed byte, or a single one.
Spans(old, new, style) ==
    LET changed == {o \in 1 .. Len(new) : Bytes(old, o) # new[o]}
        sorted == SetToSortSeq(changed, <)
    IN  IF changed = {} THEN << >>
        ELSE IF style = "bytes" THEN [k \in DOMAIN sorted |-> <<sorted[k], sorted[k]>>]
        ELSE <<<<sorted[1], sorted[Len(sorted)]>>>>

ChunkDelta(old, new, style) ==
    LET spans == Spans(old, new, style)
        Previous(k) == IF k = 1 THEN 0 ELSE spans[k - 1][2]
        Block(k) == Encode(VarUInt, spans[k][1] - Previous(k))
                    \o Encode(VarUInt, spans[k][2] - spans[k][1] + 1)
                    \o SubSeq(new, spans[k][1], spans[k][2])
    IN  Encode(VarUInt, Xor(Len(old), Len(new)))
        \o FlattenSeq([k \in DOMAIN spans |-> Block(k)]) \o Encode(VarUInt, 0)

MigrantBytes(page, i) == IF i \in DOMAIN page.migrants THEN page.migrants[i].bytes ELSE << >>

GetDelta(old, new, style) ==
    LET renamed == SetToSortSeq({i \in DOMAIN new.migrants :
                        i \notin DOMAIN old.migrants \/ old.migrants[i].id # new.migrants[i].id}, <)
        Previous(k) == IF k = 1 THEN 0 ELSE renamed[k - 1]
        Identifier(k) == Encode(VarUInt, renamed[k] - Previous(k)) \o new.migrants[renamed[k]].id
    IN  IF old = new THEN << >>
        ELSE FlattenSeq([k \in DOMAIN renamed |-> Identifier(k)]) \o Encode(VarUInt, 0)
             \o ChunkDelta(old.native, new.native, style)
             \o FlattenSeq([i \in DOMAIN new.migrants |->
                    ChunkDelta(MigrantBytes(old, i), MigrantBytes(new, i), style)])
=============================================================================
