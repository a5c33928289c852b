-------------------------- MODULE HeapTransactions --------------------------
(***************************************************************************)
(* What RestrictedModifier promises the executor: the calls of a request   *)
(* are nested transactions on the blocks it declared.  There is one        *)
(* content per block; a call that fails puts back the contents it found,   *)
(* and nothing reaches the chunk before the request is finished.           *)
(***************************************************************************)
EXTENDS HeapBlocks

VARIABLES chunk,      \* size and bytes of the chunk
          resizing,   \* expandable, shrinkable, read_only or non_accessible
          sizeBound,  \* bound of the declared resizing
          view,       \* what the request sees in every block
          saved,      \* the views the open calls have found
          answer,     \* what this step has loaded, if it is a load: a block and its content
          stage       \* start, running, finished

vars == <<chunk, resizing, sizeBound, view, saved, answer, stage>>
declared == <<resizing, sizeBound>>

Init ==
    /\ view = [b \in Keys |-> Initially(chunk, b)]
    /\ saved = << >>
    /\ answer = << >>
    /\ stage = "start"

Begin ==
    /\ stage = "start" \/ saved # << >>
    /\ saved' = Append(saved, view)
    /\ stage' = "running"
    /\ answer' = << >>
    /\ UNCHANGED <<chunk, declared, view>>

Commit ==
    /\ saved # << >>
    /\ saved' = SubSeq(saved, 1, Len(saved) - 1)
    /\ answer' = << >>
    /\ UNCHANGED <<chunk, declared, view, stage>>

Abort ==
    /\ saved # << >>
    /\ view' = saved[Len(saved)]
    /\ saved' = SubSeq(saved, 1, Len(saved) - 1)
    /\ answer' = << >>
    /\ UNCHANGED <<chunk, declared, stage>>

Load(b) ==
    /\ saved # << >>
    /\ answer' = <<b, view[b]>>
    /\ UNCHANGED <<chunk, declared, view, saved, stage>>

Update(b, content) ==
    /\ saved # << >>
    /\ view' = [view EXCEPT ![b] = content]
    /\ answer' = << >>
    /\ UNCHANGED <<chunk, declared, saved, stage>>

\* An operation that is refused.
Refuse ==
    /\ saved # << >>
    /\ answer' = << >>
    /\ UNCHANGED <<chunk, declared, view, saved, stage>>

\* The size of an expandable chunk is never set below what it was initially, and
\* never beyond the declared bound; the other way round for a shrinkable one.
SizeAllowed(n) ==
    \/ resizing = "expandable" /\ n \in chunk.size .. sizeBound
    \/ resizing = "shrinkable" /\ n \in sizeBound .. chunk.size

CallStep(stores, additions) ==
    \/ Begin \/ Commit \/ Abort \/ Refuse
    \/ \E b \in Keys : Load(b)
    \/ \E b \in Blocks : b.type = "writable" /\
          \E s \in stores : Update(b, Overwrite(view[b], s.at, s.bytes))
    \/ \E b \in Blocks : b.type = "int_additive" /\
          \E x \in additions : Update(b, Plus(view[b], x))
    \/ \E n \in 0 .. Capacity : SizeAllowed(n) /\ Update(SizeBlock, n)

\* The block that a byte belongs to and may be changed in.
Owner(o) == {b \in Blocks : /\ b.type \in {"writable", "int_additive"}
                            /\ o - b.offset \in Positions(b)}

\* The chunk at the end: bytes behind its size are zero, bytes of a writable block
\* are what the request has left there, additions are added.
Persisted ==
    LET n == view[SizeBlock]
    IN  [size |-> n,
         bytes |-> [o \in DOMAIN chunk.bytes |->
            IF o >= n THEN 0
            ELSE IF Owner(o) = {} THEN chunk.bytes[o]
            ELSE LET b == CHOOSE c \in Owner(o) : TRUE
                 IN  IF b.type = "writable" THEN view[b][o - b.offset]
                     ELSE Plus(ContentAt(chunk, b), ToInt(view[b]))[o - b.offset]]]

\* What the request sees afterwards plays no part.
Finish ==
    /\ stage = "running" /\ saved = << >>
    /\ chunk' = Persisted
    /\ stage' = "finished"
    /\ answer' = << >>
    /\ UNCHANGED <<declared, saved>>
=============================================================================
