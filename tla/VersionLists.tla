---------------------------- MODULE VersionLists ----------------------------
(***************************************************************************)
(* AccessBlock: the contents one block has had, a vector ascending by      *)
(* version.  Here, a list is a function from the numbers in it to their    *)
(* contents.  A version that is restored stays in the list until the block *)
(* is used again.                                                          *)
(***************************************************************************)
EXTENDS Integers

UpTo(list, version) == {n \in DOMAIN list : n <= version}
Newest(S) == CHOOSE n \in S : \A m \in S : m <= n

\* The content a reader of some version finds: the last entry once the later ones
\* were popped, or the memory the block was declared on.
Seen(list, version, memory) ==
    IF UpTo(list, version) = {} THEN memory ELSE list[Newest(UpTo(list, version))]

\* syncTo: the entries later than the version are popped.
SyncTo(list, version) == [n \in UpTo(list, version) |-> list[n]]

\* The list once ensureExists has added an entry, if there was none for the version.
WithLast(list, version, content) ==
    [n \in UpTo(list, version) \cup {version} |-> IF n = version THEN content ELSE list[n]]
=============================================================================
