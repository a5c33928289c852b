---------------------------- MODULE PrefixCodes ----------------------------
(***************************************************************************)
(* PrefixTrie: unsigned integers and identifiers as prefix codes.  A trie  *)
(* of some height has a bound per length: a code of n bytes is one whose   *)
(* first n bytes, read as a number, are below the bound of n, and of whose *)
(* shorter prefixes none is below its own bound.  Bytes have Radix values. *)
(***************************************************************************)
EXTENDS Integers, Sequences

CONSTANTS Radix,   \* number of values of a byte
          VarUInt, \* var_uint_trie_g, for numbers: the bound of every length
          IdTrie   \* app_trie_g, account_trie_g and local_trie_g, for identifiers

ASSUME PrefixCodesAssumption ==
    /\ Radix \in Nat /\ Radix > 1
    /\ \A trie \in {VarUInt, IdTrie} :
          /\ trie \in Seq(Nat) \ {<< >>} /\ \A n \in DOMAIN trie : trie[n] \in 1 .. Radix ^ n - 1
          \* "malformed trie"
          /\ \A n \in 2 .. Len(trie) : trie[n - 1] * Radix <= trie[n]

\* The n bytes of s from a position on as a number, the first byte the highest.
Number(s, at, n) ==
    LET value[k \in 0 .. n] == IF k = 0 THEN 0 ELSE value[k - 1] * Radix + s[at + k - 1]
    IN  value[n]

\* sum: how many numbers have a code of at most n bytes.
Codes(trie, n) ==
    LET sum[k \in 1 .. n] ==
            IF k = 1 THEN trie[1] ELSE sum[k - 1] + trie[k] - trie[k - 1] * Radix
    IN  sum[n]

\* The lengths at which the bytes from a position to an end are below the bound.
Lengths(trie, s, at, end) ==
    {n \in DOMAIN trie : at + n - 1 <= end /\ Number(s, at, n) < trie[n]}

Least(S) == CHOOSE n \in S : \A k \in S : n <= k

\* readPrefixCode throws out_of_range if there is no code.
HasCode(trie, s, at, end) == Lengths(trie, s, at, end) # {}
CodeLength(trie, s, at, end) == Least(Lengths(trie, s, at, end))

\* The number whose code is the n bytes from a position on.
Value(trie, s, at, n) == Codes(trie, n) + Number(s, at, n) - trie[n]

\* decodeVarUInt: the number, and where the bytes after it begin.
Decode(trie, s, at, end) ==
    LET Of(n) == [value |-> Value(trie, s, at, n), next |-> at + n]
    IN  Of(CodeLength(trie, s, at, end))

\* writeBigEndian: a code as n bytes.
BigEndian(code, n) == [k \in 1 .. n |-> (code \div Radix ^ (n - k)) % Radix]

\* encodeVarUInt
Encode(trie, value) ==
    LET n == Least({k \in DOMAIN trie : value < Codes(trie, k)})
    IN  BigEndian(trie[n] - (Codes(trie, n) - value), n)

\* Where the code of an identifier at a position ends, 0 if there is none.
CodeEnd(s, at, end) ==
    IF at > 0 /\ HasCode(IdTrie, s, at, end) THEN at + CodeLength(IdTrie, s, at, end) ELSE 0

\* VarLenFullID reads the codes of an application, an account and a local identifier.
IdEnd(s, at, end) == CodeEnd(s, CodeEnd(s, CodeEnd(s, at, end), end), end)

HasId(s, at, end) == IdEnd(s, at, end) # 0

ReadId(s, at, end) ==
    LET Before(next) == [value |-> SubSeq(s, at, next - 1), next |-> next]
    IN  Before(IdEnd(s, at, end))
=============================================================================
