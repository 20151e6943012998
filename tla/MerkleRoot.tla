----------------------------- MODULE MerkleRoot -----------------------------
(***************************************************************************)
(* HashUtils::calculateMerkleRoot (src/crypto/hash.cpp): level by level,   *)
(* against a definition from the root down.                                *)
(***************************************************************************)
EXTENDS Naturals, Sequences

CONSTANTS
    Leaves,    \* the strings of the list: texts, which are sequences of pieces
    MaxLeaves  \* bound: length of the list

VARIABLES
    transactions,  \* the argument
    tree           \* the level at hand

merkleVars == <<transactions, tree>>

\* SHA-256 is taken to be injective.  A hash is a text of one piece, which stands
\* for the text that was hashed.
hash(text) == <<text>>

doubleHash(text) == hash(hash(text))

\* The hash of the empty text.
EmptyRoot == hash(<<>>)

Lists == UNION {[1..n -> Leaves] : n \in 0..MaxLeaves}

Init ==
    /\ transactions \in Lists
    /\ tree = IF transactions = <<>> THEN <<EmptyRoot>> ELSE transactions

\* A hash without a partner is dropped.
NextLevelDefect ==
    /\ Len(tree) > 1
    /\ tree' = [i \in 1..(Len(tree) \div 2) |-> doubleHash(tree[2 * i - 1] \o tree[2 * i])]
    /\ UNCHANGED transactions

\* One round of the outer loop; an odd level has its last hash twice.
NextLevel ==
    /\ Len(tree) > 1
    /\ LET even == IF Len(tree) % 2 = 0 THEN tree ELSE Append(tree, tree[Len(tree)])
       IN  tree' = [i \in 1..(Len(even) \div 2) |-> doubleHash(even[2 * i - 1] \o even[2 * i])]
    /\ UNCHANGED transactions

Next == NextLevel

-----------------------------------------------------------------------------
Half(n) == (n + 1) \div 2

\* The number of nodes at height h above n leaves.
Width(n, h) ==
    LET width[k \in 0..h] == IF k = 0 THEN n ELSE Half(width[k - 1])
    IN  width[h]

\* The height at which one node is left.
Height(n) == CHOOSE h \in 0..n : Width(n, h) = 1 /\ \A k \in 0..(h - 1) : Width(n, k) > 1

\* The full binary tree over a list: a node beyond the last one of its level
\* stands for the last one.
Levels(list) ==
    LET n == Len(list)
        level[h \in 0..Height(n)] ==
          [i \in 1..(2 * n) |->
             LET j == IF i < Width(n, h) THEN i ELSE Width(n, h)
             IN  IF h = 0
                 THEN list[j]
                 ELSE doubleHash(level[h - 1][2 * j - 1] \o level[h - 1][2 * j])]
    IN  level

Root(list) ==
    IF list = <<>> THEN EmptyRoot ELSE Levels(list)[Height(Len(list))][1]

\* All texts of both lists have one length, as the hashes of transactions have.
OneLength(a, b) ==
    \A i \in DOMAIN a, j \in DOMAIN b : Len(a[i]) = Len(b[j])

\* The loop ends at the root of the tree that is drawn from the root down,
\* whatever the strings are.  Among lists of strings of one length, with trees of
\* one height, another one has that root only by what the doubling of last hashes
\* adds: the shorter list is the beginning of the longer one, whose rest repeats
\* strings of that beginning.  Strings of different lengths run together, and a
\* list may hold a hash of the level above another's.
RootTellsLists ==
    Len(tree) = 1 =>
        /\ tree[1] = Root(transactions)
        /\ transactions # <<>> =>
             \A other \in Lists :
               /\ other # <<>> /\ Len(other) <= Len(transactions)
               /\ OneLength(other, transactions)
               /\ Height(Len(other)) = Height(Len(transactions))
               /\ Root(other) = tree[1]
               => /\ \A i \in DOMAIN other : other[i] = transactions[i]
                  /\ \A i \in DOMAIN transactions : \E j \in DOMAIN other :
                       transactions[i] = other[j]
=============================================================================
