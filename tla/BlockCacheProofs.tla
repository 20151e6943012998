-------------------------- MODULE BlockCacheProofs --------------------------
(***************************************************************************)
(* Theorems about BlockCache, for caches of any size, any blocks and any   *)
(* number of threads: the types, the bound of the capacities, the          *)
(* iterators, and that lists, maps and iterators implement LRU.            *)
(*                                                                         *)
(* The argument goes in three steps: what erase and push_front do to any   *)
(* list, map and iterators; what put and get do to them and to the entries *)
(* that LRU sees; the two caches, whose operators are instances of         *)
(* LRUCache's, and the calls of the object.                                *)
(***************************************************************************)
EXTENDS BlockCache, FiniteSetTheorems, SequenceTheorems, SequencesExt, TLAPS

\* LRUCache's InStep, as a predicate of a list and a map.
Agree(list, map) ==
    /\ \A i, j \in DOMAIN list : list[i].node = list[j].node => i = j
    /\ \A k \in DOMAIN map :
         \E i \in DOMAIN list : list[i] = [node |-> map[k].node, key |-> k]
    /\ \A i \in DOMAIN list :
         /\ list[i].key \in DOMAIN map
         /\ map[list[i].key].node = list[i].node

\* The nodes of a list whose keys are hashes.
Nodes(K) == [node : Nat, key : K]

-----------------------------------------------------------------------------
(* The two ways in which a list changes *)

\* What erase leaves.
LEMMA RemoveAtProperties ==
    ASSUME NEW S, NEW list \in Seq(S), NEW i \in DOMAIN list
    PROVE  LET rest == RemoveAt(list, i)
           IN  /\ rest \in Seq(S)
               /\ Len(rest) = Len(list) - 1
               /\ \A j \in 1..Len(list) - 1 :
                    rest[j] = IF j < i THEN list[j] ELSE list[j + 1]
<1>. DEFINE n == Len(list)
            front == SubSeq(list, 1, i - 1)
            back == SubSeq(list, i + 1, n)
<1>1. n \in Nat /\ DOMAIN list = 1..n /\ i \in 1..n /\ \A j \in 1..n : list[j] \in S
  BY LenProperties, ElementOfSeq
<1>. HIDE DEF n
<1>2. /\ front \in Seq(S) /\ Len(front) = i - 1
      /\ \A j \in 1..i - 1 : front[j] = list[j]
  <2>1. \A j \in 1..i - 1 : list[j] \in S
    BY <1>1
  <2>. QED  BY <1>1, <2>1, SubSeqProperties
<1>3. /\ back \in Seq(S) /\ Len(back) = n - i
      /\ \A j \in 1..n - i : back[j] = list[i + j]
  <2>1. \A j \in i + 1..n : list[j] \in S
    BY <1>1
  <2>2. /\ back \in Seq(S) /\ Len(back) = IF i + 1 <= n THEN n - (i + 1) + 1 ELSE 0
        /\ \A j \in 1..n - (i + 1) + 1 : back[j] = list[i + 1 + j - 1]
    BY <1>1, <2>1, SubSeqProperties
  <2>. QED  BY <1>1, <2>2
<1>. HIDE DEF front, back
<1>4. /\ front \o back \in Seq(S) /\ Len(front \o back) = n - 1
      /\ \A j \in 1..n - 1 :
           (front \o back)[j] = IF j <= i - 1 THEN front[j] ELSE back[j - (i - 1)]
  <2>1. /\ front \o back \in Seq(S) /\ Len(front \o back) = Len(front) + Len(back)
        /\ \A j \in 1..Len(front) + Len(back) :
             (front \o back)[j] = IF j <= Len(front) THEN front[j] ELSE back[j - Len(front)]
    BY <1>2, <1>3, ConcatProperties
  <2>2. Len(front) + Len(back) = n - 1
    BY <1>1, <1>2, <1>3
  <2>. QED  BY <1>2, <2>1, <2>2
<1>5. ASSUME NEW j \in 1..n - 1
      PROVE  (front \o back)[j] = IF j < i THEN list[j] ELSE list[j + 1]
  <2>1. CASE j < i
    <3>1. j <= i - 1 /\ j \in 1..i - 1
      BY <1>1, <2>1
    <3>. QED  BY <1>2, <1>4, <2>1, <3>1
  <2>2. CASE ~(j < i)
    <3>1. ~(j <= i - 1) /\ j - (i - 1) \in 1..n - i /\ i + (j - (i - 1)) = j + 1
      BY <1>1, <2>2
    <3>. QED  BY <1>3, <1>4, <2>2, <3>1
  <2>. QED  BY <2>1, <2>2
<1>6. RemoveAt(list, i) = front \o back
  BY DEF RemoveAt, front, back, n
<1>. QED  BY <1>4, <1>5, <1>6 DEF n

\* What push_front makes.
LEMMA PushProperties ==
    ASSUME NEW S, NEW list \in Seq(S), NEW e \in S
    PROVE  LET longer == <<e>> \o list
           IN  /\ longer \in Seq(S)
               /\ Len(longer) = Len(list) + 1
               /\ longer[1] = e
               /\ \A j \in 2..Len(list) + 1 : longer[j] = list[j - 1]
<1>1. <<e>> \in Seq(S) /\ Len(<<e>>) = 1 /\ <<e>>[1] = e /\ Len(list) \in Nat
  BY LenProperties
<1>. DEFINE one == <<e>>
<1>. HIDE DEF one
<1>2. /\ one \o list \in Seq(S) /\ Len(one \o list) = 1 + Len(list)
      /\ \A i \in 1..1 + Len(list) :
           (one \o list)[i] = IF i <= 1 THEN one[i] ELSE list[i - 1]
  BY <1>1, ConcatProperties DEF one
<1>. QED  BY <1>1, <1>2 DEF one

\* Erasing a node and its key keeps list and map in step.
LEMMA EraseAgrees ==
    ASSUME NEW K, NEW list \in Seq(Nodes(K)), NEW map, Agree(list, map),
           NEW i \in DOMAIN list
    PROVE  Agree(RemoveAt(list, i), [k \in DOMAIN map \ {list[i].key} |-> map[k]])
<1>. DEFINE n == Len(list)
            rest == RemoveAt(list, i)
            fewer == [k \in DOMAIN map \ {list[i].key} |-> map[k]]
            at(j) == IF j < i THEN j ELSE j + 1
<1>1. n \in Nat /\ DOMAIN list = 1..n /\ i \in 1..n
  BY LenProperties
<1>2. rest \in Seq(Nodes(K)) /\ Len(rest) = n - 1
      /\ \A j \in 1..n - 1 : rest[j] = list[at(j)]
  BY <1>1, RemoveAtProperties
<1>3. DOMAIN rest = 1..n - 1
  BY <1>2, LenProperties
<1>. HIDE DEF n, rest
<1>4. \A j \in 1..n - 1 : at(j) \in 1..n /\ at(j) # i
  BY <1>1
<1>5. \A j \in 1..n : j # i => \E l \in 1..n - 1 : at(l) = j
  <2>. SUFFICES ASSUME NEW j \in 1..n, j # i PROVE \E l \in 1..n - 1 : at(l) = j
    OBVIOUS
  <2>1. CASE j < i
    BY <1>1, <2>1
  <2>2. CASE j > i
    <3>1. j - 1 \in 1..n - 1 /\ at(j - 1) = j
      BY <1>1, <2>2
    <3>. QED  BY <3>1
  <2>. QED  BY <1>1, <2>1, <2>2
<1>6. \A j, l \in 1..n - 1 : at(j) = at(l) => j = l
  BY <1>1
<1>. HIDE DEF at
\* Different nodes have different keys, as the map holds one iterator per key.
<1>7. \A j \in 1..n : j # i => list[j].key # list[i].key
  BY <1>1 DEF Agree
<1>8. \A j, l \in DOMAIN rest : rest[j].node = rest[l].node => j = l
  BY <1>1, <1>2, <1>3, <1>4, <1>6 DEF Agree
<1>9. \A k \in DOMAIN fewer :
        \E j \in DOMAIN rest : rest[j] = [node |-> fewer[k].node, key |-> k]
  <2>. SUFFICES ASSUME NEW k \in DOMAIN map, k # list[i].key
                PROVE  \E j \in DOMAIN rest : rest[j] = [node |-> map[k].node, key |-> k]
    OBVIOUS
  <2>1. PICK j \in 1..n : list[j] = [node |-> map[k].node, key |-> k]
    BY <1>1 DEF Agree
  <2>2. j # i
    BY <2>1
  <2>3. PICK l \in 1..n - 1 : at(l) = j
    BY <1>5, <2>2
  <2>. QED  BY <1>2, <1>3, <2>1, <2>3
<1>10. \A j \in DOMAIN rest :
         rest[j].key \in DOMAIN fewer /\ fewer[rest[j].key].node = rest[j].node
  <2>. SUFFICES ASSUME NEW j \in 1..n - 1
                PROVE  rest[j].key \in DOMAIN fewer /\ fewer[rest[j].key].node = rest[j].node
    BY <1>3
  <2>1. rest[j] = list[at(j)] /\ at(j) \in 1..n /\ at(j) # i
    BY <1>2, <1>4
  <2>2. list[at(j)].key \in DOMAIN map /\ map[list[at(j)].key].node = list[at(j)].node
        /\ list[at(j)].key # list[i].key
    BY <1>1, <1>7, <2>1 DEF Agree
  <2>. QED  BY <2>1, <2>2
<1>. QED  BY <1>8, <1>9, <1>10 DEF Agree, rest

\* The map with an entry for the key of node e that points to e.
Extends(map, more, e) ==
    /\ DOMAIN more = DOMAIN map \cup {e.key}
    /\ more[e.key].node = e.node
    /\ \A x \in DOMAIN map : more[x] = map[x]

\* A node that is new to the list, for a key that is new to the map.
LEMMA PushAgrees ==
    ASSUME NEW K, NEW list \in Seq(Nodes(K)), NEW map, Agree(list, map),
           NEW e \in Nodes(K), e.key \notin DOMAIN map,
           \A i \in DOMAIN list : list[i].node # e.node,
           NEW more, Extends(map, more, e)
    PROVE  Agree(<<e>> \o list, more)
<1>. USE DEF Extends
<1>. DEFINE longer == <<e>> \o list
            len == Len(list)
<1>1. len \in Nat /\ DOMAIN list = 1..len
  BY LenProperties
<1>2. e = [node |-> e.node, key |-> e.key]
  BY DEF Nodes
<1>3. longer \in Seq(Nodes(K)) /\ Len(longer) = len + 1 /\ longer[1] = e
      /\ \A j \in 2..len + 1 : longer[j] = list[j - 1]
  BY PushProperties
<1>4. DOMAIN longer = 1..len + 1
  BY <1>3, LenProperties
<1>. HIDE DEF longer, len
<1>5. \A j \in 2..len + 1 : j - 1 \in 1..len
  BY <1>1
<1>6. \A i \in 1..len : i + 1 \in 2..len + 1 /\ (i + 1) - 1 = i
  BY <1>1
<1>7. \A j \in 1..len + 1 : j = 1 \/ j \in 2..len + 1
  BY <1>1
<1>8. \A i, j \in DOMAIN longer : longer[i].node = longer[j].node => i = j
  <2>. SUFFICES ASSUME NEW i \in 1..len + 1, NEW j \in 1..len + 1,
                       longer[i].node = longer[j].node
                PROVE  i = j
    BY <1>4
  <2>1. CASE i = 1 /\ j = 1
    BY <2>1
  <2>2. CASE i = 1 /\ j \in 2..len + 1
    BY <1>1, <1>2, <1>3, <1>5, <2>2
  <2>3. CASE j = 1 /\ i \in 2..len + 1
    BY <1>1, <1>2, <1>3, <1>5, <2>3
  <2>4. CASE i \in 2..len + 1 /\ j \in 2..len + 1
    <3>1. /\ i - 1 \in DOMAIN list /\ longer[i] = list[i - 1]
          /\ j - 1 \in DOMAIN list /\ longer[j] = list[j - 1]
      BY <1>1, <1>3, <1>5, <2>4
    <3>2. \A x, y \in DOMAIN list : list[x].node = list[y].node => x = y
      BY DEF Agree
    <3>3. i - 1 = j - 1
      BY <3>1, <3>2
    <3>. QED  BY <2>4, <3>3
  <2>. QED  BY <1>7, <2>1, <2>2, <2>3, <2>4
<1>9. \A x \in DOMAIN more :
        \E i \in DOMAIN longer : longer[i] = [node |-> more[x].node, key |-> x]
  <2>. SUFFICES ASSUME NEW x \in DOMAIN more
                PROVE  \E i \in 1..len + 1 : longer[i] = [node |-> more[x].node, key |-> x]
    BY <1>4
  <2>1. CASE x = e.key
    <3>1. 1 \in 1..len + 1
      BY <1>1
    <3>. QED  BY <1>2, <1>3, <2>1, <3>1
  <2>2. CASE x \in DOMAIN map
    <3>1. PICK i \in 1..len : list[i] = [node |-> map[x].node, key |-> x]
      BY <1>1, <2>2 DEF Agree
    <3>2. longer[i + 1] = list[i] /\ i + 1 \in 1..len + 1
      BY <1>1, <1>3, <1>6
    <3>. QED  BY <2>2, <3>1, <3>2
  <2>. QED  BY <2>1, <2>2
<1>10. \A i \in DOMAIN longer :
         longer[i].key \in DOMAIN more /\ more[longer[i].key].node = longer[i].node
  <2>. SUFFICES ASSUME NEW i \in 1..len + 1
                PROVE  longer[i].key \in DOMAIN more /\ more[longer[i].key].node = longer[i].node
    BY <1>4
  <2>1. CASE i = 1
    BY <1>2, <1>3, <2>1
  <2>2. CASE i \in 2..len + 1
    <3>1. longer[i] = list[i - 1] /\ i - 1 \in DOMAIN list
      BY <1>1, <1>3, <1>5, <2>2
    <3>. QED  BY <3>1 DEF Agree
  <2>. QED  BY <1>7, <2>1, <2>2
<1>. QED  BY <1>8, <1>9, <1>10 DEF Agree, longer

-----------------------------------------------------------------------------
(* put and get on a list and a map *)

\* LRUCache's NewNode and Position.
Fresh(list) ==
    CHOOSE n \in 1..(Len(list) + 1) : \A i \in DOMAIN list : list[i].node # n

Where(list, iterator) == CHOOSE i \in DOMAIN list : list[i].node = iterator

\* A list is shorter than the addresses that NewNode may choose from.
LEMMA FreshIsNew ==
    ASSUME NEW K, NEW list \in Seq(Nodes(K))
    PROVE  Fresh(list) \in Nat /\ \A i \in DOMAIN list : list[i].node # Fresh(list)
<1>. DEFINE len == Len(list)
<1>1. len \in Nat /\ DOMAIN list = 1..len
  BY LenProperties
<1>2. \E n \in 1..len + 1 : \A i \in DOMAIN list : list[i].node # n
  <2>. SUFFICES ASSUME \A n \in 1..len + 1 : \E i \in 1..len : list[i].node = n
                PROVE  FALSE
    BY <1>1
  <2>. DEFINE f == [n \in 1..len + 1 |-> CHOOSE i \in 1..len : list[i].node = n]
  <2>1. \A n \in 1..len + 1 : f[n] \in 1..len /\ list[f[n]].node = n
    OBVIOUS
  <2>2. f \in [1..len + 1 -> 1..len]
    BY <2>1
  <2>. DEFINE S == 1..len + 1
              T == 1..len
  <2>3. IsFiniteSet(S) /\ Cardinality(S) = len + 1
    <3>1. 1 \in Int /\ len + 1 \in Int /\ ~(1 > len + 1) /\ len + 1 - 1 + 1 = len + 1
      BY <1>1
    <3>. HIDE DEF len
    <3>2. /\ IsFiniteSet(1..len + 1)
          /\ Cardinality(1..len + 1) = IF 1 > len + 1 THEN 0 ELSE len + 1 - 1 + 1
      BY <3>1, FS_Interval
    <3>. QED  BY <3>1, <3>2
  <2>4. IsFiniteSet(T) /\ Cardinality(T) = len
    <3>1. 1 \in Int /\ len \in Int /\ (1 > len => len = 0) /\ len - 1 + 1 = len
      BY <1>1
    <3>. HIDE DEF len
    <3>2. IsFiniteSet(1..len) /\ Cardinality(1..len) = IF 1 > len THEN 0 ELSE len - 1 + 1
      BY <3>1, FS_Interval
    <3>. QED  BY <3>1, <3>2
  <2>5. Cardinality(T) < Cardinality(S) /\ f \in [S -> T]
    BY <1>1, <2>2, <2>3, <2>4
  <2>. HIDE DEF f, S, T
  <2>6. \E x, y \in S : x # y /\ f[x] = f[y]
    BY <2>3, <2>4, <2>5, FS_PigeonHole
  <2>. QED  BY <2>1, <2>6 DEF S
<1>3. Fresh(list) \in 1..len + 1 /\ \A i \in DOMAIN list : list[i].node # Fresh(list)
  BY <1>2 DEF Fresh
<1>. QED  BY <1>1, <1>3

\* The front of the list after PushFront, and the map.
Pushed(list, map, k, v, list2, map2) ==
    /\ list2 = <<[node |-> Fresh(list), key |-> k]>> \o list
    /\ map2 = [x \in DOMAIN map \cup {k} |->
                 IF x = k THEN [value |-> v, node |-> Fresh(list)] ELSE map[x]]

\* The branches of put and get, for a capacity.
PutTurns(cap, list, map, k, v, list2, map2) ==
    \/ /\ k \in DOMAIN map
       /\ Pushed(RemoveAt(list, Where(list, map[k].node)), map, k, v, list2, map2)
    \/ /\ k \notin DOMAIN map
       /\ Cardinality(DOMAIN map) >= cap
       /\ list # <<>>
       /\ Pushed(Front(list), [x \in DOMAIN map \ {Last(list).key} |-> map[x]],
                 k, v, list2, map2)
    \/ /\ k \notin DOMAIN map
       /\ Cardinality(DOMAIN map) >= cap
       /\ list = <<>>
       /\ list2 = list /\ map2 = map
    \/ /\ k \notin DOMAIN map
       /\ ~(Cardinality(DOMAIN map) >= cap)
       /\ Pushed(list, map, k, v, list2, map2)

GetTurns(list, map, k, list2, map2) ==
    \/ /\ k \in DOMAIN map
       /\ list2 = <<list[Where(list, map[k].node)]>>
                    \o RemoveAt(list, Where(list, map[k].node))
       /\ map2 = map
    \/ k \notin DOMAIN map /\ list2 = list /\ map2 = map

\* Where an iterator of the map points to.
LEMMA WhereIs ==
    ASSUME NEW K, NEW list \in Seq(Nodes(K)), NEW map, Agree(list, map),
           NEW k \in DOMAIN map
    PROVE  /\ Where(list, map[k].node) \in DOMAIN list
           /\ list[Where(list, map[k].node)] = [node |-> map[k].node, key |-> k]
<1>1. PICK i \in DOMAIN list : list[i] = [node |-> map[k].node, key |-> k]
  BY DEF Agree
<1>2. list[i].node = map[k].node
  BY <1>1
<1>3. /\ Where(list, map[k].node) \in DOMAIN list
      /\ list[Where(list, map[k].node)].node = map[k].node
  BY <1>2 DEF Where
<1>4. Where(list, map[k].node) = i
  BY <1>2, <1>3 DEF Agree
<1>. QED  BY <1>1, <1>3, <1>4

\* Pushing a new node for a key that the map has already, or not, when the list
\* is in step with the map without that key.
LEMMA PushedAgrees ==
    ASSUME NEW K, NEW list \in Seq(Nodes(K)), NEW map, NEW k \in K, NEW v,
           Agree(list, [x \in DOMAIN map \ {k} |-> map[x]]),
           NEW list2, NEW map2, Pushed(list, map, k, v, list2, map2)
    PROVE  list2 \in Seq(Nodes(K)) /\ Agree(list2, map2)
<1>. DEFINE e == [node |-> Fresh(list), key |-> k]
            others == [x \in DOMAIN map \ {k} |-> map[x]]
<1>1. e \in Nodes(K) /\ e.key \notin DOMAIN others
  BY FreshIsNew DEF Nodes
<1>2. \A i \in DOMAIN list : list[i].node # e.node
  BY FreshIsNew
<1>3. list2 = <<e>> \o list
  BY DEF Pushed
<1>4. Extends(others, map2, e)
  BY DEF Pushed, Extends
<1>5. Agree(list, others)
  OBVIOUS
<1>. HIDE DEF e, others
<1>6. list2 \in Seq(Nodes(K))
  BY <1>1, <1>3, PushProperties
<1>7. Agree(<<e>> \o list, map2)
  BY <1>1, <1>2, <1>4, <1>5, PushAgrees
<1>. QED  BY <1>3, <1>6, <1>7

\* pop_back erases the last node.
LEMMA FrontIsRest ==
    ASSUME NEW S, NEW list \in Seq(S), list # <<>>
    PROVE  Len(list) \in DOMAIN list /\ Front(list) = RemoveAt(list, Len(list))
<1>. DEFINE last == Len(list)
<1>1. last \in Nat \ {0} /\ last \in DOMAIN list
  BY EmptySeq, LenProperties
<1>2. SubSeq(list, last + 1, last) = <<>>
  BY <1>1, SubSeqEmpty
<1>3. SubSeq(list, 1, last - 1) \in Seq(S)
  <2>1. \A j \in 1..last - 1 : list[j] \in S
    BY <1>1, ElementOfSeq, LenProperties
  <2>. QED  BY <1>1, <2>1, SubSeqProperties
<1>. QED  BY <1>1, <1>2, <1>3, ConcatEmptySeq DEF Front, RemoveAt

\* put keeps list and map in step.
LEMMA PutAgrees ==
    ASSUME NEW K, NEW list \in Seq(Nodes(K)), NEW map, Agree(list, map),
           NEW k \in K, NEW v, NEW list2, NEW map2, NEW cap,
           PutTurns(cap, list, map, k, v, list2, map2)
    PROVE  list2 \in Seq(Nodes(K)) /\ Agree(list2, map2)
<1>1. ASSUME k \in DOMAIN map,
             Pushed(RemoveAt(list, Where(list, map[k].node)), map, k, v, list2, map2)
      PROVE  list2 \in Seq(Nodes(K)) /\ Agree(list2, map2)
  <2>. DEFINE i == Where(list, map[k].node)
              rest == RemoveAt(list, i)
  <2>1. i \in DOMAIN list /\ list[i].key = k
    <3>1. i \in DOMAIN list /\ list[i] = [node |-> map[k].node, key |-> k]
      BY <1>1, WhereIs
    <3>. QED  BY <3>1
  <2>. HIDE DEF i
  <2>2. rest \in Seq(Nodes(K))
    BY <2>1, RemoveAtProperties
  <2>3. Agree(rest, [x \in DOMAIN map \ {list[i].key} |-> map[x]])
    BY <2>1, EraseAgrees
  <2>4. Pushed(rest, map, k, v, list2, map2)
    BY <1>1 DEF i
  <2>. HIDE DEF rest
  <2>. QED  BY <2>1, <2>2, <2>3, <2>4, PushedAgrees
<1>2. ASSUME k \notin DOMAIN map, list # <<>>,
             Pushed(Front(list), [x \in DOMAIN map \ {Last(list).key} |-> map[x]],
                    k, v, list2, map2)
      PROVE  list2 \in Seq(Nodes(K)) /\ Agree(list2, map2)
  <2>. DEFINE last == Len(list)
              rest == RemoveAt(list, last)
              fewer == [x \in DOMAIN map \ {list[last].key} |-> map[x]]
  <2>1. last \in Nat \ {0} /\ last \in DOMAIN list
    BY <1>2, EmptySeq, LenProperties
  <2>2. rest \in Seq(Nodes(K)) /\ Agree(rest, fewer)
    BY <2>1, RemoveAtProperties, EraseAgrees
  <2>3. Front(list) = rest
    BY <1>2, FrontIsRest
  <2>4. Pushed(rest, fewer, k, v, list2, map2)
    BY <1>2, <2>3 DEF Last
  <2>5. [x \in DOMAIN fewer \ {k} |-> fewer[x]] = fewer
    BY <1>2
  <2>. HIDE DEF rest, fewer
  <2>6. Agree(rest, [x \in DOMAIN fewer \ {k} |-> fewer[x]])
    BY <2>2, <2>5
  <2>. QED  BY <2>2, <2>4, <2>6, PushedAgrees
<1>3. ASSUME k \notin DOMAIN map, Pushed(list, map, k, v, list2, map2)
      PROVE  list2 \in Seq(Nodes(K)) /\ Agree(list2, map2)
  <2>1. Agree(list, [x \in DOMAIN map \ {k} |-> map[x]])
    BY <1>3 DEF Agree
  <2>. QED  BY <1>3, <2>1, PushedAgrees
<1>. QED  BY <1>1, <1>2, <1>3 DEF PutTurns

\* So does get.
LEMMA GetAgrees ==
    ASSUME NEW K, NEW list \in Seq(Nodes(K)), NEW map, Agree(list, map),
           NEW k, NEW list2, NEW map2,
           GetTurns(list, map, k, list2, map2)
    PROVE  list2 \in Seq(Nodes(K)) /\ Agree(list2, map2)
<1>1. ASSUME k \in DOMAIN map,
             list2 = <<list[Where(list, map[k].node)]>>
                       \o RemoveAt(list, Where(list, map[k].node)),
             map2 = map
      PROVE  list2 \in Seq(Nodes(K)) /\ Agree(list2, map2)
  <2>. DEFINE i == Where(list, map[k].node)
              e == list[i]
              rest == RemoveAt(list, i)
              fewer == [x \in DOMAIN map \ {e.key} |-> map[x]]
  <2>1. i \in DOMAIN list /\ e = [node |-> map[k].node, key |-> k]
    BY <1>1, WhereIs
  <2>2. list2 = <<e>> \o rest
    BY <1>1
  <2>. HIDE DEF i
  <2>3. e \in Nodes(K)
    BY <2>1, ElementOfSeq, LenProperties
  <2>4. /\ rest \in Seq(Nodes(K)) /\ Len(rest) = Len(list) - 1
        /\ \A j \in 1..Len(list) - 1 : rest[j] = IF j < i THEN list[j] ELSE list[j + 1]
    BY <2>1, RemoveAtProperties
  <2>5. Agree(rest, fewer)
    BY <2>1, EraseAgrees
  <2>. HIDE DEF rest
  <2>6. \A j \in DOMAIN rest : rest[j].node # e.node
    <3>1. /\ Len(list) \in Nat /\ DOMAIN list = 1..Len(list)
          /\ DOMAIN rest = 1..Len(list) - 1
      BY <2>4, LenProperties
    <3>2. ASSUME NEW j \in DOMAIN rest
          PROVE  \E l \in DOMAIN list : l # i /\ rest[j] = list[l]
      <4>1. CASE j < i
        BY <2>1, <2>4, <3>1, <4>1
      <4>2. CASE ~(j < i)
        <5>1. j + 1 \in 1..Len(list) /\ j + 1 # i
          BY <2>1, <3>1, <4>2
        <5>. QED  BY <2>4, <3>1, <4>2, <5>1
      <4>. QED  BY <4>1, <4>2
    <3>. QED  BY <2>1, <3>2 DEF Agree
  <2>7. e.key \notin DOMAIN fewer /\ Extends(fewer, map, e)
    <3>1. e.key = k /\ e.node = map[k].node
      BY <2>1
    <3>. QED  BY <1>1, <3>1 DEF Extends
  <2>. HIDE DEF fewer, e
  <2>8. list2 \in Seq(Nodes(K))
    BY <2>2, <2>3, <2>4, PushProperties
  <2>9. Agree(<<e>> \o rest, map)
    BY <2>3, <2>4, <2>5, <2>6, <2>7, PushAgrees
  <2>. QED  BY <1>1, <2>2, <2>8, <2>9
<1>. QED  BY <1>1 DEF GetTurns

-----------------------------------------------------------------------------
(* What the abstract cache sees *)

\* LRUCache's Entries.
EntryOf(node, map) == [key |-> node.key, value |-> map[node.key].value]
View(list, map) == [i \in DOMAIN list |-> EntryOf(list[i], map)]

Seen(list, map, K, V) ==
    /\ list \in Seq(Nodes(K))
    /\ \A i \in DOMAIN list :
         /\ list[i].key \in DOMAIN map
         /\ map[list[i].key] \in [value : V, node : Nat]

\* The invariant of one cache.
Fits(cap, list, map, K, V) ==
    /\ cap \in Nat
    /\ list \in Seq(Nodes(K))
    /\ Agree(list, map)
    /\ \A x \in DOMAIN map : map[x] \in [value : V, node : Nat]
    /\ Len(list) <= cap

\* There are as many keys in the map as nodes in the list.
LEMMA CountAgrees ==
    ASSUME NEW K, NEW list \in Seq(Nodes(K)), NEW map, Agree(list, map)
    PROVE  Cardinality(DOMAIN map) = Len(list)
<1>. DEFINE n == Len(list)
            S == 1..n
            T == DOMAIN map
            f == [i \in S |-> list[i].key]
<1>1. n \in Nat /\ DOMAIN list = S
  BY LenProperties
<1>2. IsFiniteSet(S) /\ Cardinality(S) = n
  <2>1. 1 \in Int /\ n \in Int /\ (1 > n => n = 0) /\ n - 1 + 1 = n
    BY <1>1
  <2>. HIDE DEF n
  <2>2. IsFiniteSet(1..n) /\ Cardinality(1..n) = IF 1 > n THEN 0 ELSE n - 1 + 1
    BY <2>1, FS_Interval
  <2>. QED  BY <2>1, <2>2
<1>. HIDE DEF S, n
<1>3. f \in [S -> T]
  BY <1>1 DEF Agree
<1>4. \A i, j \in S : f[i] = f[j] => i = j
  BY <1>1 DEF Agree
<1>5. \A x \in T : \E i \in S : f[i] = x
  <2>. SUFFICES ASSUME NEW x \in T PROVE \E i \in S : f[i] = x
    OBVIOUS
  <2>1. PICK i \in S : list[i] = [node |-> map[x].node, key |-> x]
    BY <1>1 DEF Agree
  <2>. QED  BY <2>1
<1>. HIDE DEF f, T
<1>6. f \in Bijection(S, T)
  BY <1>3, <1>4, <1>5 DEF Bijection, Injection, Surjection, IsInjective
<1>7. ExistsBijection(S, T)
  BY <1>6 DEF ExistsBijection
<1>8. Cardinality(T) = Cardinality(S)
  BY <1>2, <1>7, FS_Bijection
<1>. QED  BY <1>2, <1>8 DEF T, n

Shows(view, list, map, K, V) ==
    /\ view \in Seq([key : K, value : V])
    /\ Len(view) = Len(list)
    /\ \A i \in 1..Len(list) : view[i] = EntryOf(list[i], map)

\* The entries of a list, one by one.
LEMMA ViewShape ==
    ASSUME NEW K, NEW V, NEW list, NEW map, Seen(list, map, K, V)
    PROVE  Shows(View(list, map), list, map, K, V)
<1>. DEFINE view == View(list, map)
            E == [key : K, value : V]
            n == Len(list)
<1>1. n \in Nat /\ DOMAIN list = 1..n /\ \A i \in 1..n : list[i] \in Nodes(K)
  BY ElementOfSeq, LenProperties DEF Seen
<1>2. \A i \in 1..n : view[i] = EntryOf(list[i], map)
  BY <1>1 DEF View
<1>3. ASSUME NEW i \in 1..n PROVE view[i] \in E
  <2>1. list[i].key \in K /\ map[list[i].key] \in [value : V, node : Nat]
    BY <1>1 DEF Seen, Nodes
  <2>2. EntryOf(list[i], map) \in E
    BY <2>1 DEF EntryOf
  <2>. QED  BY <1>2, <2>2
<1>4. DOMAIN view = 1..n /\ view = [i \in 1..n |-> view[i]]
  BY <1>1 DEF View
<1>. HIDE DEF view, n, E
<1>5. view \in [1..n -> E]
  BY <1>1, <1>3, <1>4
<1>6. view \in Seq(E) /\ Len(view) = n
  BY <1>1, <1>5
<1>. QED  BY <1>2, <1>6 DEF view, n, E, Shows

\* Erasing a node erases its entry and leaves the others what they were.
LEMMA ViewOfRest ==
    ASSUME NEW K, NEW V, NEW list, NEW map, Seen(list, map, K, V), NEW i \in DOMAIN list
    PROVE  /\ Seen(RemoveAt(list, i), map, K, V)
           /\ View(RemoveAt(list, i), map) = RemoveAt(View(list, map), i)
           /\ \A j \in DOMAIN RemoveAt(list, i) :
                \E l \in DOMAIN list : l # i /\ RemoveAt(list, i)[j] = list[l]
<1>. DEFINE rest == RemoveAt(list, i)
            view == View(list, map)
            less == RemoveAt(view, i)
            E == [key : K, value : V]
            n == Len(list)
<1>1. n \in Nat /\ DOMAIN list = 1..n
  BY LenProperties DEF Seen
<1>2. /\ rest \in Seq(Nodes(K)) /\ Len(rest) = n - 1
      /\ \A j \in 1..n - 1 : rest[j] = IF j < i THEN list[j] ELSE list[j + 1]
  BY RemoveAtProperties DEF Seen
<1>3. /\ view \in Seq(E) /\ Len(view) = n
      /\ \A j \in 1..n : view[j] = EntryOf(list[j], map)
  <2>1. Shows(View(list, map), list, map, K, V)
    BY ViewShape
  <2>. QED  BY <2>1 DEF Shows
<1>4. i \in DOMAIN view
  BY <1>1, <1>3, LenProperties
<1>. HIDE DEF view
<1>5. /\ less \in Seq(E) /\ Len(less) = Len(view) - 1
      /\ \A j \in 1..Len(view) - 1 : less[j] = IF j < i THEN view[j] ELSE view[j + 1]
  BY <1>3, <1>4, RemoveAtProperties
<1>6. DOMAIN rest = 1..n - 1
  BY <1>2, LenProperties
<1>. HIDE DEF rest, less, n, E
<1>7. ASSUME NEW j \in 1..n - 1
      PROVE  \E l \in 1..n : l # i /\ rest[j] = list[l] /\ less[j] = view[l]
  <2>1. CASE j < i
    <3>1. j \in 1..n /\ j # i
      BY <1>1, <2>1
    <3>. QED  BY <1>2, <1>3, <1>5, <2>1, <3>1
  <2>2. CASE ~(j < i)
    <3>1. j + 1 \in 1..n /\ j + 1 # i
      BY <1>1, <2>2
    <3>. QED  BY <1>2, <1>3, <1>5, <2>2, <3>1
  <2>. QED  BY <2>1, <2>2
<1>8. Seen(rest, map, K, V)
  BY <1>1, <1>2, <1>6, <1>7 DEF Seen
<1>9. /\ View(rest, map) \in Seq(E) /\ Len(View(rest, map)) = n - 1
      /\ \A j \in 1..n - 1 : View(rest, map)[j] = EntryOf(rest[j], map)
  <2>1. Shows(View(rest, map), rest, map, K, V)
    BY <1>8, ViewShape
  <2>. QED  BY <1>2, <2>1 DEF E, Shows
<1>10. ASSUME NEW j \in 1..n - 1 PROVE View(rest, map)[j] = less[j]
  <2>1. PICK l \in 1..n : l # i /\ rest[j] = list[l] /\ less[j] = view[l]
    BY <1>7
  <2>. QED  BY <1>3, <1>9, <2>1
<1>11. View(rest, map) = less
  BY <1>3, <1>5, <1>9, <1>10, SeqEqual
<1>12. \A j \in DOMAIN rest : \E l \in DOMAIN list : l # i /\ rest[j] = list[l]
  BY <1>1, <1>6, <1>7
<1>. QED  BY <1>8, <1>11, <1>12 DEF rest, less, view

\* The map has a value for a key.
Holds(map, x, V) == x \in DOMAIN map /\ map[x] \in [value : V, node : Nat]

AllHeld(map, V) == \A x \in DOMAIN map : map[x] \in [value : V, node : Nat]

\* What map2 has for the keys of a list is what map has.
Keeps(list, map, map2) ==
    \A i \in DOMAIN list :
        list[i].key \in DOMAIN map2 /\ map2[list[i].key] = map[list[i].key]

\* The value of the new node may be a new one.
LEMMA ViewOfPush ==
    ASSUME NEW K, NEW V, NEW list, NEW map, Seen(list, map, K, V),
           NEW e \in Nodes(K), NEW map2,
           Holds(map2, e.key, V),
           Keeps(list, map, map2)
    PROVE  View(<<e>> \o list, map2) = <<EntryOf(e, map2)>> \o View(list, map)
<1>. DEFINE longer == <<e>> \o list
            view == View(list, map)
            first == EntryOf(e, map2)
            more == <<first>> \o view
            E == [key : K, value : V]
            n == Len(list)
<1>1. n \in Nat /\ DOMAIN list = 1..n
  BY LenProperties DEF Seen
<1>2. /\ longer \in Seq(Nodes(K)) /\ Len(longer) = n + 1 /\ longer[1] = e
      /\ \A j \in 2..n + 1 : longer[j] = list[j - 1]
  BY PushProperties DEF Seen
<1>3. /\ view \in Seq(E) /\ Len(view) = n
      /\ \A j \in 1..n : view[j] = EntryOf(list[j], map)
  <2>1. Shows(View(list, map), list, map, K, V)
    BY ViewShape
  <2>. QED  BY <2>1 DEF Shows
<1>4. first \in E
  BY DEF Nodes, EntryOf, Holds
<1>. HIDE DEF view, first
<1>5. /\ more \in Seq(E) /\ Len(more) = Len(view) + 1 /\ more[1] = first
      /\ \A j \in 2..Len(view) + 1 : more[j] = view[j - 1]
  BY <1>3, <1>4, PushProperties
<1>6. DOMAIN longer = 1..n + 1
  BY <1>2, LenProperties
<1>. HIDE DEF longer, more, n, E
<1>7. ASSUME NEW j \in 1..n + 1 PROVE j = 1 \/ (j \in 2..n + 1 /\ j - 1 \in 1..n)
  BY <1>1
<1>8. Seen(longer, map2, K, V)
  <2>1. ASSUME NEW j \in 1..n + 1
        PROVE  /\ longer[j].key \in DOMAIN map2
               /\ map2[longer[j].key] \in [value : V, node : Nat]
    <3>1. CASE j = 1
      BY <1>2, <3>1 DEF Holds
    <3>2. CASE j \in 2..n + 1 /\ j - 1 \in 1..n
      <4>1. longer[j] = list[j - 1] /\ j - 1 \in DOMAIN list
        BY <1>1, <1>2, <3>2
      <4>. QED  BY <4>1 DEF Seen, Keeps, Keeps
    <3>. QED  BY <1>7, <3>1, <3>2
  <2>. QED  BY <1>2, <1>6, <2>1 DEF Seen
<1>9. /\ View(longer, map2) \in Seq(E) /\ Len(View(longer, map2)) = n + 1
      /\ \A j \in 1..n + 1 : View(longer, map2)[j] = EntryOf(longer[j], map2)
  <2>1. Shows(View(longer, map2), longer, map2, K, V)
    BY <1>8, ViewShape
  <2>. QED  BY <1>2, <2>1 DEF E, Shows
<1>10. ASSUME NEW j \in 1..n + 1 PROVE View(longer, map2)[j] = more[j]
  <2>1. CASE j = 1
    BY <1>2, <1>5, <1>9, <2>1 DEF first
  <2>2. CASE j \in 2..n + 1 /\ j - 1 \in 1..n
    <3>1. longer[j] = list[j - 1] /\ j - 1 \in DOMAIN list
      BY <1>1, <1>2, <2>2
    <3>2. more[j] = EntryOf(list[j - 1], map)
      BY <1>3, <1>5, <2>2
    <3>3. EntryOf(list[j - 1], map2) = EntryOf(list[j - 1], map)
      BY <3>1 DEF EntryOf, Keeps
    <3>. QED  BY <1>9, <3>1, <3>2, <3>3
  <2>. QED  BY <1>7, <2>1, <2>2
<1>11. View(longer, map2) = more
  BY <1>3, <1>5, <1>9, <1>10, SeqEqual
<1>. QED  BY <1>11 DEF longer, more, first, view

-----------------------------------------------------------------------------
(* put and get as the abstract cache sees them *)

\* The answers of LRU's Overwrite and Insert, and of its Miss, which is what a put
\* amounts to that overruns an empty list.
Lacks(entries, k) == \A i \in DOMAIN entries : entries[i].key # k

SeenPut(cap, entries, k, v, entries2) ==
    \/ \E i \in DOMAIN entries :
         /\ entries[i].key = k
         /\ entries2 = <<[key |-> k, value |-> v]>> \o RemoveAt(entries, i)
    \/ /\ cap > 0
       /\ Lacks(entries, k)
       /\ entries2 = <<[key |-> k, value |-> v]>>
                       \o (IF Len(entries) < cap THEN entries ELSE Front(entries))
    \/ cap = 0 /\ Lacks(entries, k) /\ entries2 = entries

SeenGet(entries, map, k, entries2) ==
    \/ \E i \in DOMAIN entries :
         /\ k \in DOMAIN map
         /\ map[k].value = entries[i].value
         /\ entries2 = <<entries[i]>> \o RemoveAt(entries, i)
    \/ k \notin DOMAIN map /\ Lacks(entries, k) /\ entries2 = entries

\* What a cache that fits shows of itself.
LEMMA FitsSeen ==
    ASSUME NEW K, NEW V, NEW cap, NEW list, NEW map, Fits(cap, list, map, K, V)
    PROVE  /\ Seen(list, map, K, V)
           /\ DOMAIN View(list, map) = DOMAIN list
           /\ \A i \in DOMAIN list : View(list, map)[i] = EntryOf(list[i], map)
           /\ \A i, j \in DOMAIN list : list[i].key = list[j].key => i = j
<1>1. Seen(list, map, K, V)
  BY DEF Fits, Seen, Agree
<1>2. \A i, j \in DOMAIN list : list[i].key = list[j].key => i = j
  BY DEF Fits, Agree
<1>. QED  BY <1>1, <1>2 DEF View

\* The abstract cache has an entry for exactly the keys of the map.
LEMMA LacksSame ==
    ASSUME NEW K, NEW V, NEW cap, NEW list, NEW map, Fits(cap, list, map, K, V),
           NEW k, k \notin DOMAIN map
    PROVE  Lacks(View(list, map), k)
<1>1. \A i \in DOMAIN list : EntryOf(list[i], map).key # k
  BY FitsSeen DEF Seen, EntryOf
<1>2. /\ DOMAIN View(list, map) = DOMAIN list
      /\ \A i \in DOMAIN list : View(list, map)[i] = EntryOf(list[i], map)
  BY FitsSeen
<1>. QED  BY <1>1, <1>2 DEF Lacks

\* A new node in front of nodes that the map has already, with other keys.
LEMMA PushedSeen ==
    ASSUME NEW K, NEW V, NEW list, NEW map, Seen(list, map, K, V),
           NEW k \in K, NEW v \in V, NEW fewer, NEW list2, NEW map2,
           Pushed(list, fewer, k, v, list2, map2),
           \A i \in DOMAIN list : list[i].key # k,
           Keeps(list, map, fewer),
           AllHeld(fewer, V)
    PROVE  /\ View(list2, map2) = <<[key |-> k, value |-> v]>> \o View(list, map)
           /\ AllHeld(map2, V)
           /\ Len(list2) = Len(list) + 1
<1>. DEFINE e == [node |-> Fresh(list), key |-> k]
<1>1. list \in Seq(Nodes(K)) /\ Fresh(list) \in Nat
  BY FreshIsNew DEF Seen
<1>2. e \in Nodes(K)
  BY <1>1 DEF Nodes
<1>3. list2 = <<e>> \o list
  BY DEF Pushed
<1>4. map2 = [x \in DOMAIN fewer \cup {k} |->
                IF x = k THEN [value |-> v, node |-> Fresh(list)] ELSE fewer[x]]
  BY DEF Pushed
<1>5. e.key = k /\ k \in DOMAIN map2 /\ map2[k] = [value |-> v, node |-> Fresh(list)]
  BY <1>4
<1>6. \A x \in DOMAIN fewer : x # k => x \in DOMAIN map2 /\ map2[x] = fewer[x]
  BY <1>4
<1>7. \A x \in DOMAIN map2 : x = k \/ x \in DOMAIN fewer
  BY <1>4
<1>. HIDE DEF e
<1>8. Holds(map2, e.key, V)
  BY <1>1, <1>5 DEF Holds
<1>9. Keeps(list, map, map2)
  BY <1>6 DEF Keeps
<1>10. View(<<e>> \o list, map2) = <<EntryOf(e, map2)>> \o View(list, map)
  BY <1>2, <1>8, <1>9, ViewOfPush
<1>11. EntryOf(e, map2) = [key |-> k, value |-> v]
  BY <1>5 DEF EntryOf
<1>12. AllHeld(map2, V)
  BY <1>5, <1>6, <1>7, <1>8 DEF Holds, AllHeld
<1>13. Len(<<e>> \o list) = Len(list) + 1
  BY <1>1, <1>2, PushProperties
<1>. QED  BY <1>3, <1>10, <1>11, <1>12, <1>13

\* put keeps types, agreement and capacity, and is seen as a put.
LEMMA PutFits ==
    ASSUME NEW K, NEW V, NEW cap, NEW list, NEW map, Fits(cap, list, map, K, V),
           NEW k \in K, NEW v \in V, NEW list2, NEW map2,
           PutTurns(cap, list, map, k, v, list2, map2)
    PROVE  /\ Fits(cap, list2, map2, K, V)
           /\ SeenPut(cap, View(list, map), k, v, View(list2, map2))
<1>. DEFINE view == View(list, map)
            n == Len(list)
<1>1. /\ list \in Seq(Nodes(K)) /\ Agree(list, map) /\ cap \in Nat /\ n \in Nat
      /\ n <= cap /\ DOMAIN list = 1..n
      /\ AllHeld(map, V)
  BY LenProperties DEF Fits, AllHeld
<1>2. list2 \in Seq(Nodes(K)) /\ Agree(list2, map2)
  BY <1>1, PutAgrees
<1>3. Cardinality(DOMAIN map) = n
  BY <1>1, CountAgrees
<1>4. /\ Seen(list, map, K, V)
      /\ DOMAIN view = DOMAIN list
      /\ \A i \in DOMAIN list : view[i] = EntryOf(list[i], map)
      /\ \A i, j \in DOMAIN list : list[i].key = list[j].key => i = j
  BY FitsSeen
<1>5. view \in Seq([key : K, value : V]) /\ Len(view) = n
  <2>1. Shows(View(list, map), list, map, K, V)
    BY <1>4, ViewShape
  <2>. QED  BY <2>1 DEF Shows
<1>. HIDE DEF view, n
<1>6. CASE k \in DOMAIN map
           /\ Pushed(RemoveAt(list, Where(list, map[k].node)), map, k, v, list2, map2)
  <2>. DEFINE i == Where(list, map[k].node)
              rest == RemoveAt(list, i)
  <2>1. i \in DOMAIN list /\ list[i] = [node |-> map[k].node, key |-> k]
    BY <1>1, <1>6, WhereIs
  <2>2. Pushed(rest, map, k, v, list2, map2)
    BY <1>6
  <2>. HIDE DEF i
  <2>3. /\ Seen(rest, map, K, V)
        /\ View(rest, map) = RemoveAt(view, i)
        /\ \A j \in DOMAIN rest : \E l \in DOMAIN list : l # i /\ rest[j] = list[l]
    BY <1>4, <2>1, ViewOfRest DEF view
  <2>4. Len(rest) = n - 1
    BY <1>1, <2>1, RemoveAtProperties DEF n
  <2>. HIDE DEF rest
  <2>5. \A j \in DOMAIN rest : rest[j].key # k /\ rest[j].key \in DOMAIN map
    <3>1. list[i].key = k
      BY <2>1
    <3>. QED  BY <1>4, <2>1, <2>3, <3>1 DEF Seen
  <2>6. Keeps(rest, map, map)
    BY <2>5 DEF Keeps
  <2>7. /\ View(list2, map2) = <<[key |-> k, value |-> v]>> \o View(rest, map)
        /\ AllHeld(map2, V)
        /\ Len(list2) = Len(rest) + 1
    BY <1>1, <2>2, <2>3, <2>5, <2>6, PushedSeen
  <2>8. i \in DOMAIN view /\ view[i].key = k
    BY <1>4, <2>1 DEF EntryOf
  <2>9. SeenPut(cap, view, k, v, View(list2, map2))
    BY <2>3, <2>7, <2>8 DEF SeenPut
  <2>10. Len(list2) <= cap
    BY <1>1, <2>4, <2>7
  <2>. QED  BY <1>1, <1>2, <2>7, <2>9, <2>10 DEF Fits, AllHeld, view
<1>7. CASE /\ k \notin DOMAIN map
           /\ Cardinality(DOMAIN map) >= cap
           /\ list # <<>>
           /\ Pushed(Front(list), [x \in DOMAIN map \ {Last(list).key} |-> map[x]],
                     k, v, list2, map2)
  <2>. DEFINE rest == RemoveAt(list, n)
              fewer == [x \in DOMAIN map \ {list[n].key} |-> map[x]]
  <2>1. n \in DOMAIN list /\ Front(list) = rest
    BY <1>1, <1>7, FrontIsRest DEF n
  <2>2. Pushed(rest, fewer, k, v, list2, map2)
    BY <1>7, <2>1 DEF Last, n
  <2>3. /\ Seen(rest, map, K, V)
        /\ View(rest, map) = RemoveAt(view, n)
        /\ \A j \in DOMAIN rest : \E l \in DOMAIN list : l # n /\ rest[j] = list[l]
    BY <1>4, <2>1, ViewOfRest DEF view
  <2>4. Len(rest) = n - 1
    BY <1>1, <2>1, RemoveAtProperties DEF n
  <2>5. \A x \in DOMAIN map : x # list[n].key => x \in DOMAIN fewer /\ fewer[x] = map[x]
    OBVIOUS
  <2>6. AllHeld(fewer, V)
    BY <1>1 DEF AllHeld
  <2>. HIDE DEF rest, fewer
  <2>7. ASSUME NEW j \in DOMAIN rest
        PROVE  /\ rest[j].key # k
               /\ rest[j].key \in DOMAIN fewer
               /\ fewer[rest[j].key] = map[rest[j].key]
    <3>1. PICK l \in DOMAIN list : l # n /\ rest[j] = list[l]
      BY <2>3
    <3>2. list[l].key \in DOMAIN map /\ list[l].key # list[n].key
      BY <1>4, <2>1, <3>1 DEF Seen
    <3>. QED  BY <1>7, <2>5, <3>1, <3>2
  <2>8. /\ View(list2, map2) = <<[key |-> k, value |-> v]>> \o View(rest, map)
        /\ AllHeld(map2, V)
        /\ Len(list2) = Len(rest) + 1
    <3>1. Keeps(rest, map, fewer)
      BY <2>7 DEF Keeps
    <3>. QED  BY <2>2, <2>3, <2>6, <2>7, <3>1, PushedSeen
  <2>9. view # <<>> /\ Front(view) = RemoveAt(view, n)
    <3>1. view # <<>>
      BY <1>1, <1>4, <2>1
    <3>. QED  BY <1>5, <3>1, FrontIsRest
  <2>10. ~(Len(view) < cap) /\ cap > 0
    BY <1>1, <1>3, <1>5, <1>7, <2>1
  <2>11. Lacks(view, k)
    BY <1>7, LacksSame DEF view
  <2>12. SeenPut(cap, view, k, v, View(list2, map2))
    BY <2>3, <2>8, <2>9, <2>10, <2>11 DEF SeenPut
  <2>13. Len(list2) <= cap
    BY <1>1, <2>4, <2>8
  <2>. QED  BY <1>1, <1>2, <2>8, <2>12, <2>13 DEF Fits, AllHeld, view
<1>8. CASE /\ k \notin DOMAIN map
           /\ Cardinality(DOMAIN map) >= cap
           /\ list = <<>>
           /\ list2 = list /\ map2 = map
  <2>1. Lacks(view, k)
    BY <1>8, LacksSame DEF view
  <2>2. cap = 0
    BY <1>1, <1>3, <1>8, EmptySeq DEF n
  <2>. QED  BY <1>8, <2>1, <2>2 DEF SeenPut, view
<1>9. CASE /\ k \notin DOMAIN map
           /\ ~(Cardinality(DOMAIN map) >= cap)
           /\ Pushed(list, map, k, v, list2, map2)
  <2>1. \A j \in DOMAIN list : list[j].key # k /\ list[j].key \in DOMAIN map
    BY <1>4, <1>9 DEF Seen
  <2>2. /\ View(list2, map2) = <<[key |-> k, value |-> v]>> \o View(list, map)
        /\ AllHeld(map2, V)
        /\ Len(list2) = Len(list) + 1
    <3>1. Keeps(list, map, map)
      BY <2>1 DEF Keeps
    <3>. QED  BY <1>1, <1>4, <1>9, <2>1, <3>1, PushedSeen
  <2>3. Len(view) < cap /\ cap > 0 /\ n + 1 <= cap
    BY <1>1, <1>3, <1>5, <1>9
  <2>4. Lacks(view, k)
    BY <1>9, LacksSame DEF view
  <2>5. SeenPut(cap, view, k, v, View(list2, map2))
    BY <2>2, <2>3, <2>4 DEF SeenPut, view
  <2>6. Len(list2) <= cap
    BY <2>2, <2>3 DEF n
  <2>. QED  BY <1>1, <1>2, <2>2, <2>5, <2>6 DEF Fits, AllHeld, view
<1>. QED  BY <1>6, <1>7, <1>8, <1>9 DEF PutTurns

\* get keeps them too, and is seen as a lookup.
LEMMA GetFits ==
    ASSUME NEW K, NEW V, NEW cap, NEW list, NEW map, Fits(cap, list, map, K, V),
           NEW k, NEW list2, NEW map2,
           GetTurns(list, map, k, list2, map2)
    PROVE  /\ Fits(cap, list2, map2, K, V)
           /\ SeenGet(View(list, map), map, k, View(list2, map2))
<1>. DEFINE view == View(list, map)
            n == Len(list)
<1>1. /\ list \in Seq(Nodes(K)) /\ Agree(list, map) /\ cap \in Nat /\ n \in Nat
      /\ n <= cap /\ DOMAIN list = 1..n
      /\ AllHeld(map, V)
  BY LenProperties DEF Fits, AllHeld
<1>2. list2 \in Seq(Nodes(K)) /\ Agree(list2, map2)
  BY <1>1, GetAgrees
<1>3. /\ Seen(list, map, K, V)
      /\ DOMAIN view = DOMAIN list
      /\ \A i \in DOMAIN list : view[i] = EntryOf(list[i], map)
  BY FitsSeen
<1>. HIDE DEF view, n
<1>4. CASE /\ k \in DOMAIN map
           /\ list2 = <<list[Where(list, map[k].node)]>>
                        \o RemoveAt(list, Where(list, map[k].node))
           /\ map2 = map
  <2>. DEFINE i == Where(list, map[k].node)
              rest == RemoveAt(list, i)
              e == list[i]
  <2>1. i \in DOMAIN list /\ e = [node |-> map[k].node, key |-> k]
    BY <1>1, <1>4, WhereIs
  <2>2. list2 = <<e>> \o rest /\ map2 = map
    BY <1>4
  <2>. HIDE DEF i
  <2>3. /\ Seen(rest, map, K, V)
        /\ View(rest, map) = RemoveAt(view, i)
    BY <1>3, <2>1, ViewOfRest DEF view
  <2>4. Len(rest) = n - 1 /\ rest \in Seq(Nodes(K))
    BY <1>1, <2>1, RemoveAtProperties DEF n
  <2>5. e \in Nodes(K) /\ Holds(map, e.key, V)
    <3>1. e \in Nodes(K)
      BY <1>1, <2>1, ElementOfSeq DEF n
    <3>. QED  BY <1>3, <2>1, <3>1 DEF Seen, Holds
  <2>6. view[i] = EntryOf(e, map) /\ i \in DOMAIN view
    BY <1>3, <2>1
  <2>7. EntryOf(e, map).value = map[k].value
    BY <2>1 DEF EntryOf
  <2>. HIDE DEF rest, e
  <2>8. View(<<e>> \o rest, map) = <<EntryOf(e, map)>> \o View(rest, map)
    <3>1. Keeps(rest, map, map)
      BY <2>3 DEF Seen, Keeps
    <3>. QED  BY <2>3, <2>5, <3>1, ViewOfPush
  <2>9. View(list2, map2) = <<view[i]>> \o RemoveAt(view, i)
    BY <2>2, <2>3, <2>6, <2>8
  <2>10. SeenGet(view, map, k, View(list2, map2))
    BY <1>4, <2>6, <2>7, <2>9 DEF SeenGet
  <2>11. Len(list2) <= cap
    <3>1. Len(<<e>> \o rest) = Len(rest) + 1
      BY <2>4, <2>5, PushProperties
    <3>. QED  BY <1>1, <2>2, <2>4, <3>1
  <2>. QED  BY <1>1, <1>2, <1>4, <2>10, <2>11 DEF Fits, AllHeld, view
<1>5. CASE k \notin DOMAIN map /\ list2 = list /\ map2 = map
  <2>1. Lacks(view, k)
    BY <1>5, LacksSame DEF view
  <2>. QED  BY <1>5, <2>1 DEF SeenGet, view
<1>. QED  BY <1>4, <1>5 DEF GetTurns

\* The keys of the map are those of the list, hence hashes.
LEMMA MapKeys ==
    ASSUME NEW K, NEW V, NEW cap, NEW list, NEW map, Fits(cap, list, map, K, V)
    PROVE  DOMAIN map \subseteq K
<1>. SUFFICES ASSUME NEW x \in DOMAIN map PROVE x \in K
  OBVIOUS
<1>1. PICK i \in DOMAIN list : list[i] = [node |-> map[x].node, key |-> x]
  BY DEF Fits, Agree
<1>2. list[i] \in Nodes(K)
  BY ElementOfSeq, LenProperties DEF Fits
<1>. QED  BY <1>1, <1>2 DEF Nodes

-----------------------------------------------------------------------------
(* The invariants of the two caches *)

BlockInv ==
    /\ Fits(blockCapacity, blockList, blockMap, BlockHashes, CachedBlocks)
    /\ blockAnswer \subseteq CachedBlocks

TransactionInv ==
    /\ Fits(txCapacity, txList, txMap, TransactionHashes, Transactions)
    /\ txAnswer \subseteq Transactions

-----------------------------------------------------------------------------
(* blockCache: its operators are the ones above *)

\* What this instance's operators are.
LEMMA BlockOperators ==
    /\ \A list : blockCache!NewNode(list) = Fresh(list)
    /\ \A iterator : blockCache!Position(iterator) = Where(blockList, iterator)
    /\ \A list, i : blockCache!RemoveAt(list, i) = RemoveAt(list, i)
    /\ \A list : blockCache!Front(list) = Front(list)
                /\ blockCache!Last(list) = Last(list)
    /\ \A list, i : BL!RemoveAt(list, i) = RemoveAt(list, i)
    /\ \A list : BL!Front(list) = Front(list)
    /\ blockCache!Entries = View(blockList, blockMap)
    /\ blockCache!Entries' = View(blockList', blockMap')
    /\ blockCache!Full <=> Cardinality(DOMAIN blockMap) >= blockCapacity
<1>1. \A list : blockCache!NewNode(list) = Fresh(list)
  BY DEF blockCache!NewNode, Fresh
<1>2. \A iterator : blockCache!Position(iterator) = Where(blockList, iterator)
  BY DEF blockCache!Position, Where
<1>3. \A list, i : blockCache!RemoveAt(list, i) = RemoveAt(list, i)
                   /\ BL!RemoveAt(list, i) = RemoveAt(list, i)
  BY DEF blockCache!RemoveAt, BL!RemoveAt, RemoveAt
<1>4. \A list : blockCache!Front(list) = Front(list) /\ blockCache!Last(list) = Last(list)
                /\ BL!Front(list) = Front(list)
  BY DEF blockCache!Front, BL!Front, Front, blockCache!Last, Last
<1>5. blockCache!Entries = View(blockList, blockMap)
  BY DEF blockCache!Entries, View, EntryOf
<1>6. blockCache!Entries' = View(blockList', blockMap')
  BY DEF blockCache!Entries, View, EntryOf
<1>7. blockCache!Full <=> Cardinality(DOMAIN blockMap) >= blockCapacity
  BY DEF blockCache!Full, blockCache!Cardinality, Cardinality
<1>. QED  BY <1>1, <1>2, <1>3, <1>4, <1>5, <1>6, <1>7

\* put of this cache is PutTurns.
LEMMA BlockPut ==
    ASSUME NEW k, NEW v, blockCache!Put(k, v)
    PROVE  /\ PutTurns(blockCapacity, blockList, blockMap, k, v, blockList', blockMap')
           /\ blockAnswer' = {} /\ blockCapacity' = blockCapacity
<1>1. ASSUME NEW list, NEW map, blockCache!PushFront(list, map, k, v)
      PROVE  Pushed(list, map, k, v, blockList', blockMap')
  BY <1>1, BlockOperators DEF blockCache!PushFront, Pushed
<1>2. CASE blockCache!PutPresent(k, v)
  BY <1>1, <1>2, BlockOperators DEF blockCache!PutPresent, PutTurns, blockCache!Put
<1>3. CASE blockCache!PutEvicting(k, v)
  BY <1>1, <1>3, BlockOperators DEF blockCache!PutEvicting, PutTurns, blockCache!Put
<1>4. CASE blockCache!PutOverrun(k)
  BY <1>4, BlockOperators DEF blockCache!PutOverrun, PutTurns, blockCache!Put
<1>5. CASE blockCache!PutWithRoom(k, v)
  BY <1>1, <1>5, BlockOperators DEF blockCache!PutWithRoom, PutTurns, blockCache!Put
<1>. QED  BY <1>2, <1>3, <1>4, <1>5 DEF blockCache!Put

\* get of this cache is GetTurns.
LEMMA BlockGet ==
    ASSUME NEW k, blockCache!Get(k)
    PROVE  /\ GetTurns(blockList, blockMap, k, blockList', blockMap')
           /\ blockAnswer' = IF k \in DOMAIN blockMap THEN {blockMap[k].value} ELSE {}
           /\ blockCapacity' = blockCapacity
<1>1. CASE blockCache!GetHit(k)
  BY <1>1, BlockOperators DEF blockCache!GetHit, GetTurns
<1>2. CASE blockCache!GetMiss(k)
  BY <1>2 DEF blockCache!GetMiss, GetTurns
<1>. QED  BY <1>1, <1>2 DEF blockCache!Get

\* put keeps the invariant and is a step of the abstract cache.
LEMMA BlockPutSafe ==
    ASSUME BlockInv, NEW k \in BlockHashes, NEW v \in CachedBlocks, blockCache!Put(k, v)
    PROVE  BlockInv' /\ BL!Next
<1>1. /\ PutTurns(blockCapacity, blockList, blockMap, k, v, blockList', blockMap')
      /\ blockAnswer' = {} /\ blockCapacity' = blockCapacity
  BY BlockPut
<1>. DEFINE view == View(blockList, blockMap)
            view2 == View(blockList', blockMap')
<1>2. /\ Fits(blockCapacity, blockList', blockMap', BlockHashes, CachedBlocks)
      /\ SeenPut(blockCapacity, view, k, v, view2)
  BY <1>1, PutFits DEF BlockInv
<1>3. BlockInv'
  BY <1>1, <1>2 DEF BlockInv
<1>. HIDE DEF view, view2
<1>4. blockCache!Entries = view /\ blockCache!Entries' = view2
  BY BlockOperators DEF view, view2
<1>5. ASSUME \E i \in DOMAIN view :
                /\ view[i].key = k
                /\ view2 = <<[key |-> k, value |-> v]>> \o RemoveAt(view, i)
      PROVE  BL!Next
  <2>1. BL!Overwrite(k, v)
    BY <1>1, <1>4, <1>5, BlockOperators DEF BL!Overwrite
  <2>. QED  BY <2>1 DEF BL!Next
<1>6. ASSUME blockCapacity > 0,
             Lacks(view, k),
             view2 = <<[key |-> k, value |-> v]>>
                       \o (IF Len(view) < blockCapacity THEN view ELSE Front(view))
      PROVE  BL!Next
  <2>1. BL!Absent(k)
    BY <1>4, <1>6 DEF BL!Absent, Lacks
  <2>2. BL!Insert(k, v)
    BY <1>1, <1>4, <1>6, <2>1, BlockOperators DEF BL!Insert
  <2>. QED  BY <2>2 DEF BL!Next
<1>7. ASSUME Lacks(view, k), view2 = view
      PROVE  BL!Next
  <2>1. BL!Absent(k)
    BY <1>4, <1>7 DEF BL!Absent, Lacks
  <2>2. BL!Miss(k)
    BY <1>1, <1>4, <1>7, <2>1 DEF BL!Miss
  <2>. QED  BY <2>2 DEF BL!Next
<1>8. BL!Next
  BY <1>2, <1>5, <1>6, <1>7 DEF SeenPut
<1>. QED  BY <1>3, <1>8

\* So does get.
LEMMA BlockGetSafe ==
    ASSUME BlockInv, NEW k \in BlockHashes, blockCache!Get(k)
    PROVE  BlockInv' /\ BL!Next
<1>1. /\ GetTurns(blockList, blockMap, k, blockList', blockMap')
      /\ blockAnswer' = IF k \in DOMAIN blockMap THEN {blockMap[k].value} ELSE {}
      /\ blockCapacity' = blockCapacity
  BY BlockGet
<1>. DEFINE view == View(blockList, blockMap)
            view2 == View(blockList', blockMap')
<1>2. /\ Fits(blockCapacity, blockList', blockMap', BlockHashes, CachedBlocks)
      /\ SeenGet(view, blockMap, k, view2)
  BY <1>1, GetFits DEF BlockInv
<1>3. BlockInv'
  <2>1. k \in DOMAIN blockMap => blockMap[k].value \in CachedBlocks
    BY DEF BlockInv, Fits
  <2>. QED  BY <1>1, <1>2, <2>1 DEF BlockInv
<1>. HIDE DEF view, view2
<1>4. blockCache!Entries = view /\ blockCache!Entries' = view2
  BY BlockOperators DEF view, view2
<1>5. ASSUME NEW i \in DOMAIN view, k \in DOMAIN blockMap, blockMap[k].value = view[i].value,
             view2 = <<view[i]>> \o RemoveAt(view, i)
      PROVE  BL!Next
  <2>1. BL!Hit(i)
    BY <1>1, <1>4, <1>5, BlockOperators DEF BL!Hit
  <2>. QED  BY <1>4, <2>1 DEF BL!Next
<1>6. ASSUME k \notin DOMAIN blockMap, Lacks(view, k), view2 = view
      PROVE  BL!Next
  <2>1. BL!Absent(k)
    BY <1>4, <1>6 DEF BL!Absent, Lacks
  <2>2. BL!Miss(k)
    BY <1>1, <1>4, <1>6, <2>1 DEF BL!Miss
  <2>. QED  BY <2>2 DEF BL!Next
<1>7. BL!Next
  BY <1>2, <1>5, <1>6 DEF SeenGet
<1>. QED  BY <1>3, <1>7

-----------------------------------------------------------------------------
(* transactionCache: its operators are the ones above *)

\* What this instance's operators are.
LEMMA TransactionOperators ==
    /\ \A list : transactionCache!NewNode(list) = Fresh(list)
    /\ \A iterator : transactionCache!Position(iterator) = Where(txList, iterator)
    /\ \A list, i : transactionCache!RemoveAt(list, i) = RemoveAt(list, i)
    /\ \A list : transactionCache!Front(list) = Front(list)
                /\ transactionCache!Last(list) = Last(list)
    /\ \A list, i : TL!RemoveAt(list, i) = RemoveAt(list, i)
    /\ \A list : TL!Front(list) = Front(list)
    /\ transactionCache!Entries = View(txList, txMap)
    /\ transactionCache!Entries' = View(txList', txMap')
    /\ transactionCache!Full <=> Cardinality(DOMAIN txMap) >= txCapacity
<1>1. \A list : transactionCache!NewNode(list) = Fresh(list)
  BY DEF transactionCache!NewNode, Fresh
<1>2. \A iterator : transactionCache!Position(iterator) = Where(txList, iterator)
  BY DEF transactionCache!Position, Where
<1>3. \A list, i : transactionCache!RemoveAt(list, i) = RemoveAt(list, i)
                   /\ TL!RemoveAt(list, i) = RemoveAt(list, i)
  BY DEF transactionCache!RemoveAt, TL!RemoveAt, RemoveAt
<1>4. \A list : transactionCache!Front(list) = Front(list)
                /\ transactionCache!Last(list) = Last(list)
                /\ TL!Front(list) = Front(list)
  BY DEF transactionCache!Front, TL!Front, Front, transactionCache!Last, Last
<1>5. transactionCache!Entries = View(txList, txMap)
  BY DEF transactionCache!Entries, View, EntryOf
<1>6. transactionCache!Entries' = View(txList', txMap')
  BY DEF transactionCache!Entries, View, EntryOf
<1>7. transactionCache!Full <=> Cardinality(DOMAIN txMap) >= txCapacity
  BY DEF transactionCache!Full, transactionCache!Cardinality, Cardinality
<1>. QED  BY <1>1, <1>2, <1>3, <1>4, <1>5, <1>6, <1>7

\* put of this cache is PutTurns.
LEMMA TransactionPut ==
    ASSUME NEW k, NEW v, transactionCache!Put(k, v)
    PROVE  /\ PutTurns(txCapacity, txList, txMap, k, v, txList', txMap')
           /\ txAnswer' = {} /\ txCapacity' = txCapacity
<1>1. ASSUME NEW list, NEW map, transactionCache!PushFront(list, map, k, v)
      PROVE  Pushed(list, map, k, v, txList', txMap')
  BY <1>1, TransactionOperators DEF transactionCache!PushFront, Pushed
<1>2. CASE transactionCache!PutPresent(k, v)
  BY <1>1, <1>2, TransactionOperators
  DEF transactionCache!PutPresent, PutTurns, transactionCache!Put
<1>3. CASE transactionCache!PutEvicting(k, v)
  BY <1>1, <1>3, TransactionOperators
  DEF transactionCache!PutEvicting, PutTurns, transactionCache!Put
<1>4. CASE transactionCache!PutOverrun(k)
  BY <1>4, TransactionOperators
     DEF transactionCache!PutOverrun, PutTurns, transactionCache!Put
<1>5. CASE transactionCache!PutWithRoom(k, v)
  BY <1>1, <1>5, TransactionOperators
  DEF transactionCache!PutWithRoom, PutTurns, transactionCache!Put
<1>. QED  BY <1>2, <1>3, <1>4, <1>5 DEF transactionCache!Put

\* get of this cache is GetTurns.
LEMMA TransactionGet ==
    ASSUME NEW k, transactionCache!Get(k)
    PROVE  /\ GetTurns(txList, txMap, k, txList', txMap')
           /\ txAnswer' = IF k \in DOMAIN txMap THEN {txMap[k].value} ELSE {}
           /\ txCapacity' = txCapacity
<1>1. CASE transactionCache!GetHit(k)
  BY <1>1, TransactionOperators DEF transactionCache!GetHit, GetTurns
<1>2. CASE transactionCache!GetMiss(k)
  BY <1>2 DEF transactionCache!GetMiss, GetTurns
<1>. QED  BY <1>1, <1>2 DEF transactionCache!Get

\* put keeps the invariant and is a step of the abstract cache.
LEMMA TransactionPutSafe ==
    ASSUME TransactionInv, NEW k \in TransactionHashes, NEW v \in Transactions,
           transactionCache!Put(k, v)
    PROVE  TransactionInv' /\ TL!Next
<1>1. /\ PutTurns(txCapacity, txList, txMap, k, v, txList', txMap')
      /\ txAnswer' = {} /\ txCapacity' = txCapacity
  BY TransactionPut
<1>. DEFINE view == View(txList, txMap)
            view2 == View(txList', txMap')
<1>2. /\ Fits(txCapacity, txList', txMap', TransactionHashes, Transactions)
      /\ SeenPut(txCapacity, view, k, v, view2)
  BY <1>1, PutFits DEF TransactionInv
<1>3. TransactionInv'
  BY <1>1, <1>2 DEF TransactionInv
<1>. HIDE DEF view, view2
<1>4. transactionCache!Entries = view /\ transactionCache!Entries' = view2
  BY TransactionOperators DEF view, view2
<1>5. ASSUME \E i \in DOMAIN view :
                /\ view[i].key = k
                /\ view2 = <<[key |-> k, value |-> v]>> \o RemoveAt(view, i)
      PROVE  TL!Next
  <2>1. TL!Overwrite(k, v)
    BY <1>1, <1>4, <1>5, TransactionOperators DEF TL!Overwrite
  <2>. QED  BY <2>1 DEF TL!Next
<1>6. ASSUME txCapacity > 0,
             Lacks(view, k),
             view2 = <<[key |-> k, value |-> v]>>
                       \o (IF Len(view) < txCapacity THEN view ELSE Front(view))
      PROVE  TL!Next
  <2>1. TL!Absent(k)
    BY <1>4, <1>6 DEF TL!Absent, Lacks
  <2>2. TL!Insert(k, v)
    BY <1>1, <1>4, <1>6, <2>1, TransactionOperators DEF TL!Insert
  <2>. QED  BY <2>2 DEF TL!Next
<1>7. ASSUME Lacks(view, k), view2 = view
      PROVE  TL!Next
  <2>1. TL!Absent(k)
    BY <1>4, <1>7 DEF TL!Absent, Lacks
  <2>2. TL!Miss(k)
    BY <1>1, <1>4, <1>7, <2>1 DEF TL!Miss
  <2>. QED  BY <2>2 DEF TL!Next
<1>8. TL!Next
  BY <1>2, <1>5, <1>6, <1>7 DEF SeenPut
<1>. QED  BY <1>3, <1>8

\* So does get.
LEMMA TransactionGetSafe ==
    ASSUME TransactionInv, NEW k \in TransactionHashes, transactionCache!Get(k)
    PROVE  TransactionInv' /\ TL!Next
<1>1. /\ GetTurns(txList, txMap, k, txList', txMap')
      /\ txAnswer' = IF k \in DOMAIN txMap THEN {txMap[k].value} ELSE {}
      /\ txCapacity' = txCapacity
  BY TransactionGet
<1>. DEFINE view == View(txList, txMap)
            view2 == View(txList', txMap')
<1>2. /\ Fits(txCapacity, txList', txMap', TransactionHashes, Transactions)
      /\ SeenGet(view, txMap, k, view2)
  BY <1>1, GetFits DEF TransactionInv
<1>3. TransactionInv'
  <2>1. k \in DOMAIN txMap => txMap[k].value \in Transactions
    BY DEF TransactionInv, Fits
  <2>. QED  BY <1>1, <1>2, <2>1 DEF TransactionInv
<1>. HIDE DEF view, view2
<1>4. transactionCache!Entries = view /\ transactionCache!Entries' = view2
  BY TransactionOperators DEF view, view2
<1>5. ASSUME NEW i \in DOMAIN view, k \in DOMAIN txMap, txMap[k].value = view[i].value,
             view2 = <<view[i]>> \o RemoveAt(view, i)
      PROVE  TL!Next
  <2>1. TL!Hit(i)
    BY <1>1, <1>4, <1>5, TransactionOperators DEF TL!Hit
  <2>. QED  BY <1>4, <2>1 DEF TL!Next
<1>6. ASSUME k \notin DOMAIN txMap, Lacks(view, k), view2 = view
      PROVE  TL!Next
  <2>1. TL!Absent(k)
    BY <1>4, <1>6 DEF TL!Absent, Lacks
  <2>2. TL!Miss(k)
    BY <1>1, <1>4, <1>6, <2>1 DEF TL!Miss
  <2>. QED  BY <2>2 DEF TL!Next
<1>7. TL!Next
  BY <1>2, <1>5, <1>6 DEF SeenGet
<1>. QED  BY <1>3, <1>7

-----------------------------------------------------------------------------
(* The object *)

CallInv ==
    /\ crashed \in BOOLEAN
    /\ block \in [Callers -> CachedBlocks \cup {Genesis}]
    /\ next \in [Callers -> Nat]
    /\ alone \in [Callers -> BOOLEAN]
    /\ \A c \in Callers : next[c] <= Len(block[c].transactions) + 1

\* What a call goes through is a finite list of transactions.
LEMMA BodyOf ==
    ASSUME NEW b \in CachedBlocks \cup {Genesis}
    PROVE  b.transactions \in Seq(Transactions) /\ Len(b.transactions) \in Nat
<1>1. b.transactions \in BlockBodies \/ b.transactions = <<>>
  BY DEF CachedBlocks, Block, Genesis
<1>2. <<>> \in Seq(Transactions)
  OBVIOUS
<1>3. b.transactions \in Seq(Transactions)
  BY <1>1, <1>2, BodiesAssumption
<1>. QED  BY <1>3, LenProperties

\* The transaction that cacheBlock puts next.
LEMMA NextTransaction ==
    ASSUME CallInv, NEW c \in Callers, next[c] \in DOMAIN block[c].transactions
    PROVE  /\ block[c].transactions[next[c]] \in Transactions
           /\ block[c].transactions[next[c]].hash \in TransactionHashes
<1>1. block[c] \in CachedBlocks \cup {Genesis}
  BY DEF CallInv
<1>2. block[c].transactions[next[c]] \in Transactions
  BY <1>1, BodyOf, ElementOfSeq, LenProperties
<1>. QED  BY <1>2 DEF TransactionHashes

\* No call is under way at first.
LEMMA CallInit == Init => CallInv
<1>. SUFFICES ASSUME Init PROVE CallInv
  OBVIOUS
<1>1. Len(Genesis.transactions) = 0
  BY EmptySeq DEF Genesis, Block
<1>2. Genesis \in CachedBlocks \cup {Genesis}
  OBVIOUS
<1>3. crashed \in BOOLEAN
  BY DEF Init
<1>4. /\ block \in [Callers -> CachedBlocks \cup {Genesis}]
      /\ next \in [Callers -> Nat]
      /\ alone \in [Callers -> BOOLEAN]
  BY <1>2 DEF Init
<1>5. ASSUME NEW c \in Callers PROVE next[c] <= Len(block[c].transactions) + 1
  <2>1. next[c] = 0 /\ block[c] = Genesis
    BY DEF Init
  <2>. QED  BY <1>1, <2>1
<1>. QED  BY <1>3, <1>4, <1>5 DEF CallInv

\* A call never goes past the end of its block.
LEMMA CallNext == CallInv /\ [Next]_vars => CallInv'
<1>. SUFFICES ASSUME CallInv, [Next]_vars PROVE CallInv'
  OBVIOUS
<1>0. crashed' \in BOOLEAN
  <2>1. ASSUME NEW k, NEW v, blockCache!Put(k, v) PROVE crashed' \in BOOLEAN
    BY <2>1 DEF CallInv, blockCache!Put, blockCache!PutPresent, blockCache!PutEvicting,
       blockCache!PutOverrun, blockCache!PutWithRoom
  <2>2. ASSUME NEW k, NEW v, transactionCache!Put(k, v) PROVE crashed' \in BOOLEAN
    BY <2>2 DEF CallInv, transactionCache!Put, transactionCache!PutPresent,
       transactionCache!PutEvicting, transactionCache!PutOverrun,
       transactionCache!PutWithRoom
  <2>3. ASSUME NEW k, blockCache!Get(k) PROVE crashed' \in BOOLEAN
    BY <2>3 DEF CallInv, blockCache!Get, blockCache!GetHit, blockCache!GetMiss
  <2>4. ASSUME NEW k, transactionCache!Get(k) PROVE crashed' \in BOOLEAN
    BY <2>4 DEF CallInv, transactionCache!Get, transactionCache!GetHit,
       transactionCache!GetMiss
  <2>. QED  BY <2>1, <2>2, <2>3, <2>4
            DEF Next, CacheBlock, CacheTransaction, Return, GetBlock, GetTransaction,
                CallInv, vars
<1>1. ASSUME NEW c \in Callers, NEW b \in CachedBlocks, CacheBlock(c, b) PROVE CallInv'
  <2>1. \A d \in Callers \ {c} : block'[d] = block[d] /\ next'[d] = next[d]
    BY <1>1 DEF CacheBlock, CallInv
  <2>2. block'[c] = b /\ next'[c] = 1
    BY <1>1 DEF CacheBlock, CallInv
  <2>3. next'[c] <= Len(block'[c].transactions) + 1
    <3>1. Len(b.transactions) \in Nat
      BY BodyOf
    <3>. QED  BY <2>2, <3>1
  <2>4. \A d \in Callers : next'[d] <= Len(block'[d].transactions) + 1
    BY <2>1, <2>3 DEF CallInv
  <2>. QED  BY <1>0, <1>1, <2>4 DEF CacheBlock, CallInv
<1>2. ASSUME NEW c \in Callers, CacheTransaction(c) PROVE CallInv'
  <2>1. \A d \in Callers \ {c} : next'[d] = next[d]
    BY <1>2 DEF CacheTransaction, CallInv
  <2>2. next[c] \in Nat /\ next'[c] = next[c] + 1 /\ block' = block
    BY <1>2 DEF CacheTransaction, CallInv
  <2>3. next'[c] <= Len(block[c].transactions) + 1
    <3>. DEFINE n == Len(block[c].transactions)
    <3>1. block[c] \in CachedBlocks \cup {Genesis}
      BY DEF CallInv
    <3>2. n \in Nat /\ next[c] \in 1..n
      BY <1>2, <3>1, BodyOf, LenProperties DEF CacheTransaction
    <3>. HIDE DEF n
    <3>3. next[c] + 1 <= n + 1
      BY <2>2, <3>2
    <3>. QED  BY <2>2, <3>3 DEF n
  <2>4. \A d \in Callers : next'[d] <= Len(block'[d].transactions) + 1
    BY <2>1, <2>2, <2>3 DEF CallInv
  <2>5. alone' \in [Callers -> BOOLEAN]
    BY <1>2 DEF CacheTransaction, Disturb, CallInv
  <2>6. next' \in [Callers -> Nat]
    BY <1>2 DEF CacheTransaction, CallInv
  <2>. QED  BY <1>0, <2>2, <2>4, <2>5, <2>6 DEF CallInv
<1>3. ASSUME NEW c \in Callers, Return(c) PROVE CallInv'
  <2>1. \A d \in Callers \ {c} : block'[d] = block[d] /\ next'[d] = next[d]
    BY <1>3 DEF Return, CallInv
  <2>2. block'[c] = Genesis /\ next'[c] = 0
    BY <1>3 DEF Return, CallInv
  <2>3. next'[c] <= Len(block'[c].transactions) + 1
    <3>1. Len(Genesis.transactions) \in Nat
      BY BodyOf
    <3>. QED  BY <2>2, <3>1
  <2>4. \A d \in Callers : next'[d] <= Len(block'[d].transactions) + 1
    BY <2>1, <2>3 DEF CallInv
  <2>. QED  BY <1>0, <1>3, <2>4 DEF Return, CallInv
<1>4. ASSUME NEW c \in Callers, NEW b \in CachedBlocks, GetBlock(c, b.hash) PROVE CallInv'
  BY <1>0, <1>4 DEF GetBlock, call, CallInv
<1>5. ASSUME NEW c \in Callers, NEW tx \in Transactions, GetTransaction(c, tx.hash)
      PROVE  CallInv'
  BY <1>0, <1>5 DEF GetTransaction, Disturb, CallInv
<1>6. CASE UNCHANGED vars
  BY <1>6 DEF vars, call, CallInv
<1>. QED  BY <1>1, <1>2, <1>3, <1>4, <1>5, <1>6 DEF Next

CacheInv == BlockInv /\ TransactionInv /\ CallInv

\* An empty list and an empty map agree, and look like an empty abstract cache.
LEMMA EmptyFits ==
    ASSUME NEW K, NEW V, NEW cap \in Nat, NEW list, NEW map,
           list = <<>>, DOMAIN map = {}
    PROVE  Fits(cap, list, map, K, V) /\ View(list, map) = <<>>
<1>1. list \in Seq(Nodes(K)) /\ Len(list) = 0 /\ DOMAIN list = {}
  BY EmptySeq
<1>2. Agree(list, map)
  BY <1>1 DEF Agree
<1>3. Fits(cap, list, map, K, V)
  BY <1>1, <1>2 DEF Fits
<1>4. Shows(View(list, map), list, map, K, V)
  BY <1>3, FitsSeen, ViewShape
<1>5. View(list, map) = <<>>
  BY <1>1, <1>4, EmptySeq DEF Shows
<1>. QED  BY <1>3, <1>5

\* Empty caches fit, and are what LRU starts with.
LEMMA CacheInit == Init => CacheInv /\ BL!Init /\ TL!Init
<1>. SUFFICES ASSUME Init PROVE CacheInv /\ BL!Init /\ TL!Init
  OBVIOUS
<1>1. /\ blockCapacity \in Nat /\ blockList = <<>> /\ DOMAIN blockMap = {} /\ blockAnswer = {}
      /\ txCapacity \in Nat /\ txList = <<>> /\ DOMAIN txMap = {} /\ txAnswer = {}
  BY DEF Init, blockCache!Init, transactionCache!Init
<1>2. /\ Fits(blockCapacity, blockList, blockMap, BlockHashes, CachedBlocks)
      /\ View(blockList, blockMap) = <<>>
  BY <1>1, EmptyFits
<1>3. /\ Fits(txCapacity, txList, txMap, TransactionHashes, Transactions)
      /\ View(txList, txMap) = <<>>
  BY <1>1, EmptyFits
<1>4. BL!Init
  BY <1>1, <1>2, BlockOperators DEF BL!Init
<1>5. TL!Init
  BY <1>1, <1>3, TransactionOperators DEF TL!Init
<1>. QED  BY <1>1, <1>2, <1>3, <1>4, <1>5, CallInit DEF CacheInv, BlockInv, TransactionInv

\* What leaves the block cache alone is a stutter of its LRU.
LEMMA BlockStutter ==
    ASSUME BlockInv, UNCHANGED blockVars PROVE BlockInv' /\ UNCHANGED BL!lruVars
BY DEF BlockInv, blockVars, BL!lruVars, blockCache!Entries

\* What leaves the transaction cache alone is a stutter of its LRU.
LEMMA TransactionStutter ==
    ASSUME TransactionInv, UNCHANGED txVars PROVE TransactionInv' /\ UNCHANGED TL!lruVars
BY DEF TransactionInv, txVars, TL!lruVars, transactionCache!Entries

\* Each step of the object is a step or a stutter of either abstract cache.
LEMMA CacheNext ==
    ASSUME CacheInv, [Next]_vars
    PROVE  BlockInv' /\ TransactionInv' /\ [BL!Next]_(BL!lruVars) /\ [TL!Next]_(TL!lruVars)
<1>. DEFINE Goal == /\ BlockInv' /\ TransactionInv'
                    /\ [BL!Next]_(BL!lruVars) /\ [TL!Next]_(TL!lruVars)
<1>0. BlockInv /\ TransactionInv /\ CallInv
  BY DEF CacheInv
<1>1. ASSUME NEW c \in Callers, NEW b \in CachedBlocks, CacheBlock(c, b) PROVE Goal
  <2>1. b.hash \in BlockHashes
    BY DEF BlockHashes
  <2>2. BlockInv' /\ BL!Next
    BY <1>0, <1>1, <2>1, BlockPutSafe DEF CacheBlock
  <2>3. TransactionInv' /\ UNCHANGED TL!lruVars
    BY <1>0, <1>1, TransactionStutter DEF CacheBlock
  <2>. QED  BY <2>2, <2>3
<1>2. ASSUME NEW c \in Callers, CacheTransaction(c) PROVE Goal
  <2>. DEFINE tx == block[c].transactions[next[c]]
  <2>1. tx \in Transactions /\ tx.hash \in TransactionHashes
    BY <1>0, <1>2, NextTransaction DEF CacheTransaction
  <2>2. transactionCache!Put(tx.hash, tx) /\ UNCHANGED blockVars
    BY <1>2 DEF CacheTransaction
  <2>. HIDE DEF tx
  <2>3. TransactionInv' /\ TL!Next
    BY <1>0, <2>1, <2>2, TransactionPutSafe
  <2>4. BlockInv' /\ UNCHANGED BL!lruVars
    BY <1>0, <2>2, BlockStutter
  <2>. QED  BY <2>3, <2>4
<1>3. ASSUME NEW c \in Callers, Return(c) PROVE Goal
  BY <1>0, <1>3, BlockStutter, TransactionStutter DEF Return
<1>4. ASSUME NEW c \in Callers, NEW b \in CachedBlocks, GetBlock(c, b.hash) PROVE Goal
  <2>1. b.hash \in BlockHashes
    BY DEF BlockHashes
  <2>2. BlockInv' /\ BL!Next
    BY <1>0, <1>4, <2>1, BlockGetSafe DEF GetBlock
  <2>3. TransactionInv' /\ UNCHANGED TL!lruVars
    BY <1>0, <1>4, TransactionStutter DEF GetBlock
  <2>. QED  BY <2>2, <2>3
<1>5. ASSUME NEW c \in Callers, NEW tx \in Transactions, GetTransaction(c, tx.hash) PROVE Goal
  <2>1. tx.hash \in TransactionHashes
    BY DEF TransactionHashes
  <2>2. TransactionInv' /\ TL!Next
    BY <1>0, <1>5, <2>1, TransactionGetSafe DEF GetTransaction
  <2>3. BlockInv' /\ UNCHANGED BL!lruVars
    BY <1>0, <1>5, BlockStutter DEF GetTransaction
  <2>. QED  BY <2>2, <2>3
<1>6. CASE UNCHANGED vars
  BY <1>0, <1>6, BlockStutter, TransactionStutter DEF vars
<1>. QED  BY <1>1, <1>2, <1>3, <1>4, <1>5, <1>6 DEF Next

\* The invariant that the theorems rest on.
LEMMA CacheSafe == Spec => []CacheInv
<1>1. Init => CacheInv
  BY CacheInit
<1>2. CacheInv /\ [Next]_vars => CacheInv'
  BY CacheNext, CallNext DEF CacheInv
<1>. QED  BY <1>1, <1>2, PTL DEF Spec

-----------------------------------------------------------------------------
(* What an undisturbed call has put stays ahead of everything else *)

\* The entries of f are there, in front of all others.
Leads(entries, f) ==
    /\ \A h \in DOMAIN f :
         \E i \in DOMAIN entries : entries[i] = [key |-> h, value |-> f[h]]
    /\ \A i, j \in DOMAIN entries :
         i < j /\ entries[j].key \in DOMAIN f => entries[i].key \in DOMAIN f

KeysDiffer(entries) ==
    \A i, j \in DOMAIN entries : entries[i].key = entries[j].key => i = j

WithoutKey(f, k) == [h \in DOMAIN f \ {k} |-> f[h]]

WithKey(f, k, v) == [h \in DOMAIN f \cup {k} |-> IF h = k THEN v ELSE f[h]]

\* Taking an entry out keeps the order of the others.
LEMMA EraseLeads ==
    ASSUME NEW E, NEW entries \in Seq(E), NEW f, Leads(entries, f), KeysDiffer(entries),
           NEW i \in DOMAIN entries
    PROVE  /\ Leads(RemoveAt(entries, i), WithoutKey(f, entries[i].key))
           /\ Lacks(RemoveAt(entries, i), entries[i].key)
<1>. DEFINE n == Len(entries)
            rest == RemoveAt(entries, i)
            fewer == WithoutKey(f, entries[i].key)
            at(j) == IF j < i THEN j ELSE j + 1
<1>1. n \in Nat /\ DOMAIN entries = 1..n /\ i \in 1..n
  BY LenProperties
<1>2. rest \in Seq(E) /\ Len(rest) = n - 1 /\ \A j \in 1..n - 1 : rest[j] = entries[at(j)]
  BY <1>1, RemoveAtProperties
<1>3. DOMAIN rest = 1..n - 1
  BY <1>2, LenProperties
<1>4. DOMAIN fewer = DOMAIN f \ {entries[i].key}
      /\ \A h \in DOMAIN f : h # entries[i].key => fewer[h] = f[h]
  BY DEF WithoutKey
<1>. HIDE DEF n, rest, fewer
<1>5. \A j \in 1..n - 1 : at(j) \in 1..n /\ at(j) # i
  BY <1>1
<1>6. \A j \in 1..n : j # i => \E l \in 1..n - 1 : at(l) = j
  <2>. SUFFICES ASSUME NEW j \in 1..n, j # i PROVE \E l \in 1..n - 1 : at(l) = j
    OBVIOUS
  <2>1. CASE j < i
    BY <1>1, <2>1
  <2>2. CASE j > i
    <3>1. j - 1 \in 1..n - 1 /\ at(j - 1) = j
      BY <1>1, <2>2
    <3>. QED  BY <3>1
  <2>. QED  BY <1>1, <2>1, <2>2
<1>7. \A j, l \in 1..n - 1 : j < l => at(j) < at(l)
  BY <1>1
<1>. HIDE DEF at
<1>8. \A j \in 1..n : j # i => entries[j].key # entries[i].key
  BY <1>1 DEF KeysDiffer
<1>9. \A h \in DOMAIN fewer :
        \E j \in DOMAIN rest : rest[j] = [key |-> h, value |-> fewer[h]]
  <2>. SUFFICES ASSUME NEW h \in DOMAIN f, h # entries[i].key
                PROVE  \E j \in DOMAIN rest : rest[j] = [key |-> h, value |-> fewer[h]]
    BY <1>4
  <2>1. PICK j \in 1..n : entries[j] = [key |-> h, value |-> f[h]]
    BY <1>1 DEF Leads
  <2>2. j # i
    BY <2>1
  <2>3. PICK l \in 1..n - 1 : at(l) = j
    BY <1>6, <2>2
  <2>. QED  BY <1>2, <1>3, <1>4, <2>1, <2>3
<1>10. ASSUME NEW j \in 1..n - 1, NEW l \in 1..n - 1, j < l, rest[l].key \in DOMAIN fewer
       PROVE  rest[j].key \in DOMAIN fewer
  <2>1. /\ rest[j] = entries[at(j)] /\ rest[l] = entries[at(l)]
        /\ at(j) \in 1..n /\ at(l) \in 1..n /\ at(j) # i /\ at(j) < at(l)
    BY <1>2, <1>5, <1>7, <1>10
  <2>2. entries[at(l)].key \in DOMAIN f
    BY <1>4, <1>10, <2>1
  <2>3. entries[at(j)].key \in DOMAIN f
    BY <1>1, <2>1, <2>2 DEF Leads
  <2>. QED  BY <1>4, <1>8, <2>1, <2>3
<1>11. \A j \in 1..n - 1 : rest[j].key # entries[i].key
  BY <1>2, <1>5, <1>8
<1>. QED  BY <1>3, <1>9, <1>10, <1>11 DEF Leads, Lacks, rest, fewer

\* A new entry goes to the front.
LEMMA PushLeads ==
    ASSUME NEW E, NEW entries \in Seq(E), NEW f, Leads(entries, f),
           NEW k, NEW v, [key |-> k, value |-> v] \in E, Lacks(entries, k)
    PROVE  Leads(<<[key |-> k, value |-> v]>> \o entries, WithKey(f, k, v))
<1>. DEFINE e == [key |-> k, value |-> v]
            longer == <<e>> \o entries
            n == Len(entries)
            more == WithKey(f, k, v)
<1>1. n \in Nat /\ DOMAIN entries = 1..n /\ e \in E /\ e.key = k
  BY LenProperties
<1>2. more[k] = v /\ DOMAIN more = DOMAIN f \cup {k}
      /\ \A h \in DOMAIN f : h # k => more[h] = f[h]
  BY DEF WithKey
<1>3. e = [key |-> k, value |-> more[k]]
  BY <1>2
<1>. HIDE DEF e
<1>4. /\ longer \in Seq(E) /\ Len(longer) = n + 1 /\ longer[1] = e
      /\ \A j \in 2..n + 1 : longer[j] = entries[j - 1]
  BY <1>1, PushProperties
<1>5. DOMAIN longer = 1..n + 1
  BY <1>4, LenProperties
<1>. HIDE DEF longer, n, more
<1>6. \A j \in 1..n + 1 : j = 1 \/ (j \in 2..n + 1 /\ j - 1 \in 1..n)
  BY <1>1
<1>7. \A j \in 1..n : j + 1 \in 2..n + 1 /\ j + 1 \in 1..n + 1 /\ (j + 1) - 1 = j
  BY <1>1
<1>8. ASSUME NEW h \in DOMAIN more
      PROVE  \E j \in DOMAIN longer : longer[j] = [key |-> h, value |-> more[h]]
  <2>1. CASE h = k
    <3>1. 1 \in 1..n + 1
      BY <1>1
    <3>. QED  BY <1>3, <1>4, <1>5, <2>1, <3>1
  <2>2. CASE h # k
    <3>1. h \in DOMAIN f /\ more[h] = f[h]
      BY <1>2, <2>2
    <3>2. PICK j \in 1..n : entries[j] = [key |-> h, value |-> f[h]]
      BY <1>1, <3>1 DEF Leads
    <3>3. longer[j + 1] = entries[j] /\ j + 1 \in 1..n + 1
      BY <1>4, <1>7
    <3>. QED  BY <1>5, <3>1, <3>2, <3>3
  <2>. QED  BY <2>1, <2>2
<1>9. ASSUME NEW i \in 1..n + 1, NEW j \in 1..n + 1, i < j, longer[j].key \in DOMAIN more
      PROVE  longer[i].key \in DOMAIN more
  <2>1. CASE i = 1
    BY <1>1, <1>2, <1>4, <2>1
  <2>2. CASE i # 1
    <3>1. /\ i - 1 \in 1..n /\ longer[i] = entries[i - 1]
          /\ j - 1 \in 1..n /\ longer[j] = entries[j - 1]
          /\ i - 1 < j - 1
      BY <1>1, <1>4, <1>6, <1>9, <2>2
    <3>2. entries[j - 1].key \in DOMAIN f
      BY <1>1, <1>2, <1>9, <3>1 DEF Lacks
    <3>. QED  BY <1>1, <1>2, <3>1, <3>2 DEF Leads
  <2>. QED  BY <2>1, <2>2
<1>. QED  BY <1>5, <1>8, <1>9 DEF Leads, longer, e, more

\* If the last entry belongs to f, then all of them do.
LEMMA LeadersFill ==
    ASSUME NEW E, NEW entries \in Seq(E), NEW f, Leads(entries, f), KeysDiffer(entries),
           IsFiniteSet(DOMAIN f), entries # <<>>, entries[Len(entries)].key \in DOMAIN f
    PROVE  Len(entries) <= Cardinality(DOMAIN f)
<1>. DEFINE n == Len(entries)
            S == 1..n
            T == DOMAIN f
            g == [i \in S |-> entries[i].key]
<1>1. n \in Nat \ {0} /\ DOMAIN entries = S /\ n \in S
  BY EmptySeq, LenProperties
<1>2. \A i \in S : i = n \/ i < n
  <2>. HIDE DEF n
  <2>. QED  BY <1>1
<1>3. \A i \in S : entries[i].key \in T
  BY <1>1, <1>2 DEF Leads
<1>4. IsFiniteSet(S) /\ Cardinality(S) = n
  <2>1. 1 \in Int /\ n \in Int /\ ~(1 > n) /\ n - 1 + 1 = n
    BY <1>1
  <2>. HIDE DEF n
  <2>2. IsFiniteSet(1..n) /\ Cardinality(1..n) = IF 1 > n THEN 0 ELSE n - 1 + 1
    BY <2>1, FS_Interval
  <2>. QED  BY <2>1, <2>2
<1>. HIDE DEF S, n
<1>5. g \in [S -> T]
  BY <1>3
<1>6. \A i, j \in S : g[i] = g[j] => i = j
  BY <1>1 DEF KeysDiffer
<1>. HIDE DEF g, T
<1>7. g \in Injection(S, T)
  BY <1>5, <1>6 DEF Injection, IsInjective
<1>8. IsFiniteSet(T)
  BY DEF T
<1>9. Cardinality(S) <= Cardinality(T)
  BY <1>7, <1>8, FS_Injection
<1>. QED  BY <1>4, <1>9 DEF T, n

\* A put does not evict what was put just before, if there is room for all of it.
LEMMA PutLeads ==
    ASSUME NEW E, NEW entries \in Seq(E), NEW f, Leads(entries, f), KeysDiffer(entries),
           IsFiniteSet(DOMAIN f), NEW k, NEW v, [key |-> k, value |-> v] \in E,
           NEW cap \in Nat, Cardinality(DOMAIN f \cup {k}) <= cap,
           NEW entries2, SeenPut(cap, entries, k, v, entries2)
    PROVE  Leads(entries2, WithKey(f, k, v))
<1>. DEFINE e == [key |-> k, value |-> v]
<1>0. /\ Cardinality(DOMAIN f) \in Nat
      /\ Cardinality(DOMAIN f \cup {k})
           = IF k \in DOMAIN f THEN Cardinality(DOMAIN f) ELSE Cardinality(DOMAIN f) + 1
  BY FS_AddElement, FS_CardinalityType
<1>1. ASSUME NEW i \in DOMAIN entries, entries[i].key = k,
             entries2 = <<e>> \o RemoveAt(entries, i)
      PROVE  Leads(entries2, WithKey(f, k, v))
  <2>. DEFINE rest == RemoveAt(entries, i)
              fewer == WithoutKey(f, k)
  <2>1. rest \in Seq(E)
    BY RemoveAtProperties
  <2>2. Leads(rest, fewer) /\ Lacks(rest, k)
    BY <1>1, EraseLeads
  <2>3. WithKey(fewer, k, v) = WithKey(f, k, v)
    BY DEF WithKey, WithoutKey
  <2>. HIDE DEF rest, fewer
  <2>4. Leads(<<e>> \o rest, WithKey(fewer, k, v))
    BY <2>1, <2>2, PushLeads
  <2>. QED  BY <1>1, <2>3, <2>4 DEF rest
<1>2. ASSUME Lacks(entries, k), Len(entries) < cap, entries2 = <<e>> \o entries
      PROVE  Leads(entries2, WithKey(f, k, v))
  BY <1>2, PushLeads
<1>3. ASSUME Lacks(entries, k), ~(Len(entries) < cap), cap > 0,
             entries2 = <<e>> \o Front(entries)
      PROVE  Leads(entries2, WithKey(f, k, v))
  <2>. DEFINE n == Len(entries)
              rest == RemoveAt(entries, n)
  <2>0. n \in Nat
    BY LenProperties
  <2>1. entries # <<>> /\ n \in DOMAIN entries /\ Front(entries) = rest
    <3>1. n > 0
      BY <1>3, <2>0
    <3>. HIDE DEF n
    <3>2. entries # <<>>
      BY <3>1, EmptySeq DEF n
    <3>. QED  BY <3>2, FrontIsRest DEF n
  <2>2. k \notin DOMAIN f
    BY <1>3 DEF Leads, Lacks
  <2>3. entries[n].key \notin DOMAIN f
    <3>. SUFFICES ASSUME entries[n].key \in DOMAIN f PROVE FALSE
      OBVIOUS
    <3>1. n <= Cardinality(DOMAIN f)
      BY <2>1, LeadersFill
    <3>. HIDE DEF n
    <3>2. ~(n < cap)
      BY <1>3 DEF n
    <3>. QED  BY <1>0, <2>0, <2>2, <3>1, <3>2
  <2>4. rest \in Seq(E) /\ DOMAIN rest = 1..n - 1
        /\ \A j \in 1..n - 1 : rest[j] = IF j < n THEN entries[j] ELSE entries[j + 1]
    BY <2>1, RemoveAtProperties, LenProperties
  <2>5. Lacks(rest, k)
    <3>1. \A j \in 1..n - 1 : j < n /\ j \in 1..n
      BY <2>0
    <3>2. DOMAIN entries = 1..n
      BY LenProperties
    <3>. QED  BY <1>3, <2>4, <3>1, <3>2 DEF Lacks
  <2>6. Leads(rest, WithoutKey(f, entries[n].key))
    BY <2>1, EraseLeads
  <2>. HIDE DEF rest, n
  <2>7. \A h \in DOMAIN f : WithoutKey(f, entries[n].key)[h] = f[h]
    BY <2>3 DEF WithoutKey
  <2>8. DOMAIN WithoutKey(f, entries[n].key) = DOMAIN f
    BY <2>3 DEF WithoutKey
  <2>9. Leads(rest, f)
    BY <2>6, <2>7, <2>8 DEF Leads
  <2>10. Leads(<<e>> \o rest, WithKey(f, k, v))
    BY <2>4, <2>5, <2>9, PushLeads
  <2>. QED  BY <1>3, <2>1, <2>10
<1>4. cap # 0
  <2>1. IsFiniteSet(DOMAIN f \cup {k}) /\ Cardinality(DOMAIN f \cup {k}) # 0
    BY FS_AddElement, FS_EmptySet, ZenonT(30)
  <2>2. Cardinality(DOMAIN f \cup {k}) \in Nat
    BY <2>1, FS_CardinalityType
  <2>. QED  BY <2>1, <2>2
<1>. QED  BY <1>1, <1>2, <1>3, <1>4 DEF SeenPut

-----------------------------------------------------------------------------
(* An undisturbed call of cacheBlock *)

\* The last transaction of each hash among those that the call has put.
Latest(c, f) ==
    LET txs == block[c].transactions
        puts == 1..next[c] - 1
    IN  /\ DOMAIN f = {txs[i].hash : i \in puts}
        /\ \A i \in puts :
             \/ \E j \in puts : j > i /\ txs[j].hash = txs[i].hash
             \/ f[txs[i].hash] = txs[i]

Hashes(c) == {block[c].transactions[i].hash : i \in DOMAIN block[c].transactions}

\* They are the entries that were used last.
CompleteInv ==
    \A c \in Callers :
        alone[c] /\ next[c] # 0 /\ Cardinality(Hashes(c)) <= txCapacity
        => \E f : Latest(c, f) /\ Leads(View(txList, txMap), f)

\* The hashes of a block are finitely many.
LEMMA HashesFinite ==
    ASSUME NEW txs \in Seq(Transactions)
    PROVE  IsFiniteSet({txs[i].hash : i \in DOMAIN txs})
<1>. DEFINE n == Len(txs)
            S == 1..n
            T == {txs[i].hash : i \in DOMAIN txs}
            g == [i \in S |-> txs[i].hash]
<1>1. n \in Nat /\ DOMAIN txs = S
  BY LenProperties
<1>2. IsFiniteSet(S)
  <2>. HIDE DEF n
  <2>. QED  BY <1>1, FS_Interval
<1>. HIDE DEF S
<1>3. g \in Surjection(S, T)
  BY <1>1 DEF Surjection
<1>. HIDE DEF g, T
<1>4. IsFiniteSet(T)
  BY <1>2, <1>3, FS_Surjection
<1>. QED  BY <1>4 DEF T

\* What does not touch the transaction cache, nor a call that is alone.
LEMMA CompleteStutter ==
    ASSUME CompleteInv, UNCHANGED <<txList, txMap, txCapacity>>,
           \A c \in Callers :
             alone'[c] /\ next'[c] # 0
             => alone[c] /\ next'[c] = next[c] /\ block'[c] = block[c]
    PROVE  CompleteInv'
<1>. SUFFICES ASSUME NEW c \in Callers, alone'[c], next'[c] # 0,
                     Cardinality(Hashes(c))' <= txCapacity'
              PROVE  (\E f : Latest(c, f) /\ Leads(View(txList, txMap), f))'
  BY DEF CompleteInv
<1>1. alone[c] /\ next'[c] = next[c] /\ block'[c] = block[c]
  OBVIOUS
<1>2. Hashes(c)' = Hashes(c)
  BY <1>1 DEF Hashes
<1>3. PICK f : Latest(c, f) /\ Leads(View(txList, txMap), f)
  BY <1>1, <1>2 DEF CompleteInv
<1>4. Latest(c, f)'
  BY <1>1, <1>3 DEF Latest
<1>5. Leads(View(txList, txMap), f)'
  BY <1>3 DEF View, EntryOf
<1>. QED  BY <1>4, <1>5

\* A call that begins has put nothing yet.
LEMMA CompleteBegin ==
    ASSUME CallInv, CompleteInv, NEW c \in Callers, NEW b \in CachedBlocks, CacheBlock(c, b)
    PROVE  CompleteInv'
<1>1. /\ next'[c] = 1 /\ UNCHANGED <<txList, txMap, txCapacity>>
      /\ \A d \in Callers : d # c => alone'[d] = alone[d] /\ next'[d] = next[d]
                                     /\ block'[d] = block[d]
  BY DEF CacheBlock, CallInv, txVars
<1>. SUFFICES ASSUME NEW d \in Callers, alone'[d], next'[d] # 0,
                     Cardinality(Hashes(d))' <= txCapacity'
              PROVE  (\E f : Latest(d, f) /\ Leads(View(txList, txMap), f))'
  BY DEF CompleteInv
<1>2. CASE d = c
  <2>. DEFINE none == [h \in {} |-> h]
  <2>1. Latest(d, none)'
    BY <1>1, <1>2 DEF Latest
  <2>2. Leads(View(txList, txMap), none)'
    BY DEF Leads
  <2>. QED  BY <2>1, <2>2
<1>3. CASE d # c
  <2>1. Hashes(d)' = Hashes(d)
    BY <1>1, <1>3 DEF Hashes
  <2>2. PICK f : Latest(d, f) /\ Leads(View(txList, txMap), f)
    BY <1>1, <1>3, <2>1 DEF CompleteInv
  <2>3. Latest(d, f)'
    BY <1>1, <1>3, <2>2 DEF Latest
  <2>4. Leads(View(txList, txMap), f)'
    BY <1>1, <2>2 DEF View, EntryOf
  <2>. QED  BY <2>3, <2>4
<1>. QED  BY <1>2, <1>3

\* A call goes on with its next transaction, and disturbs all others.
LEMMA CompletePut ==
    ASSUME TransactionInv, CallInv, CompleteInv, NEW c \in Callers, CacheTransaction(c)
    PROVE  CompleteInv'
<1>. DEFINE txs == block[c].transactions
            n == next[c]
            tx == txs[n]
            view == View(txList, txMap)
            view2 == View(txList', txMap')
            E == [key : TransactionHashes, value : Transactions]
<1>1. /\ \A d \in Callers : d # c => ~alone'[d]
      /\ alone'[c] = alone[c] /\ n \in DOMAIN txs /\ next'[c] = n + 1 /\ block' = block
      /\ transactionCache!Put(tx.hash, tx)
  BY DEF CacheTransaction, Disturb, CallInv
<1>. SUFFICES ASSUME alone'[c], Cardinality(Hashes(c))' <= txCapacity'
              PROVE  (\E f : Latest(c, f) /\ Leads(View(txList, txMap), f))'
  BY <1>1 DEF CompleteInv
<1>2. tx \in Transactions /\ tx.hash \in TransactionHashes
  BY <1>1, NextTransaction
<1>3. txs \in Seq(Transactions) /\ DOMAIN txs = 1..Len(txs) /\ Len(txs) \in Nat
  <2>1. block[c] \in CachedBlocks \cup {Genesis}
    BY DEF CallInv
  <2>. QED  BY <2>1, BodyOf, LenProperties
<1>4. /\ PutTurns(txCapacity, txList, txMap, tx.hash, tx, txList', txMap')
      /\ txCapacity' = txCapacity
  BY <1>1, TransactionPut
<1>5. SeenPut(txCapacity, view, tx.hash, tx, view2)
  BY <1>2, <1>4, PutFits DEF TransactionInv
<1>6. view \in Seq(E) /\ KeysDiffer(view) /\ txCapacity \in Nat
  <2>1. /\ Seen(txList, txMap, TransactionHashes, Transactions)
        /\ DOMAIN view = DOMAIN txList
        /\ \A i \in DOMAIN txList : view[i] = EntryOf(txList[i], txMap)
        /\ \A i, j \in DOMAIN txList : txList[i].key = txList[j].key => i = j
    BY FitsSeen DEF TransactionInv
  <2>2. Shows(view, txList, txMap, TransactionHashes, Transactions)
    BY <2>1, ViewShape
  <2>. QED  BY <2>1, <2>2 DEF Shows, KeysDiffer, EntryOf, TransactionInv, Fits
<1>7. n \in 1..Len(txs) /\ Hashes(c)' = Hashes(c)
  BY <1>1, <1>3 DEF Hashes
<1>8. PICK f : Latest(c, f) /\ Leads(view, f)
  BY <1>1, <1>4, <1>7 DEF CompleteInv
<1>. HIDE DEF view, view2
<1>9. /\ \A i \in 1..n - 1 : i \in DOMAIN txs
      /\ \A i \in 1..n - 1 : i \in 1..n
      /\ n \in 1..n
      /\ \A i \in 1..n : i = n \/ i \in 1..n - 1
      /\ \A i \in 1..n - 1 : n > i
      /\ (n + 1) - 1 = n
  BY <1>3, <1>7
<1>. HIDE DEF n
<1>10. /\ DOMAIN f = {txs[i].hash : i \in 1..n - 1}
       /\ \A i \in 1..n - 1 :
            \/ \E j \in 1..n - 1 : j > i /\ txs[j].hash = txs[i].hash
            \/ f[txs[i].hash] = txs[i]
  BY <1>8 DEF Latest, n
<1>11. DOMAIN f \cup {tx.hash} \subseteq Hashes(c)
  BY <1>1, <1>9, <1>10 DEF Hashes, n
<1>12. IsFiniteSet(Hashes(c))
  BY <1>3, HashesFinite DEF Hashes
<1>13. IsFiniteSet(DOMAIN f) /\ Cardinality(DOMAIN f \cup {tx.hash}) <= txCapacity
  <2>1. IsFiniteSet(DOMAIN f)
    BY <1>11, <1>12, FS_Subset
  <2>2. /\ IsFiniteSet(DOMAIN f \cup {tx.hash})
        /\ Cardinality(DOMAIN f \cup {tx.hash}) <= Cardinality(Hashes(c))
    BY <1>11, <1>12, FS_Subset
  <2>3. Cardinality(DOMAIN f \cup {tx.hash}) \in Nat /\ Cardinality(Hashes(c)) \in Nat
    BY <1>12, <2>2, FS_CardinalityType
  <2>4. Cardinality(Hashes(c)) <= txCapacity
    BY <1>4, <1>7
  <2>. QED  BY <1>6, <2>1, <2>2, <2>3, <2>4
<1>14. [key |-> tx.hash, value |-> tx] \in E
  BY <1>2
<1>15. Leads(view2, WithKey(f, tx.hash, tx))
  BY <1>5, <1>6, <1>8, <1>13, <1>14, PutLeads
<1>16. PICK more :
         /\ Leads(view2, more)
         /\ DOMAIN more = {txs[i].hash : i \in 1..n}
         /\ \A i \in 1..n :
              \/ \E j \in 1..n : j > i /\ txs[j].hash = txs[i].hash
              \/ more[txs[i].hash] = txs[i]
  <2>. DEFINE new == WithKey(f, tx.hash, tx)
  <2>1. DOMAIN new = DOMAIN f \cup {tx.hash} /\ new[tx.hash] = tx
        /\ \A h \in DOMAIN f : h # tx.hash => new[h] = f[h]
    BY DEF WithKey
  <2>. HIDE DEF new
  <2>2. DOMAIN new = {txs[i].hash : i \in 1..n}
    BY <1>9, <1>10, <2>1
  <2>3. ASSUME NEW i \in 1..n
        PROVE  \/ \E j \in 1..n : j > i /\ txs[j].hash = txs[i].hash
               \/ new[txs[i].hash] = txs[i]
    <3>1. CASE i = n
      BY <2>1, <3>1
    <3>2. CASE i \in 1..n - 1
      <4>1. CASE txs[i].hash = tx.hash
        BY <1>9, <3>2, <4>1
      <4>2. CASE txs[i].hash # tx.hash
        <5>1. new[txs[i].hash] = f[txs[i].hash]
          BY <1>10, <2>1, <3>2, <4>2
        <5>. QED  BY <1>9, <1>10, <3>2, <5>1
      <4>. QED  BY <4>1, <4>2
    <3>. QED  BY <1>9, <3>1, <3>2
  <2>. QED  BY <1>15, <2>2, <2>3 DEF new
<1>17. Latest(c, more)'
  <2>1. next'[c] - 1 = n /\ block'[c].transactions = txs
    BY <1>1, <1>9 DEF n
  <2>. QED  BY <1>16, <2>1 DEF Latest
<1>18. Leads(View(txList, txMap), more)'
  BY <1>16 DEF view2
<1>. QED  BY <1>17, <1>18

LEMMA CompleteInit == Init => CompleteInv
BY DEF Init, CompleteInv

LEMMA CompleteNext == CacheInv /\ CompleteInv /\ [Next]_vars => CompleteInv'
<1>. SUFFICES ASSUME CacheInv, CompleteInv, [Next]_vars PROVE CompleteInv'
  OBVIOUS
<1>0. TransactionInv /\ CallInv
  BY DEF CacheInv
<1>1. ASSUME NEW c \in Callers, NEW b \in CachedBlocks, CacheBlock(c, b) PROVE CompleteInv'
  BY <1>0, <1>1, CompleteBegin
<1>2. ASSUME NEW c \in Callers, CacheTransaction(c) PROVE CompleteInv'
  BY <1>0, <1>2, CompletePut
<1>3. ASSUME NEW c \in Callers, Return(c) PROVE CompleteInv'
  BY <1>0, <1>3, CompleteStutter DEF Return, CallInv, txVars
<1>4. ASSUME NEW c \in Callers, NEW b \in CachedBlocks, GetBlock(c, b.hash) PROVE CompleteInv'
  BY <1>4, CompleteStutter DEF GetBlock, call, txVars
<1>5. ASSUME NEW c \in Callers, NEW tx \in Transactions, GetTransaction(c, tx.hash)
      PROVE  CompleteInv'
  <2>1. \A d \in Callers : ~(alone'[d] /\ next'[d] # 0)
    BY <1>0, <1>5 DEF GetTransaction, Disturb, Idle, CallInv
  <2>. QED  BY <2>1 DEF CompleteInv
<1>6. CASE UNCHANGED vars
  BY <1>6, CompleteStutter DEF vars, call, txVars
<1>. QED  BY <1>1, <1>2, <1>3, <1>4, <1>5, <1>6 DEF Next

\* At the end of the call, what it has put is in the map.
LEMMA CompleteAtEnd ==
    ASSUME CacheInv, CompleteInv PROVE UndisturbedBlockIsComplete
<1>. SUFFICES ASSUME NEW c \in Callers, alone[c],
                     next[c] > Len(block[c].transactions),
                     Cardinality(Hashes(c)) <= txCapacity,
                     NEW i \in DOMAIN block[c].transactions,
                     ~ \E j \in DOMAIN block[c].transactions :
                         /\ j > i
                         /\ block[c].transactions[j].hash = block[c].transactions[i].hash
              PROVE  /\ block[c].transactions[i].hash \in DOMAIN txMap
                     /\ txMap[block[c].transactions[i].hash].value = block[c].transactions[i]
  BY DEF UndisturbedBlockIsComplete, Hashes
<1>. DEFINE txs == block[c].transactions
            len == Len(txs)
            n == next[c]
<1>1. txs \in Seq(Transactions) /\ DOMAIN txs = 1..len /\ len \in Nat
  <2>1. block[c] \in CachedBlocks \cup {Genesis}
    BY DEF CacheInv, CallInv
  <2>. QED  BY <2>1, BodyOf, LenProperties
<1>2. n \in Nat /\ n <= len + 1 /\ n > len
  BY DEF CacheInv, CallInv
<1>. HIDE DEF len
<1>3. n # 0 /\ n - 1 = len
  <2>1. len \in Nat
    BY <1>1
  <2>. HIDE DEF n, txs
  <2>. QED  BY <1>2, <2>1
<1>4. PICK f : Latest(c, f) /\ Leads(View(txList, txMap), f)
  BY <1>3 DEF CompleteInv
<1>5. txs[i].hash \in DOMAIN f /\ f[txs[i].hash] = txs[i]
  BY <1>1, <1>3, <1>4 DEF Latest
<1>6. PICK p \in DOMAIN View(txList, txMap) :
        View(txList, txMap)[p] = [key |-> txs[i].hash, value |-> txs[i]]
  BY <1>4, <1>5 DEF Leads
<1>7. /\ Seen(txList, txMap, TransactionHashes, Transactions)
      /\ DOMAIN View(txList, txMap) = DOMAIN txList
      /\ \A q \in DOMAIN txList : View(txList, txMap)[q] = EntryOf(txList[q], txMap)
  BY FitsSeen DEF CacheInv, TransactionInv
<1>8. EntryOf(txList[p], txMap) = [key |-> txs[i].hash, value |-> txs[i]]
      /\ txList[p].key \in DOMAIN txMap
  BY <1>6, <1>7 DEF Seen
<1>9. txList[p].key = txs[i].hash /\ txMap[txList[p].key].value = txs[i]
  BY <1>8 DEF EntryOf
<1>. QED  BY <1>8, <1>9

-----------------------------------------------------------------------------
\* The types are right for good, and neither cache ever outgrows its capacity.
THEOREM TypeCorrect == Spec => []TypeOK
<1>1. CacheInv => TypeOK
  <2>. SUFFICES ASSUME CacheInv PROVE TypeOK
    OBVIOUS
  <2>1. blockCache!WellTyped(BlockHashes, CachedBlocks)
    <3>1. DOMAIN blockMap \subseteq BlockHashes
      BY MapKeys DEF CacheInv, BlockInv
    <3>. QED  BY <3>1 DEF CacheInv, BlockInv, Fits, Nodes, blockCache!WellTyped
  <2>2. transactionCache!WellTyped(TransactionHashes, Transactions)
    <3>1. DOMAIN txMap \subseteq TransactionHashes
      BY MapKeys DEF CacheInv, TransactionInv
    <3>. QED  BY <3>1 DEF CacheInv, TransactionInv, Fits, Nodes, transactionCache!WellTyped
  <2>. QED  BY <2>1, <2>2 DEF CacheInv, CallInv, TypeOK
<1>. QED  BY <1>1, CacheSafe, PTL

\* However large the caches and whatever the interleaving of the calls, no iterator
\* of a map is ever stale and no node of a list is left behind.
THEOREM IteratorsStayValid == Spec => []IteratorsValid
<1>1. CacheInv => IteratorsValid
  BY DEF CacheInv, BlockInv, TransactionInv, Fits, Agree, IteratorsValid, blockCache!InStep,
         transactionCache!InStep
<1>. QED  BY <1>1, CacheSafe, PTL

\* Lists, maps and iterators implement a cache that keeps what was used last.
THEOREM ImplementsLRU == Spec => CachesAreLRU
<1>1. Init => BL!Init /\ TL!Init
  BY CacheInit
<1>2. CacheInv /\ [Next]_vars => [BL!Next]_(BL!lruVars) /\ [TL!Next]_(TL!lruVars)
  BY CacheNext
<1>. QED  BY <1>1, <1>2, CacheSafe, PTL DEF Spec, CachesAreLRU, BL!Spec, TL!Spec

\* A call of cacheBlock that nobody disturbs leaves the whole block in the caches,
\* if its hashes fit: none of its own puts evicts another one, however full the
\* cache was of other transactions.
THEOREM CompleteBlocks == Spec => []UndisturbedBlockIsComplete
<1>1. CacheInv /\ CompleteInv => UndisturbedBlockIsComplete
  BY CompleteAtEnd
<1>2. CacheInv /\ CompleteInv /\ [Next]_vars => CompleteInv'
  BY CompleteNext
<1>. QED  BY <1>1, <1>2, CacheSafe, CompleteInit, PTL DEF Spec
=============================================================================
