------------------------------ MODULE LRUCache ------------------------------
(***************************************************************************)
(* template LRUCache (src/utils/cache_manager.hpp): a list of keys and a   *)
(* hash map whose values hold iterators into the list.  put and get take   *)
(* cacheMutex for all of their body, so each of them is one step.          *)
(***************************************************************************)
EXTENDS Naturals, FiniteSets, SequencesExt

VARIABLES
    capacity,  \* the constructor's size
    lruList,   \* std::list: a sequence of nodes, each with its key
    cache,     \* the map: key -> value and iterator, that is, a node
    answer,    \* the value the last get copied out, as a set: empty after a miss
    crashed    \* the program has taken the back() of an empty list

Init ==
    /\ capacity \in Nat
    /\ lruList = <<>>
    /\ cache = [k \in {} |-> k]
    /\ answer = {}

\* Operators called ...Defect are variants of the definition that follows them,
\* each with a mistake that a property has to notice; nothing uses them.

\* The comparison is off by one.
FullDefect == Cardinality(DOMAIN cache) > capacity

Full == Cardinality(DOMAIN cache) >= capacity

\* Where the list has the node that an iterator points to.
Position(iterator) == CHOOSE i \in DOMAIN lruList : lruList[i].node = iterator

\* A node of the list is told apart by its address; the allocator may hand out
\* the address of a node that was freed.
NewNode(list) ==
    CHOOSE n \in 1..(Len(list) + 1) : \A i \in DOMAIN list : list[i].node # n

\* push_front and the assignment through operator[].
PushFront(list, map, key, value) ==
    LET begin == NewNode(list)
    IN  /\ lruList' = <<[node |-> begin, key |-> key]>> \o list
        /\ cache' = [k \in DOMAIN map \cup {key} |->
                        IF k = key THEN [value |-> value, node |-> begin] ELSE map[k]]

-----------------------------------------------------------------------------
(* put, by its branches *)

\* The old node stays in the list.
PutPresentDefect(key, value) ==
    /\ key \in DOMAIN cache
    /\ PushFront(lruList, cache, key, value)
    /\ UNCHANGED crashed

PutPresent(key, value) ==
    /\ key \in DOMAIN cache
    /\ PushFront(RemoveAt(lruList, Position(cache[key].node)), cache, key, value)
    /\ UNCHANGED crashed

PutEvicting(key, value) ==
    /\ key \notin DOMAIN cache
    /\ Full
    /\ lruList # <<>>
    /\ LET victim == Last(lruList).key
       IN  PushFront(Front(lruList), [k \in DOMAIN cache \ {victim} |-> cache[k]],
                     key, value)
    /\ UNCHANGED crashed

\* With capacity 0 nothing is ever held, and back() and pop_back() are undefined.
PutOverrun(key) ==
    /\ key \notin DOMAIN cache
    /\ Full
    /\ lruList = <<>>
    /\ crashed' = TRUE
    /\ UNCHANGED <<lruList, cache>>

PutWithRoom(key, value) ==
    /\ key \notin DOMAIN cache
    /\ ~Full
    /\ PushFront(lruList, cache, key, value)
    /\ UNCHANGED crashed

Put(key, value) ==
    /\ \/ PutPresent(key, value)
       \/ PutEvicting(key, value)
       \/ PutOverrun(key)
       \/ PutWithRoom(key, value)
    /\ answer' = {}
    /\ UNCHANGED capacity

-----------------------------------------------------------------------------
\* Found, but not moved to the front.
GetHitDefect(key) ==
    /\ key \in DOMAIN cache
    /\ answer' = {cache[key].value}
    /\ UNCHANGED <<capacity, lruList, cache, crashed>>

\* splice moves the node to the front and keeps it the same node.
GetHit(key) ==
    /\ key \in DOMAIN cache
    /\ LET i == Position(cache[key].node)
       IN  lruList' = <<lruList[i]>> \o RemoveAt(lruList, i)
    /\ answer' = {cache[key].value}
    /\ UNCHANGED <<capacity, cache, crashed>>

GetMiss(key) ==
    /\ key \notin DOMAIN cache
    /\ answer' = {}
    /\ UNCHANGED <<capacity, lruList, cache, crashed>>

Get(key) == GetHit(key) \/ GetMiss(key)

-----------------------------------------------------------------------------
WellTyped(Keys, Values) ==
    /\ capacity \in Nat
    /\ lruList \in Seq([node : Nat, key : Keys])
    /\ DOMAIN cache \subseteq Keys
    /\ \A k \in DOMAIN cache : cache[k] \in [value : Values, node : Nat]
    /\ Len(lruList) <= capacity
    /\ answer \subseteq Values

\* List and map agree: an iterator in the map points to one node of the list,
\* which holds its key, and each node of the list is pointed to.
InStep ==
    /\ \A i, j \in DOMAIN lruList : lruList[i].node = lruList[j].node => i = j
    /\ \A k \in DOMAIN cache :
         \E i \in DOMAIN lruList : lruList[i] = [node |-> cache[k].node, key |-> k]
    /\ \A i \in DOMAIN lruList :
         /\ lruList[i].key \in DOMAIN cache
         /\ cache[lruList[i].key].node = lruList[i].node

\* What the abstract cache sees.
Entries ==
    [i \in DOMAIN lruList |-> [key   |-> lruList[i].key,
                               value |-> cache[lruList[i].key].value]]
=============================================================================
