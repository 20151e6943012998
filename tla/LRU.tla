--------------------------------- MODULE LRU ---------------------------------
(***************************************************************************)
(* What a least-recently-used cache promises, without list nodes and       *)
(* iterators: the entries it keeps, ordered by their last use, the most    *)
(* recent one first, and never more of them than its capacity.             *)
(***************************************************************************)
EXTENDS Naturals, SequencesExt

CONSTANTS Keys, Values

VARIABLES
    capacity,
    entries,   \* in the order of their last use
    answer     \* what the last lookup found, as a set: empty after a miss or a put

lruVars == <<capacity, entries, answer>>

Absent(k) == \A i \in DOMAIN entries : entries[i].key # k

\* The entry that was there gives way to the one that is put.
Overwrite(k, v) ==
    /\ \E i \in DOMAIN entries :
         /\ entries[i].key = k
         /\ entries' = <<[key |-> k, value |-> v]>> \o RemoveAt(entries, i)
    /\ answer' = {}
    /\ UNCHANGED capacity

\* A full cache gives up the entry whose use is longest ago.
Insert(k, v) ==
    /\ capacity > 0
    /\ Absent(k)
    /\ LET kept == IF Len(entries) < capacity THEN entries ELSE Front(entries)
       IN  entries' = <<[key |-> k, value |-> v]>> \o kept
    /\ answer' = {}
    /\ UNCHANGED capacity

Hit(i) ==
    /\ entries' = <<entries[i]>> \o RemoveAt(entries, i)
    /\ answer' = {entries[i].value}
    /\ UNCHANGED capacity

Miss(k) ==
    /\ Absent(k)
    /\ answer' = {}
    /\ UNCHANGED <<capacity, entries>>

Init == capacity \in Nat /\ entries = <<>> /\ answer = {}

Next ==
    \/ \E k \in Keys, v \in Values : Overwrite(k, v) \/ Insert(k, v)
    \/ \E i \in DOMAIN entries : Hit(i)
    \/ \E k \in Keys : Miss(k)

Spec == Init /\ [][Next]_lruVars
=============================================================================
