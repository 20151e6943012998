---------------------------- MODULE PriorityPool ----------------------------
(***************************************************************************)
(* What a MemoryPool promises: a bounded bag of entries that serves the    *)
(* ones of highest priority first, and that refuses an entry only when it  *)
(* is full of entries that have not expired.                               *)
(***************************************************************************)
EXTENDS Integers, Sequences, FiniteSets, Bags

CONSTANTS Entry, MaxSize, MaxAge, Ages, Hashes

VARIABLES
    entries,  \* a bag
    clock,
    answer    \* what the last call returned

Init ==
    /\ entries = EmptyBag
    /\ clock \in Nat
    /\ answer = <<>>

\* What is not older than age.
Kept(age) == [e \in {e \in BagToSet(entries) : clock - e.timestamp <= age} |-> entries[e]]

\* One ticket for each copy.
Tickets(bag) == UNION {{e} \X (1..bag[e]) : e \in BagToSet(bag)}

Size(bag) == Cardinality(Tickets(bag))

Full(bag) == Size(bag) >= MaxSize

\* A full pool drops what has expired.
Accept(e, room) ==
    /\ room = IF Full(entries) THEN Kept(MaxAge) ELSE entries
    /\ ~Full(room)
    /\ entries' = room (+) SetToBag({e})
    /\ answer' = <<"added">>

Refuse ==
    /\ Full(entries)
    /\ Full(Kept(MaxAge))
    /\ entries' = Kept(MaxAge)
    /\ answer' = <<"refused">>

Count(e, served) == Cardinality({i \in DOMAIN served : served[i] = e})

\* As many as there are, from the top, equal ones in any order.
Serve(count) ==
    LET n == IF count < Size(entries) THEN count ELSE Size(entries)
    IN  \E served \in [1..n -> BagToSet(entries)] :
          /\ \A e \in BagToSet(entries) : Count(e, served) <= entries[e]
          /\ \A i, j \in 1..n : i < j => served[i].priority >= served[j].priority
          /\ \A e \in BagToSet(entries) : Count(e, served) < entries[e] =>
               \A i \in 1..n : served[i].priority >= e.priority
          /\ answer' = [i \in 1..n |-> served[i].hash]
    /\ UNCHANGED entries

Remove(hash) ==
    /\ entries' = [e \in {e \in BagToSet(entries) : e.hash # hash} |-> entries[e]]
    /\ answer' = <<>>

Expire(age) ==
    /\ entries' = Kept(age)
    /\ answer' = <<>>

Next ==
    \/ /\ clock' \in Nat
       /\ UNCHANGED <<entries, answer>>
    \/ /\ UNCHANGED clock
       /\ \/ \E e \in Entry, room \in {entries, Kept(MaxAge)} : Accept(e, room)
          \/ Refuse
          \/ \E count \in 0..MaxSize : Serve(count)
          \/ \E hash \in Hashes : Remove(hash)
          \/ \E age \in Ages : Expire(age)

Spec == Init /\ [][Next]_<<entries, clock, answer>>
=============================================================================
