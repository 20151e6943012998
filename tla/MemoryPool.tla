----------------------------- MODULE MemoryPool -----------------------------
(***************************************************************************)
(* class MemoryPool (src/utils/memory_pool.cpp): a vector of entries kept  *)
(* sorted by priority.  Every operation runs under poolMutex or, cleanup,  *)
(* is taken not to run beside another one.                                 *)
(***************************************************************************)
EXTENDS Integers, Sequences, FiniteSets, Functions

CONSTANTS
    Hashes,      \* the transactions, by hash; the rest of them is not looked at
    Priorities,
    Ages,        \* what cleanup is called with
    Counts,      \* what getHighestPriorityTransactions is called with
    MaxSize,     \* maxSize
    MaxAge,      \* the default age of cleanup, 3600 in the code
    MaxClock     \* bound: the wall clock goes up to this

VARIABLES
    pool,
    time,    \* the wall clock, which may be set back
    result   \* what the last call returned

poolVars == <<pool, time, result>>

Entry == [hash : Hashes, timestamp : 0..MaxClock, priority : Priorities]

Init ==
    /\ pool = <<>>
    /\ time \in 0..MaxClock
    /\ result = <<>>

Sorted(s) == \A i, j \in DOMAIN s : i < j => s[i].priority >= s[j].priority

\* std::sort is not stable: any order that is sorted can come out.
Sort(s) ==
    {t \in {[i \in DOMAIN s |-> s[p[i]]] : p \in Bijection(DOMAIN s, DOMAIN s)} : Sorted(t)}

isFull(s) == Len(s) >= MaxSize

\* remove_if, from the first entry to the last.
Keep(s, kept) ==
    LET left[i \in 0..Len(s)] ==
          IF i = 0 THEN <<>>
          ELSE IF s[i] \in kept THEN Append(left[i - 1], s[i]) ELSE left[i - 1]
    IN  left[Len(s)]

Fresh(maxAgeSeconds) == {entry \in Entry : time - entry.timestamp <= maxAgeSeconds}

Young(s, maxAgeSeconds) == Keep(s, Fresh(maxAgeSeconds))

\* The entry goes to the end unsorted.
addTransactionDefect(hash, priority) ==
    LET entry == [hash |-> hash, timestamp |-> time, priority |-> priority]
        room == IF isFull(pool) THEN Young(pool, MaxAge) ELSE pool
    IN  /\ IF isFull(room)
           THEN pool' = room /\ result' = <<"refused">>
           ELSE pool' = Append(room, entry) /\ result' = <<"added">>
        /\ UNCHANGED time

addTransaction(hash, priority) ==
    LET entry == [hash |-> hash, timestamp |-> time, priority |-> priority]
        room == IF isFull(pool) THEN Young(pool, MaxAge) ELSE pool
    IN  /\ IF isFull(room)
           THEN pool' = room /\ result' = <<"refused">>
           ELSE pool' \in Sort(Append(room, entry)) /\ result' = <<"added">>
        /\ UNCHANGED time

getHighestPriorityTransactions(count) ==
    LET n == IF count < Len(pool) THEN count ELSE Len(pool)
    IN  /\ result' = [i \in 1..n |-> pool[i].hash]
        /\ UNCHANGED <<pool, time>>

\* Declared only.
removeTransaction(hash) ==
    /\ pool' = Keep(pool, {entry \in Entry : entry.hash # hash})
    /\ result' = <<>>
    /\ UNCHANGED time

cleanup(maxAgeSeconds) ==
    /\ pool' = Young(pool, maxAgeSeconds)
    /\ result' = <<>>
    /\ UNCHANGED time

ClockMoves ==
    /\ time' \in 0..MaxClock
    /\ UNCHANGED <<pool, result>>

Next ==
    \/ \E hash \in Hashes, priority \in Priorities : addTransaction(hash, priority)
    \/ \E count \in Counts : getHighestPriorityTransactions(count)
    \/ \E hash \in Hashes : removeTransaction(hash)
    \/ \E maxAgeSeconds \in Ages : cleanup(maxAgeSeconds)
    \/ ClockMoves

-----------------------------------------------------------------------------
Contents ==
    [e \in {pool[i] : i \in DOMAIN pool} |-> Cardinality({i \in DOMAIN pool : pool[i] = e})]

P == INSTANCE PriorityPool WITH entries <- Contents, clock <- time, answer <- result

\* The sorted vector implements a bounded bag that is served by priority:
\* additions in any order and at any times, removals, expiry and a clock that is
\* set back never make it serve an entry ahead of one with a higher priority, lose
\* a fresh one, or refuse one while it has room.
PoolSpec == P!Spec
=============================================================================
