----------------------------- MODULE BlockCache -----------------------------
(***************************************************************************)
(* class BlockCache (src/utils/cache_manager.hpp): one LRUCache for blocks *)
(* and one for their transactions, each with a lock of its own.  Several   *)
(* threads use the object, and a call of cacheBlock lets other calls in    *)
(* between its puts.                                                       *)
(***************************************************************************)
EXTENDS Blocks

CONSTANTS
    Callers,            \* threads
    MaxBlockCacheSize,  \* bounds: the sizes the constructor is called with
    MaxTxCacheSize

ASSUME SizesAssumption == MaxBlockCacheSize \in Nat /\ MaxTxCacheSize \in Nat

VARIABLES
    blockCapacity, blockList, blockMap, blockAnswer,  \* blockCache, see LRUCache
    txCapacity, txList, txMap, txAnswer,              \* transactionCache
    crashed,  \* undefined behaviour has happened
    block,    \* caller -> the block being cached
    next,     \* caller -> the next transaction, 0 when idle
    alone     \* history: no other call has touched the transactions

blockVars == <<blockCapacity, blockList, blockMap, blockAnswer>>
txVars == <<txCapacity, txList, txMap, txAnswer>>
call == <<block, next, alone>>
vars == <<blockVars, txVars, crashed, call>>

blockCache == INSTANCE LRUCache
    WITH capacity <- blockCapacity, lruList <- blockList, cache <- blockMap,
         answer <- blockAnswer
transactionCache == INSTANCE LRUCache
    WITH capacity <- txCapacity, lruList <- txList, cache <- txMap,
         answer <- txAnswer

CachedBlocks == {Block(s, txs, NoHash) : s \in Stamps, txs \in BlockBodies}

Idle(c) == next[c] = 0

Init ==
    /\ blockCapacity \in 0..MaxBlockCacheSize
    /\ txCapacity \in 0..MaxTxCacheSize
    /\ blockCache!Init
    /\ transactionCache!Init
    /\ crashed = FALSE
    /\ block = [c \in Callers |-> Genesis]
    /\ next = [c \in Callers |-> 0]
    /\ alone = [c \in Callers |-> TRUE]

-----------------------------------------------------------------------------
(* cacheBlock: the block first, then its transactions one by one *)

\* A put or a hit in the transaction cache disturbs the other calls under way.
Disturb(c) == [d \in Callers |-> IF d = c THEN alone[d] ELSE FALSE]

CacheBlock(c, b) ==
    /\ Idle(c)
    /\ blockCache!Put(b.hash, b)
    /\ block' = [block EXCEPT ![c] = b]
    /\ next' = [next EXCEPT ![c] = 1]
    /\ alone' = [alone EXCEPT ![c] = TRUE]
    /\ UNCHANGED txVars

\* The first transaction is left out.
CacheTransactionDefect(c) ==
    /\ next[c] \in DOMAIN block[c].transactions
    /\ IF next[c] = 1
       THEN UNCHANGED <<txVars, crashed>>
       ELSE LET tx == block[c].transactions[next[c]]
            IN  transactionCache!Put(tx.hash, tx)
    /\ next' = [next EXCEPT ![c] = @ + 1]
    /\ alone' = Disturb(c)
    /\ UNCHANGED <<blockVars, block>>

CacheTransaction(c) ==
    /\ next[c] \in DOMAIN block[c].transactions
    /\ LET tx == block[c].transactions[next[c]]
       IN  transactionCache!Put(tx.hash, tx)
    /\ next' = [next EXCEPT ![c] = @ + 1]
    /\ alone' = Disturb(c)
    /\ UNCHANGED <<blockVars, block>>

Return(c) ==
    /\ next[c] = Len(block[c].transactions) + 1
    /\ block' = [block EXCEPT ![c] = Genesis]
    /\ next' = [next EXCEPT ![c] = 0]
    /\ alone' = [alone EXCEPT ![c] = TRUE]
    /\ UNCHANGED <<blockVars, txVars, crashed>>

-----------------------------------------------------------------------------
GetBlock(c, hash) ==
    /\ Idle(c)
    /\ blockCache!Get(hash)
    /\ UNCHANGED <<txVars, call>>

GetTransaction(c, hash) ==
    /\ Idle(c)
    /\ transactionCache!Get(hash)
    /\ alone' = Disturb(c)
    /\ UNCHANGED <<blockVars, block, next>>

Next ==
    /\ ~crashed
    /\ \/ \E c \in Callers :
            \/ \E b \in CachedBlocks : CacheBlock(c, b)
            \/ CacheTransaction(c)
            \/ Return(c)
            \/ \E b \in CachedBlocks : GetBlock(c, b.hash)
            \/ \E tx \in Transactions : GetTransaction(c, tx.hash)

Spec == Init /\ [][Next]_vars
-----------------------------------------------------------------------------
(* Properties *)

BlockHashes == {b.hash : b \in CachedBlocks}
TransactionHashes == {tx.hash : tx \in Transactions}

\* The type invariant; it says too that neither cache outgrows its capacity.
TypeOK ==
    /\ blockCache!WellTyped(BlockHashes, CachedBlocks)
    /\ transactionCache!WellTyped(TransactionHashes, Transactions)
    /\ crashed \in BOOLEAN
    /\ block \in [Callers -> CachedBlocks \cup {Genesis}]
    /\ next \in [Callers -> Nat]
    /\ alone \in [Callers -> BOOLEAN]
    /\ \A c \in Callers : next[c] <= Len(block[c].transactions) + 1

\* The iterators that the maps hold survive every erase, splice, eviction and
\* reuse of a node: each points to the node of its key, and no node is without
\* one.  An iterator that went stale would be erased or spliced later.
IteratorsValid == blockCache!InStep /\ transactionCache!InStep

BL == INSTANCE LRU WITH
    capacity <- blockCapacity, entries <- blockCache!Entries, answer <- blockAnswer,
    Keys <- BlockHashes, Values <- CachedBlocks

TL == INSTANCE LRU WITH
    capacity <- txCapacity, entries <- transactionCache!Entries, answer <- txAnswer,
    Keys <- TransactionHashes, Values <- Transactions

\* Each cache implements the abstract one: it keeps the entries used last, with
\* the values put last, and evicts the one whose use is longest ago.
CachesAreLRU == BL!Spec /\ TL!Spec

\* A block and its transactions enter the caches in separate critical sections.
\* A call that no other thread disturbs has at its end cached the last transaction
\* of each hash in its block, if the cache has room for so many hashes.  A lookup
\* is a disturbance: an older transaction that is looked up between two puts moves
\* ahead of the first one's, which the second put then evicts.
UndisturbedBlockIsComplete ==
    \A c \in Callers :
        LET txs == block[c].transactions
            hashes == {txs[i].hash : i \in DOMAIN txs}
        IN  (/\ alone[c]
             /\ next[c] > Len(txs)
             /\ Cardinality(hashes) <= txCapacity)
            => \A i \in DOMAIN txs :
                 \/ \E j \in DOMAIN txs : j > i /\ txs[j].hash = txs[i].hash
                 \/ /\ txs[i].hash \in DOMAIN txMap
                    /\ txMap[txs[i].hash].value = txs[i]
=============================================================================
