# A verification project for blockchain-messaging

TLA+ models of the C++ program under `src/`, TLC configurations that
model-check them on small instances, and TLAPS proofs of the most important
properties for all instances. Paths below are relative to the repository.

The program is a skeleton: it is short (about 2300 lines), many functions are
declared and never defined, and some of what is defined does not compile as it
stands (a `Block` passed as `const` to a function that takes it by reference, a
`void` result that a test asserts, getters that do not exist). The models take
the code by what its statements say. A function that is declared only is
modelled as external, from its declaration and its uses, or left out.

## 1. Inventory

| Component | State | Operations | Interacts with |
|---|---|---|---|
| `Blockchain` (core/blockchain) | chain, balances, two validator pools | `addBlock` = `validateBlock`, `reachConsensus`, push, `processTransaction` per transaction; registering and removing validators (declared) | asks `Validator` for votes; called by `Node`'s threads |
| `Block` (core/block) | transactions, previous hash, own digest, nonce | constructor, `calculateHash`, `isValid`, `mineBlock` | digests only the transactions' hashes |
| `Transaction` (core/transaction) | inputs, outputs, status, message, contract call, hash | `sign`, `verify`, `setMessage`, `setContractCall`; `isValid` declared | `Encryption`, `Wallet` |
| `Validator` (validation/validator) | type, stake, reputation, hardware | `validateBlock`, `validateTransaction`, `stake`, `updateReputation` | `Blockchain`, `ConsensusManager` |
| `ConsensusManager` (validation/consensus) | active validators, history of rounds | `achieveConsensus`, `collectValidatorVotes` (one `std::async` task per validator) | `Validator`; used by nobody yet |
| `Node` (network/node) | running flag, state, two queues, shared chain | `start`, two loops, `submitTransaction`, `validateAndAddBlock` | `Blockchain`, `Wallet`, `P2PNetwork` |
| `P2PNetwork` (network/p2p_network) | peers, message queue, mutex | network loop, `broadcastMessage`, `optimizeConnections` | `Node` |
| `NetworkProtocol` (network/protocol) | none | serialise, deserialise, verify, create messages | `Encryption` |
| `MemoryPool` (utils/memory_pool) | entries sorted by priority | add, highest, cleanup | none yet |
| `LRUCache`, `BlockCache` (utils/cache_manager) | list, map of iterators | put, get, cacheBlock | none yet |
| `Logger` (utils/logger) | singleton, queue, thread, running flag | `getInstance`, `log`, `processLogQueue`, start and stop (declared) | everyone |
| `Wallet` (wallet/wallet) | keys, balance, message box, history | create payment or message, receive, decrypt, new keys | `Transaction`, `Encryption` |
| `SmartContractEngine` (core/smart_contract_engine) | contracts | deploy, execute, update, get | none yet |
| `HashUtils` (crypto/hash) | none | digests, `calculateMerkleRoot` | everyone |
| `Encryption`, `KeyDerivation`, `MerkleTree`, `ErrorHandler`, `PerformanceMonitor` | none, or declared only | | |

What is hard about each of them, and the property that makes it correct:

* **Blockchain.** There is no lock. `addBlock` checks the latest block and the
  balances, then counts votes, then pushes, then moves money: every one of
  these may be stale when used. The chain must stay linked; no account should go
  below zero, and it must be known how one can, as the balance check looks at
  senders one by one and never at the sign of an amount; each transaction must
  be applied once; nothing may enter the chain unapproved, although the vote divides by a count that may be zero and
  picks its pool by an ill-formed search.
* **ConsensusManager.** Votes are cast in parallel and written into a history
  that the round under way is not part of yet. A round must count the votes on
  its own block; calls must end.
* **Node, P2PNetwork, Logger.** Threads share queues, flags, the map of peers
  and a pointer, some with a lock, some without. Nothing may wait for ever; what
  was queued must be written or sent; what is done without a lock must be the
  only thing that can go wrong.
* **MemoryPool, LRUCache.** Bounded containers: what they evict, what they
  refuse and what order they keep.
* **Transaction, Wallet, NetworkProtocol.** A hash and a signature that depend
  on when they are computed, and on texts that run together: what is signed is
  the concatenation of parts that nothing separates.
* **SmartContractEngine, Merkle roots, mining, reputation.** Sequential code
  with edges: redeployment, odd levels, a nonce that wraps, unsigned
  subtraction.

The list of hazards with their lines is in `PROJECT.json`.

## 2. Plan

| Order | Modules | Abstract specification | Runs | Theorems | State |
|---|---|---|---|---|---|
| 1 | `Blocks`, `Validation`, `Blockchain` | `Ledger` | solo, two threads, two violations | types, endorsement, linkage, refinement, overdraft | done |
| 2 | `ConsensusManager` | | rounds with parallel tasks, one violation | types, outcome, history, votes | done |
| 3 | `MemoryPool` | `PriorityPool`, a bounded bag served by priority | pool with a clock that is set back, in `objects` | refinement | done |
| 4 | `LRUCache`, `BlockCache` | `LRU`, a sequence in the order of last use | put and get from two threads | types and capacity, list and map agree, whole blocks, refinement | done |
| 5 | `Logger` | | creation race, stop and start, liveness | one object, nothing lost or out of order | done |
| 6 | `Node` with `Blockchain` (balances with separate reads and writes); `P2PNetwork` | | threads of one node; mutex, broadcasts and what happens without it | types, start and stop, queue, height, balances; mutual exclusion, delivery | done |
| 7 | `Transaction`, `TransactionDraft`, `Wallet` | | life of a transaction and wallets that pay and write to each other, in `objects`; one violation | drafts verify as signed; types of wallets | done |
| 8 | `SmartContractEngine`, `MerkleRoot`, `Mining`, `ValidatorRecord`, `Protocol` | reference definitions | bounded inputs, in `objects` | storage, Merkle root, reputation, messages verified as signed | done |

The order puts what the program is for first, then what it runs on. Modules
that are proved about use no `RECURSIVE` operators.

## 3. What is modelled

### Blocks, Validation: the values

A transaction is a record of its hash, type, parties, amount and the answer of
`Transaction::isValid`, which the repository never defines. The hash is a
number of its own and need not be unique: the constructor computes it before
the outputs exist, so transactions of the same second share it. SHA-256 is
taken to be injective: a block's digest is the tuple of what went into it, that
is a stamp (index, timestamp and nonce, which the caller or the clock chooses),
the previous digest and the hashes of the transactions, never their contents.
Blocks come from the constructor only, so their digest always matches.

A registration of a validator has an address and a type; one address may be
registered several times. `Approves` is `Validator::validateBlock`, which
depends on nothing else.

Balances and amounts are integers of either sign where the code has doubles: no
property here is about rounding. A payment of a negative amount is a payment like
any other, since no line looks at the sign.

### Blockchain: the shared object

State: `chain`, `accountBalances` (an absent map entry is 0), the two pools,
and per calling thread its position in `addBlock` (`pc`), its block, how many
of its transactions are processed and who voted for it. `endorsed` and `direct`
are history variables: they record the votes behind each block and the direct
calls of `processTransaction`.

| Action | Code |
|---|---|
| `CallAddBlock` | entry of `addBlock` with a block on any block of the chain, or on the literal `"0"` |
| `ValidateBlock` | `if (!validateBlock(block)) throw` |
| `ReachConsensus` | `if (!reachConsensus(block)) throw`: choice of the pool, votes, percentage |
| `Push` | `chain.push_back(block)` |
| `ProcessNext`, `Finish` | the loop over the transactions and its end |
| `ProcessTransaction` | a direct call of the public function |
| `RegisterValidator`, `RemoveValidator` | declared only |

The search for a FINANCIAL transaction uses `begin()` and `end()` of two
different copies. Both are null for an empty vector, so the answer is no; for
any other vector the distance between the two is whatever the allocator made of
it (with a negative one the unrolled loop of the standard library returns at
once, with a positive one it finds a payment, or reads on into foreign memory),
so either answer is possible and `HasFinancialOutcomes` is `BOOLEAN`. A search
that crashes the process is a behaviour that stops, which safety properties
allow.

Grain of atomicity: one step per check, push and processed transaction. Within
such a step a real race on a `std::vector` or on a double would be undefined
behaviour. The properties that are checked and proved for several threads
(`Rooted`, `EveryBlockEndorsed`, `FirstMoneyIsNegative`) do not depend on sums of
balances, so a lost update does not break them; a corrupted container would.
Properties about balances are claimed for one caller of `addBlock` only;
`Node` splits the updates of balances and says what two callers leave of them.
`ProcessTransaction` may come between any two steps, which is more than a
single-threaded program can do.

### Ledger: the abstract specification

A chain that grows by linked blocks, and balances to which each transaction of
the latest block is applied once, in order, before the next block is linked.
`Blockchain` with one caller implements it; the refinement maps `applied` to
`done` of the call in its processing loop, or to the number of transactions of
the latest block when no call is there.

### ConsensusManager

State: the constructor's `requiredValidators`, the vector of active validators,
the history, and the call in progress: the local `round`, the block, the
indices of tasks that are still running and the index whose future is read
next. Tasks end in any order (`EndTask`); the collector reads them by index
(`CollectVote`). The vote goes into `consensusHistory.back()`. With an empty
history this is undefined; since `back()` is then one element before a null
pointer, the write faults and the model stops in `"crashed"`. `LaunchFails` is
the `std::system_error` of `std::async` after some of the tasks were started:
their futures wait for them while the exception leaves the function. The class
has one user thread, and nothing in the repository uses it otherwise.
`RemoveValidator` is external and erases one registration at a time.

### LRUCache, LRU, BlockCache

`LRUCache` is the template: the list as a sequence of nodes with addresses, the
map with values and iterators, that is, addresses. An address that was freed
may be handed out again, so a stale iterator can point to somebody else's node.
`put` is one step with four branches (`PutPresent`, `PutEvicting`,
`PutOverrun`, `PutWithRoom`), `get` one with two, since both hold `cacheMutex`
throughout. With capacity 0 the first put takes `back()` of an empty list: the
model sets `crashed` and stops. `get` is declared `const` although it splices;
the model takes it as if the list were mutable.

`LRU` is what such a cache promises, without nodes: entries in the order of
their last use, `Overwrite`, `Insert` (which drops the last entry of a full
cache), `Hit`, `Miss`.

`BlockCache` instantiates `LRUCache` twice. `cacheBlock` puts the block
(`CacheBlock`) and then the transactions one by one (`CacheTransaction`), each
under a lock of its own, so other callers come in between; `alone` is a history
variable that says whether one did. The constructor's sizes are any up to the
bounds.

### Logger

State: the static pointer and whether its object is complete, the holders of
`instanceMutex` and `queueMutex`, the queue, the level, `running`, where each
user's `LOG` macro is, where the writer thread is, the file. `pushed` is
history. The double-checked lock is `Call` (first check), `SecondCheck`,
`Construct`, `Publish`; `SeenEarly` is the pointer, which is not atomic, being
visible before the object. A user that then calls into the incomplete object
sets `crashed`. The wait on the condition variable is `Predicate`, `Block`
(unlock and sleep in one step) and the wake-ups, one of which may be spurious.

`startAsyncLogging` and `stopAsyncLogging` are declared and not defined. They
are modelled as the loop demands them: stop clears `running` under `queueMutex`,
notifies and joins. Without the mutex in stop, `StopReturns` fails; whoever
writes the function has to take it.

### Node

`Node` extends `Blockchain` and uses its actions. Two loops run
`validateAndAddBlock`: `ValidateAndAdd` is the validation in front of
`addBlock`, `Check` its two checks, `PushBlock` its push; a payment is
`ReadBalance`, `DebitSender`, `ReadBalance`, `CreditRecipient`;
then `ReadHeight`, `StoreHeight`, `RemovePending` and `RemovalReturns` per
transaction, and `BroadcastBlock`. `RefuseBlock` is the first validation failing:
the throw is outside the try block, and unless a function in between catches it,
it leaves the thread and ends the program (`aborted`). Starters run `start` in
its steps (`Start`, `SetRunning`, `Launch` per thread) and `stop` (declared only:
clears the flag and joins). Submitters call `submitTransaction` from threads of
their own.

The queue of pending transactions is locked by nobody. An operation on it takes
two steps: `BeginWrite` reads the queue and keeps what it is going to write in
`copy`, `EndWrite` writes it. So a submission that meets a removal may be lost, a
removal may be undone, or, since two operations that meet are undefined
behaviour, the program may end (`aborted`). `queueRaced`, `overlapped` and `raced`
are history: two operations on the queue met; two calls on the object overlapped
after their pushes; a start or stop began during another.

Assumed of what is declared only: `createAndBroadcastBlock` and
`handleOrphanBlocks` may add any block on the chain they see,
`removePendingTransaction` removes by hash, `syncBlockchain` and
`processTransactions` leave queue and chain alone.

### P2PNetwork

State: the peers, the message queue, the holder of `networkMutex`, where the
network loop is, and per broadcaster the peers still ahead and those reached.
A round of the loop takes the mutex (`LockRound`), empties the queue
(`HandleMessage`, `HandlerBroadcasts`), collects and replaces slow peers
(`CollectSlowPeers`, `ReplacePeer`), and lets go (`EndRound`, sleep included).
A broadcast walks the map under the mutex (`Deliver`). A failed delivery erases
the element the walk is at: `DeliveryFails` goes on, ends or crashes.

Three functions touch the peers without the mutex: `start`, which launches the
loop and then goes on to `synchronizeWithPeers` (`Synchronize`) and
`measureNetworkLatency` (`MeasureLatency`), and the public `addPeer` and
`removePeer` (`AddPeer`, `RemovePeer`), which cannot take it, since `removePeer` is
called with the mutex held. Such an access may overlap a section that the mutex
guards, or another such access (`Unlocked`): then the program may crash, the
peers may become anything and a walk over them may come past any of them
(`ChangeUnlocked`). `trespasses` counts the accesses that overlapped.

The handlers and `findNewPeer` are declared only: a discovery adds at most one
peer, a slow peer is replaced by at most one, a handler of a transaction or a
block may broadcast, which blocks its own thread for ever (`"blocked"`).
`processMessage` is taken to put the message into the queue under the mutex.
`messageCount` wraps at `CounterSize`.

### Transaction, TransactionDraft, Wallet

`Transaction` has operators only: the constructors (`Made` computes the hash
before it adds the output), `calculateHash`, `sign` (which stores the signature
in the inputs, and nowhere if there are none), `verify`, `setMessage`,
`setContractCall`. A text is a sequence of pieces, and what `calculateHash`
digests is the concatenation that the code writes to its stream: no separators,
no message and no contract call if the ciphertext or the address is empty, so
that different transactions may have one digest. SHA-256 itself is taken to be
injective on texts. `encrypt` returns the ciphertext without key and vector; it
is therefore told apart by text and vector, and decryption is not modelled. A key
stands for the pair and for the address. What `getHash` of inputs and outputs
returns is a constant text, from which the signature is assumed to be absent.
`setAmount` and `getRecipient`, which the wallet calls and nobody declares, are
the first output's; the amount of an input is its coin's.

`TransactionDraft` applies the operations to one transaction in any order.
`Wallet` has wallets that pay, write, receive, change keys and are told a new
balance. Any message made by a wallet, and any that somebody builds by hand
with an input, may arrive at any wallet, any number of times, in any order.
The balance is not initialised by the constructor and begins with any amount.
`signTransaction` and `verifySignature`, which `wallet.cpp` calls, are declared
nowhere in the repository. They are external operators with more than one
outcome: `signTransaction` signs the inputs there are, as `sign` does, or nothing;
`verifySignature` answers like `verify`, or looks at signatures only, of which a
transaction without inputs has none to refuse. Whether a message that a wallet
made is kept by its recipient therefore depends on which it is, and no property
says either; that a payment does not `verify` (`PaymentVerifies`) depends on
neither.

### The objects that one thread uses at a time

`Objects` instantiates eight modules: `TransactionDraft`, `Wallet` and the
following six. The variable `focus` says which of them
a behaviour is about; the others stay as they began, so the state spaces add up
and do not multiply.

* `MemoryPool`: the sorted vector, with a sort that is not stable and a wall
  clock that may be set back. `cleanup` takes no lock and is taken not to run
  beside another operation. It implements `PriorityPool`, a bag that serves by
  priority and refuses only when full of fresh entries. The size of the bag is
  counted by tickets, one for each copy of an entry.
* `SmartContractEngine`: contracts by address, which is bytecode and owner one
  behind the other, so two pairs may share one. `parseOpcodes` is assumed to
  skip the word CONSTRUCTOR, which every contract must contain and which is no
  opcode; `validateMethodCall` may say either.
* `Mining`: `mineBlock` with digests that are arbitrary per nonce and a nonce
  that wraps. A call with difficulty 0 ends at once and is left out.
* `MerkleRoot`: the loop over the levels, against the full tree drawn from the
  root down. The list holds any texts, two of them are hashed one behind the
  other as in the code, and a hash is a text of one piece, so a list may hold
  what is a node of another's tree.
* `ValidatorRecord`: `stake`, and `updateReputation` on an unsigned word.
* `Protocol`: factories, JSON, sending, reading, `verify`. Signing and filling in
  the sender is what a user of the class has to do; no operation does it. What is
  signed is the concatenation of the parts. `serialize` writes a signature of raw
  bytes into a JSON string, and what is no UTF-8 may be replaced, so the object
  that is written has the signature or has lost it; the other members are escaped
  and come back as they were. On its way a text may be changed: members exchanged
  or gone, or no JSON left. `deserialize` gives a set, empty when it throws, and
  reads a missing member as zero or empty.

### Mutations

Operators called `...Defect` are variants of the definition that follows them
with a plausible mistake; nothing uses them. They document what each property
is able to notice (`PROJECT.json`, "mutants").

## 4. What the runs check

| Run | Bounds | Result |
|---|---|---|
| `blockchain_solo` | one caller, chains up to 3 blocks, 3 registrations (one may not judge payments, two share an address), 7 block bodies with a payment of a negative amount among them, one direct payment | `TypeOK`, `ChainLinked`, `OverdraftHasItsBlock` and the refinement `LedgerSpec` hold; 150656 states |
| `blockchain_two` | two callers, calls start on chains shorter than 2, 4 bodies, one of a negative amount | `Rooted`, `EveryBlockEndorsed`, `FirstMoneyIsNegative` hold; 761024 states |
| `blockchain_race` | as `blockchain_two` | `ChainLinked` is violated: both validate against the genesis block, both push |
| `blockchain_payment` | as `blockchain_solo` | `PaymentBlockIsAdded`, which `tests/test_blockchain.cpp` (AddBlock) expects, is violated |
| `consensus` | 0 to 2 required and up to 3 active validators of 3 kinds, calls on histories shorter than 2, 3 bodies | `TypeOK`, `NeverAchieved`, `HistoryBeginsWithoutVotes`, `VotesAreOnThisBlock` and, with fairness, `CallEnds` hold |
| `consensus_unanimous` | as `consensus` | `UnanimityAchieves` is violated: the votes are counted where they are not written |
| `block_cache` | two callers, sizes 0 to 2 of either cache, 3 bodies of which one has more transactions than any cache and one has two of the same hash | `TypeOK`, `IteratorsValid`, `UndisturbedBlockIsComplete` and the refinement `CachesAreLRU` hold; 70430 states |
| `logger` | two users, 2 messages at two levels, one spurious wake-up, two starts | `TypeOK`, `NothingLostOrReordered`, `OneInstance` and, with fairness, `EveryMessageWritten`, `StopReturns` hold; 153733 states |
| `node` | both loops, two starters (symmetric), one submitter of a valid and an invalid transaction, chains up to 2 blocks with a message, with a payment to oneself and one to another, or with an invalid transaction, queue of one | `NodeTypeOK`, `SubmittedIsKept`, `HeightFollowsChain`, `BalancesFollowChain`, `TerminatedByRaceOnly` hold; 634400 states |
| `network` | two possible peers, two broadcasters, queue of two, counter modulo 2, one unlocked access that overlaps another (`MaxTrespasses`), any number that do not | `TypeOK`, `DeliveredToAll`, `CrashIsOwnOrUnlocked` and, with fairness, `HolderReleases` hold; 531024 states |
| `wallet_verify` | two wallets, three keys (symmetric), amounts 1 and 2, two transactions, one kept message | `PaymentVerifies`, which `tests/test_wallet.cpp` (TransactionCreation) expects, is violated by the first payment |
| `objects` | a draft with 4 operations on texts that run together; two wallets with three keys, one transaction and one kept message; a pool of 3 with 2 transactions, 2 priorities and a clock of 0 and 1; 4 bytecodes, 2 owners and 4 changes of contracts; 4 nonces and digests of 2 characters; lists of up to 5 texts of 4 kinds, of which one is two others together and one the hash of those; a word of 256; one signature and one protocol message on its way | `VerifiesOnlyAsSigned`, `WalletTypeOK`, `PoolSpec`, `StorageIsLastWritten`, `RootTellsLists`, `ReputationStaysInRange`, `VerifiedAsSigned` and, with fairness, `SolvableIsMined` hold; 157957 states |

Why the bounds are enough. Two blocks after the genesis block are what a broken
link, a fork or a processing loop that outlives its block need, and a body of
two transactions is what a double spend needs; three registrations give votes
below the threshold of 75 percent and at 100; an empty pool, a pool that may
not judge payments and a mixed one are all among the subsets. In the run with
two callers a block at the third place can only get there by the race. Three
active validators give every order of two tasks against a third and two
registrations of one address with different votes; two rounds are the first
one, which nobody may vote in, and one whose votes go astray. The theorems
below do not depend on any bound.

A cache of two is the smallest in which order matters, one of zero and one of
one are the edges, and bodies of two and three transactions fill and overfill
them; two callers interleave put with put and put with lookup. For the logger,
two users race for the one construction, two messages can be in the wrong
order, and a second start meets a queue that the first stop left. In `node` a
chain may be raced past its bound: both loops may push the second block, which
is what overlapping payments need, and the transactions to oneself and to
another collide on one balance. One submitter and a loop that removes are what a
lost submission takes, and the second loop gives two removals that meet. Two
peers leave one behind when the other one was reached or is gone; one unlocked
access that overlaps another is what the excuse of `CrashIsOwnOrUnlocked` and
`DeliveredToAll` is about, and while there was none the accesses that overlap
nothing come in any number. Three keys for two wallets leave one to change to. A
draft of four operations is signed, changed and signed again; its recipients begin
the texts of outputs, and two contract calls read the same, so texts run together.
Lists of up to five have an odd level at the bottom, one above it or both, by
their length; a pool of three sorts; a word of 256 is far beyond 100 plus 5, and
one of 2^32 behaves the same. A payload that goes on with a digit runs together
with another timestamp (`Strays`), and a sender that is a digit with another type,
which takes the key of that sender to sign.

Deadlock is not checked: the calls are bounded, so a model comes to rest when
the bound is reached, and a crashed manager stays crashed. That calls end is
checked as `CallEnds`. The other models come to rest in the same way (bounded
messages, transactions, blocks, starts or operations), or in a state that the
code cannot leave: after undefined behaviour (`crashed`, `terminated`), when a
handler broadcasts (`P2PNetwork`), when logging has stopped for good, at a
Merkle root.

Fairness. `CallEnds` assumes that a task that was started ends and that the
thread that waits for it goes on when it has ended (weak fairness of `EndTask`
and of the collector). `std::launch::async` starts a thread per task, votes are
loops over finite vectors, and the scheduler is fair to threads. The thread is
not assumed to start new calls, nor thread creation to fail. `Blockchain` needs
no fairness: all its properties are safety properties.

`Logger` (`FairSpec`): weak fairness of each user's steps after its call, of the
writer thread, and of a stop that was called. These are threads that the
scheduler is fair to. Weak fairness of taking a lock is enough for
`EveryMessageWritten` and `StopReturns`, because the writer, once asleep or
ended, leaves the mutex free, and the number of messages is finite. Nobody is
assumed to log, to stop or to start.

`P2PNetwork` (`FairSpec`): weak fairness of the loop and of a broadcast that
walks. Nothing is assumed of who gets the mutex: the loop sleeps with it and
takes it again at once, so a broadcaster may starve, and no property says that
it does not. `HolderReleases` is about the holder only.

`Objects`: weak fairness of the search for a nonce, which is a plain loop.

### What the passing runs say about the code

A property that holds need not be good news. `OverdraftHasItsBlock` names the two
holes of the balance check, and `FirstMoneyIsNegative` says that no ordinary
payment is ever possible: it is the second hole that money comes through first.
`VerifiesOnlyAsSigned`, `VerifiedAsSigned` and `RootTellsLists` say how much a
signature or a root tells: the text that was hashed or signed, which other parts
may read like. `HeightFollowsChain` and `BalancesFollowChain` hold only up to
`overlapped`: two overlapping calls do store an old height last and do lose
updates. `SubmittedIsKept` holds only up to `queueRaced`: a submission that meets a
removal may be lost. `CrashIsOwnOrUnlocked` and `DeliveredToAll` hold as far as the
mutex reaches. `EveryMessageWritten` excuses messages that are queued when logging
stops: the loop leaves them.

### Findings

1. Two threads fork the chain (`blockchain_race`), and `Node` runs two on one
   object.
2. The AddBlock test cannot pass (`blockchain_payment`): balances are zero until
   something calls `processTransaction` or pays a negative amount, and an empty
   validator pool refuses everything.
3. `ConsensusManager` counts votes in a round that never gets any
   (`consensus_unanimous`); with at least one required validator its first
   round is undefined behaviour.
4. A wallet's payment does not verify (`wallet_verify`): the constructor it uses
   makes no inputs, and `verify` refuses a transaction without any. What
   `MessageHandling` expects (`tests/test_wallet.cpp:46-47`), a message that
   arrives and is decrypted, cannot be decided from the repository:
   `verifySignature` and `decrypt` are not defined.

## 5. What is proved

Every safety property that a passing run checks is a theorem: all invariants,
the action property and the three refinements. (`WalletTypeOK` is `TypeOK` of
`Wallet` in the composition; the theorem is about the module itself.) The
theorems hold for any sets of accounts, transactions, validators and callers, for
amounts of either sign and for histories of any length. They rest on the named
assumptions in the modules: transactions and bodies have their types, the set of
validators is finite and each has a type, sizes, counts and bounds are natural
numbers, threads have names of their own, the reputation fits its word
(`WordSizeAssumption`), the strings of a list and whatever goes into a digest are
texts (`LeafAssumption`, `TextAssumption`), a payload that a factory writes begins
with no digit 0, ends with a line feed, and a timestamp contains none
(`ProtocolAssumption`). TLC evaluates them on every run. Some theorems take one
more premise in their statement: one caller (`SingleCaller`), or that the mark of a
signature that is not there is no record (`NothingIsNoRecord`).

`BlockchainProofs`, for any number of threads:

* `TypeCorrect`: `TypeOK` is inductive as it stands. It says also that idle
  callers hold nothing and that a call processes no more transactions than its
  block has.
* `Endorsed`: `EveryBlockEndorsed`. The induction has to know of a call that is
  about to push that the votes it holds contain one that may judge its block
  (`EndorsedInv`). The lemma `VotesEndorse` is the point: a threshold that is
  reached in a non-empty pool takes one vote, and a vote for a payment takes a
  validator that is not of type MESSAGE, whichever pool was asked.
* `FirstMoney`: `FirstMoneyIsNegative`. What was validated against empty accounts
  pays nothing unless it holds a negative amount, and must be known to do so until
  it is processed (`PennilessInv`); a block that is being processed is on the
  chain (`PushedInv`).
* `RootedChain`: `Rooted`. A call that passed validation names a block that is
  in the chain, for good (`RootedInv`).

and, in its last part, for at most one calling thread:

* `Linked`: `ChainLinked`. Between validation and push the latest block stays
  what it was (`SoloInv`).
* `ImplementsLedger`: each push is an `Extend`, each processed transaction an
  `Apply`, everything else a stutter; a push finds the previous block fully
  applied since there is no other call.
* `Overdraft`: `OverdraftHasItsBlock`. Every account that has no excuse
  can pay each of its outstanding payments (`Covered`); it has at most one in a
  block without a double spend, and paying one therefore leaves it at zero or
  above.

`ConsensusProofs`: `TypeCorrect`; `ConsensusNever` and `NoHistory` from
`RoundInv`, which says that the local round holds no votes, that a round under
way has enough validators, and that whoever has read a future found a history;
`VotesOnThisBlock` from `VotesInv`, which says of the futures read so far what
the property says of all of them, a later registration of the same address
excepted.

`BlockCacheProofs`, for caches of any size and any number of callers, from one
invariant (`CacheInv`): each cache fits (`Fits`: typed, no longer than its
capacity, list and map agree) and no call is past the end of its block.

* `TypeCorrect`: `TypeOK`, with the capacity. That the list never outgrows it
  takes a count: the map has as many keys as the list has nodes
  (`CountAgrees`), so a test of the map's size bounds the list.
* `IteratorsStayValid`: `IteratorsValid`. The heart is what erase and push do
  to list and map (`EraseAgrees`, `PushedAgrees`), and that the new node's
  address is not in the list (`FreshIsNew`).
* `ImplementsLRU`: `CachesAreLRU`. `View` is what the abstract cache sees;
  `PutFits` and `GetFits` show that each branch of put and get is one of its
  steps. The same lemmas serve both instances.
* `CompleteBlocks`: `UndisturbedBlockIsComplete`. The property speaks of the end
  of a call; on the way there, what the call has put so far leads the list: it
  occupies the first places, each hash with the last transaction that had it
  (`Leads`, `CompleteInv`). A put moves or inserts at the front, and evicts the
  last entry, which is none of the call's as long as its hashes are no more than
  the places there are.

`LoggerProofs`, for any number of users: `TypeCorrect`, `Singleton` and
`QueueKept` from one invariant: the holders of the mutexes are where the code
says, an object is under construction only while the mutex is held and none was
constructed, a pointer that is not set while the mutex is free means that
nothing was constructed (`Creation`), and whoever is in a call has a message.

`P2PNetworkProofs`, for any number of peers and broadcasters: `TypeCorrect`,
`Reaches` and `CrashIsExplained`. The invariant says of a broadcast that walks
that the peers reached and the peers ahead are together the peers there are,
unless a delivery failed or an unlocked access overlapped. No two threads hold the
mutex, hence no one else changes the peers under it; an unlocked change that
overlaps nothing finds nobody walking.

`NodeProofs`, for any number of starters:

* `OnlyRacesTerminate`: without a race at most one start or stop is under way
  and the threads are as it expects them (`LifeInv`).
* `NodeTypeCorrect`: `NodeTypeOK`, from `AddInv`, `LifeInv` and `QueueInv`
  together. That the queue keeps its type needs what the removal by hash
  returns.
* `PendingIsKept`: `SubmittedIsKept`. A loop removes only hashes that a block of
  the chain holds: past its push it has a block of the chain (`QueueInv`), which
  the other loop, whose pushes only add to the chain, cannot take away. Until two
  operations met, whoever is about to write the queue has what is in it, less
  those hashes or with its own transaction behind it.
* `HeightTracksChain`: a height that was read is at most the length of the
  chain, and equal to it unless somebody pushed since (`HeightInv`).
* `BalancesSettle`: `BalancesFollowChain`. `BalanceInv` relates the balances in
  the middle of a payment, when one read or one write of it is outstanding, to
  the balances that the chain without its last block and the first payments of
  that block leave. The property's recursive function is met by a function on
  the chain's indices that is extended block by block (`SettlingChain`).

`WalletProofs`, for any wallets, keys and numbers of transactions: `TypeCorrect`,
from the shape of what the boxes hold (`BoxInv`), whichever outcome
`signTransaction` and `verifySignature` have.

`ObjectsProofs`, for the objects that one thread uses at a time:

* `SignedOnly`: `VerifiesOnlyAsSigned`. Before the first signature no input is
  signed; after one the inputs carry signatures of what the transaction was, and
  the draft is that or was built on it (`DraftInv`). A signature that fits says
  what text was signed; the inputs in front are those that were signed, or one was
  added and has no signature, so the texts behind them agree.
* `Storage`: `StorageIsLastWritten`, from the last entry of the log that
  concerns an address and a key (`IsLast`, `EngineInv`).
* `PoolImplements`: `PoolSpec`. Each operation of the sorted vector is one of
  `PriorityPool`'s. The lemmas count: a vector holds as many tickets as it is
  long (`TicketsCount`), an appended entry adds one to the bag (`BagGrows`), and
  both sorting and remove_if are a choice of places, each taken once, which
  determines the bag (`BagOfChosen`, for `SortKeeps` and `KeepKeeps`). What is
  handed out from the top leaves nothing of higher priority behind
  (`PoolServes`).
* `RootTellsTheList`: `RootTellsLists`. The loop holds a level of the tree
  (`AtLevel`, `MerkleClimbs`), also when the level is odd, since a node beyond
  the last stands for it. Two texts that read the same one behind the other are
  the same two if the first ones have one length, which nodes of one level have;
  so trees of one height with one root agree from the root down to the leaves
  (`CoveredBelow`, `CoveredDown`).
* `VerifiedWasSigned`: `VerifiedAsSigned`, from `WireInv`: a signature is
  `NoSignature` or one that somebody made. The signed text and the one that is
  read have the sender in common, as it is the key; what is left is the number of
  the type, in front of the sender, and payload and timestamp behind it. No two
  numbers of types, with the same sender and such a rest behind them, read the
  same; where the payload ends is told by its line feed, the last one in the text.
* `ReputationInRange`: `ReputationStaysInRange`, since the sum that is compared
  with 100 does not reach the size of the word (`ReputationInv`).

Induction over data. The provers cannot instantiate the induction theorems of
the library, which take an operator. Recursive functions (remove_if over a
pool, the payments of a chain, the levels of a tree) are reasoned about without
them: the least natural number that a claim fails for (`LeastNatural`) gives the
existence of a function that obeys the recursion, and two functions that obey it
are the same (`SameRecursion`). The models therefore write recursion as such a
function and a filtered queue by the positions that stay, never with a
`SelectSeq` or a fold of a library.

Model-checked only: `CallEnds`, `EveryMessageWritten`, `StopReturns`,
`HolderReleases`, `SolvableIsMined`. Liveness under fairness is outside what
TLAPS proves. `LedgerSpec`, `CachesAreLRU` and `PoolSpec` have no liveness part.

## 6. What is not modelled

"components" in `PROJECT.json` says it per component.

* Not defined in the repository and not needed by what is: `isChainValid`,
  `minePendingTransactions` and their kin, `finalizeBlock`,
  `getConsensusRate`, `unstake`, key import and export, class `SmartContract`,
  `MerkleTree`, `KeyDerivation`, `PerformanceMonitor`. A change of a
  transaction's status, which no function makes.
* Decryption (`getDecryptedMessages`, `decryptMessage`): `encrypt` drops what
  it would take, and `decrypt` is declared only.
* The hardware check of a validator, whose answer is dropped and whose inputs
  nothing sets.
* Undefined behaviour that could do anything: two threads in one unlocked
  container in `MemoryPool` (`cleanup` beside another call) and in the maps of
  `Blockchain`. Where the outcomes can be told (iterators, early visibility of a
  pointer, empty `back()`, operations on `Node`'s queue and accesses to the peers
  that meet), they are modelled: lost updates, or the end of the program.
* Who gets a mutex next: starvation of broadcasters is real and is a hazard
  without a property.
* OpenSSL, `hash160`, `hashWithSalt`, the wording of JSON and log lines;
  `ErrorHandler`, an exception type.
