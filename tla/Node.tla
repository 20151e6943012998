-------------------------------- MODULE Node --------------------------------
(***************************************************************************)
(* class Node (src/network/node.cpp): its two threads, which share one     *)
(* Blockchain and a queue of pending transactions without a lock, and the  *)
(* calls that start and stop them.                                         *)
(*                                                                         *)
(* addBlock takes the steps of module Blockchain, except that a payment is *)
(* processed by separate reads and writes of the two balances.  What       *)
(* changes the queue reads it first and writes it later, so that two such  *)
(* operations may meet.                                                    *)
(***************************************************************************)
EXTENDS Blockchain

CONSTANTS
    Funds,                     \* account -> balance, from direct calls before
    Starters,                  \* threads that call start and stop
    Submitters,                \* threads that call submitTransaction
    Submissions,               \* the transactions that they submit; others are in
                               \* blocks only
    MinTransactionsPerBlock,   \* what getMinTransactionsPerBlock returns
    MaxPending                 \* bound: length of the queue of pending transactions

validation == "validation"
sync == "sync"
Loops == {validation, sync}

ASSUME NodeAssumption ==
    /\ Callers = Loops
    /\ Loops \cap Submitters = {}
    /\ Submissions \subseteq Transactions
    /\ Funds \in [Accounts -> Int]
    /\ MinTransactionsPerBlock \in Nat
    /\ MaxPending \in Nat

VARIABLES
    running,              \* the atomic flag
    thread,               \* loop -> "none" (nothing to join), "running" or "ended"
    spc,                  \* starter -> where its start or stop is
    terminated,           \* a running std::thread was assigned to
    pendingTransactions,
    copy,                 \* loop or submitter -> the queue that it is about to write,
                          \* in a set, which is empty when it writes nothing
    aborted,              \* an exception left a thread, or two operations on the
                          \* queue met and brought the program down
    lastBlockHeight,
    npc,                  \* loop -> where its validateAndAddBlock is
    added,                \* loop -> the block of that call
    height,               \* loop -> the chain length it has read
    removed,              \* loop -> transactions already removed from the queue
    phase,                \* loop -> where its processTransaction is
    seen,                 \* loop -> the balance it has read
    submitted,            \* history: the transactions that were submitted
    queueRaced,           \* history: an operation on the queue began during another
    overlapped,           \* history: a push came while another call, past its own
                          \* push, had not stored its height yet
    raced                 \* history: a start or stop began during another one

lifecycle == <<running, thread, spc, terminated, raced>>
adding == <<npc, added, height, removed>>
processing == <<phase, seen, overlapped>>
queue == <<pendingTransactions, submitted, copy, queueRaced, aborted>>
nodeVars == <<lifecycle, adding, processing, queue, lastBlockHeight>>
allVars == <<vars, nodeVars>>

\* The object after direct calls that made the funds; there may be nobody who
\* judges payments.
NodeInit ==
    /\ chain = <<Genesis>>
    /\ accountBalances = Funds
    /\ messageValidators = Validators
    /\ financialValidators \in {{}, Validators}
    /\ pc = [c \in Callers |-> "idle"]
    /\ block = [c \in Callers |-> Genesis]
    /\ done = [c \in Callers |-> 0]
    /\ votes = [c \in Callers |-> {}]
    /\ endorsed = <<{}>>
    /\ direct = <<>>
    /\ running = FALSE
    /\ thread = [t \in Loops |-> "none"]
    /\ spc = [s \in Starters |-> "idle"]
    /\ terminated = FALSE
    /\ raced = FALSE
    /\ npc = [c \in Callers |-> "idle"]
    /\ added = [c \in Callers |-> Genesis]
    /\ height = [c \in Callers |-> 0]
    /\ removed = [c \in Callers |-> 0]
    /\ phase = [c \in Callers |-> "readSender"]
    /\ seen = [c \in Callers |-> 0]
    /\ overlapped = FALSE
    /\ pendingTransactions = <<>>
    /\ submitted = {}
    /\ copy = [t \in Loops \cup Submitters |-> {}]
    /\ queueRaced = FALSE
    /\ aborted = FALSE
    /\ lastBlockHeight = 0

Enter(s, label) == spc' = [spc EXCEPT ![s] = label]

Goto(c, label) == npc' = [npc EXCEPT ![c] = label]

-----------------------------------------------------------------------------
(* start, and stop, which is declared only: it clears the flag and joins *)

\* Another call of start or stop is under way.
Races(s) == raced' = (raced \/ \E r \in Starters \ {s} : spc[r] # "idle")

\* The flag is not looked at.
StartDefect(s) ==
    /\ spc[s] = "idle"
    /\ Enter(s, "set")
    /\ Races(s)
    /\ UNCHANGED <<vars, running, thread, terminated, adding, processing, queue,
                   lastBlockHeight>>

\* if (running) return;
Start(s) ==
    /\ spc[s] = "idle"
    /\ ~running
    /\ Enter(s, "set")
    /\ Races(s)
    /\ UNCHANGED <<vars, running, thread, terminated, adding, processing, queue,
                   lastBlockHeight>>

SetRunning(s) ==
    /\ spc[s] = "set"
    /\ running' = TRUE
    /\ Enter(s, validation)
    /\ UNCHANGED <<vars, thread, terminated, raced, adding, processing, queue,
                   lastBlockHeight>>

\* A std::thread that was not joined must not be assigned to, whether its
\* function still runs or not.
Launch(s, t) ==
    /\ spc[s] = t
    /\ terminated' = (thread[t] # "none")
    /\ thread' = [thread EXCEPT ![t] = "running"]
    /\ Enter(s, IF t = validation THEN sync ELSE "idle")
    /\ UNCHANGED <<vars, running, raced, adding, processing, queue, lastBlockHeight>>

Stop(s) ==
    /\ spc[s] = "idle"
    /\ running
    /\ running' = FALSE
    /\ Enter(s, "join")
    /\ Races(s)
    /\ UNCHANGED <<vars, thread, terminated, adding, processing, queue, lastBlockHeight>>

Join(s) ==
    /\ spc[s] = "join"
    /\ \A t \in Loops : thread[t] # "running"
    /\ thread' = [t \in Loops |-> "none"]
    /\ Enter(s, "idle")
    /\ UNCHANGED <<vars, running, terminated, raced, adding, processing, queue,
                   lastBlockHeight>>

\* The condition of validationLoop and syncLoop, between two rounds.
EndLoop(t) ==
    /\ thread[t] = "running"
    /\ npc[t] = "idle"
    /\ ~running
    /\ thread' = [thread EXCEPT ![t] = "ended"]
    /\ UNCHANGED <<vars, running, spc, terminated, raced, adding, processing, queue,
                   lastBlockHeight>>

-----------------------------------------------------------------------------
(* The queue of pending transactions, which nothing guards *)

\* Thread t starts to change the queue to q.  If another thread is at it already
\* then one of the changes is lost, or the program does not survive.
BeginWrite(t, q) ==
    /\ copy[t] = {}
    /\ copy' = [copy EXCEPT ![t] = {q}]
    /\ LET meets == \E u \in DOMAIN copy \ {t} : copy[u] # {}
       IN  /\ queueRaced' = (queueRaced \/ meets)
           /\ aborted' \in IF meets THEN BOOLEAN ELSE {FALSE}

EndWrite(t) ==
    /\ copy[t] = {pendingTransactions'}
    /\ copy' = [copy EXCEPT ![t] = {}]
    /\ UNCHANGED <<queueRaced, aborted>>

\* submitTransaction; the broadcast changes nothing here.
submitTransaction(s, tx) ==
    /\ Len(pendingTransactions) < MaxPending
    /\ tx.valid
    /\ BeginWrite(s, Append(pendingTransactions, tx))
    /\ UNCHANGED <<vars, lifecycle, adding, processing, pendingTransactions, submitted,
                   lastBlockHeight>>

SubmitReturns(s) ==
    /\ \E q \in copy[s] :
         /\ pendingTransactions' = q
         /\ submitted' = submitted \cup {q[Len(q)]}
    /\ EndWrite(s)
    /\ UNCHANGED <<vars, lifecycle, adding, processing, lastBlockHeight>>

Without(hash) == {i \in DOMAIN pendingTransactions : pendingTransactions[i].hash # hash}

\* removePendingTransaction is not declared anywhere; it is given a hash, so
\* everything with that hash leaves the queue, and the rest keeps its order.
removePendingTransaction(c, hash) ==
    \E position \in [1..Cardinality(Without(hash)) -> Without(hash)] :
        /\ \A i, j \in DOMAIN position : i < j => position[i] < position[j]
        /\ BeginWrite(c, [i \in DOMAIN position |-> pendingTransactions[position[i]]])

-----------------------------------------------------------------------------
(* validateAndAddBlock *)

\* The loops reach it by createAndBroadcastBlock, when enough transactions are
\* pending, and by handleOrphanBlocks.  Both are declared only, so the block is
\* any block.
MayAdd(c) ==
    /\ thread[c] = "running"
    /\ npc[c] = "idle"
    /\ Len(chain) < MaxChain
    /\ c = validation => Len(pendingTransactions) >= MinTransactionsPerBlock

\* The first validation passes; addBlock, entered next, validates again.
ValidateAndAdd(c) ==
    /\ MayAdd(c)
    /\ \E s \in Stamps, txs \in BlockBodies :
         LET b == Block(s, txs, getLatestBlock.hash)
         IN  /\ validateBlock(b)
             /\ block' = [block EXCEPT ![c] = b]
             /\ added' = [added EXCEPT ![c] = b]
    /\ pc' = [pc EXCEPT ![c] = "validate"]
    /\ Goto(c, "addBlock")
    /\ UNCHANGED <<chain, accountBalances, pools, done, votes, endorsed, direct,
                   lifecycle, height, removed, processing, queue, lastBlockHeight>>

\* It fails, and the throw, outside the try block, leaves the call.  The functions
\* in between may catch it, which changes nothing; the loops do not, and then it
\* ends the program.
RefuseBlock(c) ==
    /\ MayAdd(c)
    /\ \E s \in Stamps, txs \in BlockBodies, i \in DOMAIN chain :
         ~validateBlock(Block(s, txs, chain[i].hash))
    /\ aborted' = TRUE
    /\ UNCHANGED <<vars, lifecycle, adding, processing, pendingTransactions, submitted,
                   copy, queueRaced, lastBlockHeight>>

\* The count of removed transactions is left as it was.
CallEndsDefect(c) ==
    /\ Goto(c, "idle")
    /\ added' = [added EXCEPT ![c] = Genesis]
    /\ height' = [height EXCEPT ![c] = 0]
    /\ UNCHANGED removed

CallEnds(c) ==
    /\ Goto(c, "idle")
    /\ added' = [added EXCEPT ![c] = Genesis]
    /\ height' = [height EXCEPT ![c] = 0]
    /\ removed' = [removed EXCEPT ![c] = 0]

\* The cleanup after the catch block instead of in the try block.
CheckDefect(c) ==
    /\ npc[c] = "addBlock"
    /\ \/ ValidateBlock(c)
       \/ ReachConsensus(c)
    /\ IF pc'[c] = "idle"
       THEN Goto(c, "remove") /\ UNCHANGED <<added, height, removed>>
       ELSE UNCHANGED adding
    /\ UNCHANGED <<lifecycle, processing, queue, lastBlockHeight>>

\* The two checks of addBlock; what they throw is caught.
Check(c) ==
    /\ npc[c] = "addBlock"
    /\ \/ ValidateBlock(c)
       \/ ReachConsensus(c)
    /\ IF pc'[c] = "idle" THEN CallEnds(c) ELSE UNCHANGED adding
    /\ UNCHANGED <<lifecycle, processing, queue, lastBlockHeight>>

Unstored(c) == pc[c] = "process" \/ npc[c] \in {"height", "store"}

PushBlock(c) ==
    /\ npc[c] = "addBlock"
    /\ Push(c)
    /\ overlapped' = (overlapped \/ \E d \in Callers \ {c} : Unstored(d))
    /\ UNCHANGED <<lifecycle, adding, phase, seen, queue, lastBlockHeight>>

Current(c) == block[c].transactions[done[c] + 1]

Processes(c) == pc[c] = "process" /\ done[c] < Len(block[c].transactions)

\* processTransaction of a MESSAGE or a REWARD does nothing.
SkipTransaction(c) ==
    /\ Processes(c)
    /\ Current(c).type # "FINANCIAL"
    /\ done' = [done EXCEPT ![c] = @ + 1]
    /\ UNCHANGED <<chain, accountBalances, pools, pc, block, votes, endorsed, direct,
                   nodeVars>>

\* Both balances are read before one is written.
ReadBalanceDefect(c) ==
    /\ Processes(c)
    /\ Current(c).type = "FINANCIAL"
    /\ \/ /\ phase[c] = "readSender"
          /\ seen' = [seen EXCEPT ![c] = accountBalances[Current(c).sender]]
          /\ phase' = [phase EXCEPT ![c] = "writeSender"]
       \/ /\ phase[c] = "readRecipient"
          /\ seen' = [seen EXCEPT ![c] = IF Current(c).recipient = Current(c).sender
                                         THEN @
                                         ELSE accountBalances[Current(c).recipient]]
          /\ phase' = [phase EXCEPT ![c] = "writeRecipient"]
    /\ UNCHANGED <<vars, lifecycle, adding, overlapped, queue, lastBlockHeight>>

\* The read of a compound assignment to accountBalances[...].
ReadBalance(c) ==
    /\ Processes(c)
    /\ Current(c).type = "FINANCIAL"
    /\ \/ /\ phase[c] = "readSender"
          /\ seen' = [seen EXCEPT ![c] = accountBalances[Current(c).sender]]
          /\ phase' = [phase EXCEPT ![c] = "writeSender"]
       \/ /\ phase[c] = "readRecipient"
          /\ seen' = [seen EXCEPT ![c] = accountBalances[Current(c).recipient]]
          /\ phase' = [phase EXCEPT ![c] = "writeRecipient"]
    /\ UNCHANGED <<vars, lifecycle, adding, overlapped, queue, lastBlockHeight>>

\* The write of -= amount.
DebitSender(c) ==
    /\ Processes(c)
    /\ phase[c] = "writeSender"
    /\ accountBalances' =
         [accountBalances EXCEPT ![Current(c).sender] = seen[c] - Current(c).amount]
    /\ phase' = [phase EXCEPT ![c] = "readRecipient"]
    /\ UNCHANGED <<chain, pools, call, endorsed, direct, lifecycle, adding, seen,
                   overlapped, queue, lastBlockHeight>>

\* The write of += amount, which ends the round of the loop.
CreditRecipient(c) ==
    /\ Processes(c)
    /\ phase[c] = "writeRecipient"
    /\ accountBalances' =
         [accountBalances EXCEPT ![Current(c).recipient] = seen[c] + Current(c).amount]
    /\ phase' = [phase EXCEPT ![c] = "readSender"]
    /\ seen' = [seen EXCEPT ![c] = 0]
    /\ done' = [done EXCEPT ![c] = @ + 1]
    /\ UNCHANGED <<chain, pools, pc, block, votes, endorsed, direct, lifecycle, adding,
                   overlapped, queue, lastBlockHeight>>

AddBlockReturns(c) ==
    /\ npc[c] = "addBlock"
    /\ Finish(c)
    /\ Goto(c, "height")
    /\ UNCHANGED <<lifecycle, added, height, removed, processing, queue, lastBlockHeight>>

\* The index of the latest block instead of the length.
ReadHeightDefect(c) ==
    /\ npc[c] = "height"
    /\ height' = [height EXCEPT ![c] = Len(chain) - 1]
    /\ Goto(c, "store")
    /\ UNCHANGED <<vars, lifecycle, added, removed, processing, queue, lastBlockHeight>>

\* getChainLength, and then the assignment.
ReadHeight(c) ==
    /\ npc[c] = "height"
    /\ height' = [height EXCEPT ![c] = Len(chain)]
    /\ Goto(c, "store")
    /\ UNCHANGED <<vars, lifecycle, added, removed, processing, queue, lastBlockHeight>>

StoreHeight(c) ==
    /\ npc[c] = "store"
    /\ lastBlockHeight' = height[c]
    /\ Goto(c, "remove")
    /\ UNCHANGED <<vars, lifecycle, added, height, removed, processing, queue>>

RemovePending(c) ==
    /\ npc[c] = "remove"
    /\ removed[c] < Len(added[c].transactions)
    /\ removePendingTransaction(c, added[c].transactions[removed[c] + 1].hash)
    /\ UNCHANGED <<vars, lifecycle, adding, processing, pendingTransactions, submitted,
                   lastBlockHeight>>

RemovalReturns(c) ==
    /\ npc[c] = "remove"
    /\ removed[c] < Len(added[c].transactions)
    /\ \E q \in copy[c] : pendingTransactions' = q
    /\ EndWrite(c)
    /\ removed' = [removed EXCEPT ![c] = @ + 1]
    /\ UNCHANGED <<vars, lifecycle, npc, added, height, processing, submitted,
                   lastBlockHeight>>

\* broadcastBlock is the last statement; what it throws is caught.
BroadcastBlock(c) ==
    /\ npc[c] = "remove"
    /\ removed[c] = Len(added[c].transactions)
    /\ CallEnds(c)
    /\ UNCHANGED <<vars, lifecycle, processing, queue, lastBlockHeight>>

-----------------------------------------------------------------------------
LoopStep(c) ==
    \/ ValidateAndAdd(c)
    \/ RefuseBlock(c)
    \/ Check(c)
    \/ PushBlock(c)
    \/ SkipTransaction(c)
    \/ ReadBalance(c)
    \/ DebitSender(c)
    \/ CreditRecipient(c)
    \/ AddBlockReturns(c)
    \/ ReadHeight(c)
    \/ StoreHeight(c)
    \/ RemovePending(c)
    \/ RemovalReturns(c)
    \/ BroadcastBlock(c)
    \/ EndLoop(c)

StarterStep(s) ==
    \/ Start(s)
    \/ SetRunning(s)
    \/ \E t \in Loops : Launch(s, t)
    \/ Stop(s)
    \/ Join(s)

NodeNext ==
    /\ ~terminated
    /\ ~aborted
    /\ \/ \E c \in Loops : LoopStep(c)
       \/ \E s \in Starters : StarterStep(s)
       \/ \E s \in Submitters :
            SubmitReturns(s) \/ \E tx \in Submissions : submitTransaction(s, tx)

NodeSpec == NodeInit /\ [][NodeNext]_allVars
-----------------------------------------------------------------------------
(* Properties *)

LifecycleOK ==
    /\ running \in BOOLEAN
    /\ thread \in [Loops -> {"none", "running", "ended"}]
    /\ spc \in [Starters -> {"idle", "set", "join"} \cup Loops]
    /\ terminated \in BOOLEAN
    /\ raced \in BOOLEAN

AddingOK ==
    /\ npc \in [Callers -> {"idle", "addBlock", "height", "store", "remove"}]
    /\ added \in [Callers -> BlockShape \cup {Genesis}]
    /\ height \in [Callers -> Nat]
    /\ removed \in [Callers -> Nat]
    /\ phase \in [Callers -> {"readSender", "writeSender", "readRecipient",
                              "writeRecipient"}]
    /\ seen \in [Callers -> Int]
    /\ overlapped \in BOOLEAN
    /\ \A c \in Callers :
         /\ pc[c] # "idle" <=> npc[c] = "addBlock"
         /\ npc[c] = "addBlock" => added[c] = block[c]
         /\ phase[c] # "readSender" => Processes(c) /\ Current(c).type = "FINANCIAL"
         /\ removed[c] <= Len(added[c].transactions)
         /\ npc[c] # "remove" => removed[c] = 0

\* Whoever is about to write the queue writes one thing, a submitter a queue that
\* ends with its transaction.
QueueOK ==
    /\ pendingTransactions \in Seq(Transactions)
    /\ submitted \subseteq Transactions
    /\ copy \in [Loops \cup Submitters -> SUBSET Seq(Transactions)]
    /\ \A t \in DOMAIN copy : \A q, r \in copy[t] : q = r
    /\ \A t \in Submitters : \A q \in copy[t] : q # <<>>
    /\ queueRaced \in BOOLEAN
    /\ aborted \in BOOLEAN

\* The type invariant, of Blockchain too.  A loop that is not in addBlock has no
\* call of it left, and it is in the middle of a payment only inside the loop
\* over the transactions.
NodeTypeOK ==
    /\ TypeOK
    /\ LifecycleOK
    /\ AddingOK
    /\ QueueOK
    /\ lastBlockHeight \in Nat

\* A submitted transaction stays pending until a block of the chain carries it, or
\* carries another of the same hash, which takes it out of the queue as well: a
\* block that is refused, at either of its two validations or by the vote, takes
\* nothing out of it.  That holds until two operations on the queue meet, a
\* submission and a removal say: then a submitted transaction may be lost.
SubmittedIsKept ==
    queueRaced \/ \A tx \in submitted :
        \/ \E i \in DOMAIN pendingTransactions : pendingTransactions[i] = tx
        \/ \E i \in DOMAIN chain : \E j \in DOMAIN chain[i].transactions :
             chain[i].transactions[j].hash = tx.hash

\* The height that the node reports is never ahead of the chain.  When no call
\* is under way it is the length of the chain, once a block was added, unless
\* two calls overlapped: then the later length may be stored first.
HeightFollowsChain ==
    /\ lastBlockHeight <= Len(chain)
    /\ \/ overlapped
       \/ \E c \in Callers : Unstored(c)
       \/ Len(chain) = 1
       \/ lastBlockHeight = Len(chain)

\* The balances that a list of transactions leaves, taken in order.
Settle(balances, txs) ==
    LET after[i \in 0..Len(txs)] ==
          IF i = 0 THEN balances ELSE Transfer(after[i - 1], txs[i])
    IN  after[Len(txs)]

SettledChain ==
    LET after[i \in 0..Len(chain)] ==
          IF i = 0 THEN Funds ELSE Settle(after[i - 1], chain[i].transactions)
    IN  after[Len(chain)]

\* The balances are what the payments of the chain, in order, make of the
\* funds, payments to oneself included, unless two calls overlapped: then an
\* update may be lost.
BalancesFollowChain ==
    \/ overlapped
    \/ \E c \in Callers : pc[c] = "process"
    \/ accountBalances = SettledChain

\* Calls of start and stop that come one after the other, from whatever threads
\* and however often, never assign to a thread that was not joined.  (start
\* tests and sets the flag in two steps, so two of them, or a start and a stop,
\* may.)
TerminatedByRaceOnly == terminated => raced
=============================================================================
