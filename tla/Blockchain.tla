----------------------------- MODULE Blockchain -----------------------------
(***************************************************************************)
(* class Blockchain (src/core/blockchain.cpp): the chain, the account      *)
(* balances and the two validator pools, and the calls that threads of a   *)
(* node make on one shared object.                                         *)
(*                                                                         *)
(* The class has no lock, so addBlock is not atomic.  A call is split      *)
(* where another thread's effects can come between what it has read and    *)
(* what it does next: after validateBlock, after reachConsensus, after the *)
(* push and after each processed transaction.                              *)
(***************************************************************************)
EXTENDS Validation

CONSTANTS
    Callers,             \* threads that call addBlock on the object
    DirectTransactions,  \* what the public processTransaction is called with
    MaxChain,            \* bound: no call starts once the chain is this long
    MaxDirect            \* bound: direct calls of processTransaction

ASSUME BoundsAssumption == MaxChain \in Nat /\ MaxDirect \in Nat

ASSUME DirectAssumption == DirectTransactions \subseteq Transaction

VARIABLES
    chain,                \* the vector of blocks, genesis first
    accountBalances,      \* account -> balance; an absent map entry is 0
    messageValidators,    \* the two pools of registrations
    financialValidators,
    pc,                   \* caller -> where its addBlock call is
    block,                \* caller -> the block of the call, Genesis when idle
    done,                 \* caller -> transactions of it already processed
    votes,                \* caller -> registrations that approved its block
    endorsed,             \* history: per block of the chain, who approved it
    direct                \* history: the direct calls of processTransaction

call == <<pc, block, done, votes>>
pools == <<messageValidators, financialValidators>>
vars == <<chain, accountBalances, pools, call, endorsed, direct>>

\* Operators called ...Defect are variants of the definition that follows them,
\* each with a mistake that a property has to notice; nothing uses them.

consensusThreshold == 75

getLatestBlock == chain[Len(chain)]

InitDefect ==
    /\ chain = <<>>  \* no genesis block
    /\ accountBalances = [a \in Accounts |-> 0]
    /\ messageValidators = {}
    /\ financialValidators = {}
    /\ pc = [c \in Callers |-> "idle"]
    /\ block = [c \in Callers |-> Genesis]
    /\ done = [c \in Callers |-> 0]
    /\ votes = [c \in Callers |-> {}]
    /\ endorsed = <<{}>>
    /\ direct = <<>>

Init ==
    /\ chain = <<Genesis>>
    /\ accountBalances = [a \in Accounts |-> 0]
    /\ messageValidators = {}
    /\ financialValidators = {}
    /\ pc = [c \in Callers |-> "idle"]
    /\ block = [c \in Callers |-> Genesis]
    /\ done = [c \in Callers |-> 0]
    /\ votes = [c \in Callers |-> {}]
    /\ endorsed = <<{}>>
    /\ direct = <<>>

-----------------------------------------------------------------------------
(* Reads *)

\* The comparison with the latest block is left out.
validateBlockLinkDefect(b) ==
    /\ isValid(b)
    /\ \A i \in DOMAIN b.transactions :
         LET tx == b.transactions[i]
         IN  /\ tx.valid
             /\ tx.type = "FINANCIAL" => accountBalances[tx.sender] >= tx.amount

\* The balance may fall short by one.
validateBlockSmallDefect(b) ==
    /\ isValid(b)
    /\ b.previousHash = getLatestBlock.hash
    /\ \A i \in DOMAIN b.transactions :
         LET tx == b.transactions[i]
         IN  /\ tx.valid
             /\ tx.type = "FINANCIAL" => accountBalances[tx.sender] >= tx.amount - 1

\* Each transaction is compared with the balance before the block, not with
\* what the transactions ahead of it in the block leave.
validateBlock(b) ==
    /\ isValid(b)
    /\ b.previousHash = getLatestBlock.hash
    /\ \A i \in DOMAIN b.transactions :
         LET tx == b.transactions[i]
         IN  /\ tx.valid
             /\ tx.type = "FINANCIAL" => accountBalances[tx.sender] >= tx.amount

\* The search for a FINANCIAL transaction runs from the begin() of one copy of
\* the vector to the end() of another.  Both are null for an empty vector;
\* otherwise the distance is garbage, a negative one ends the search at once,
\* and either answer can come out.
HasFinancialOutcomes(b) == IF b.transactions = <<>> THEN {FALSE} ELSE BOOLEAN

\* approvals * 100.0 / count >= threshold.  An empty pool makes it 0/0, a NaN,
\* which compares false; else rounding cannot hide a difference of 1/count.
Reached(approving, pool) ==
    /\ pool # {}
    /\ Cardinality(approving) * 100 >= consensusThreshold * Cardinality(pool)

-----------------------------------------------------------------------------
(* addBlock, step by step *)

Return(c) ==
    /\ pc' = [pc EXCEPT ![c] = "idle"]
    /\ block' = [block EXCEPT ![c] = Genesis]
    /\ done' = [done EXCEPT ![c] = 0]
    /\ votes' = [votes EXCEPT ![c] = {}]

\* A block names the latest block or, when the chain has grown since, an earlier
\* one, or it is a peer's genesis block.
PreviousHashes == {NoHash} \cup {chain[i].hash : i \in DOMAIN chain}

CallAddBlock(c) ==
    /\ pc[c] = "idle"
    /\ Len(chain) < MaxChain
    /\ \E s \in Stamps, txs \in BlockBodies, p \in PreviousHashes :
         block' = [block EXCEPT ![c] = Block(s, txs, p)]
    /\ pc' = [pc EXCEPT ![c] = "validate"]
    /\ UNCHANGED <<chain, accountBalances, pools, done, votes, endorsed, direct>>

ValidateBlock(c) ==
    /\ pc[c] = "validate"
    /\ IF validateBlock(block[c])
       THEN /\ pc' = [pc EXCEPT ![c] = "consensus"]
            /\ UNCHANGED <<block, done, votes>>
       ELSE Return(c)
    /\ UNCHANGED <<chain, accountBalances, pools, endorsed, direct>>

ReachConsensus(c) ==
    /\ pc[c] = "consensus"
    /\ \E hasFinancialTx \in HasFinancialOutcomes(block[c]) :
         LET pool == IF hasFinancialTx THEN financialValidators
                                       ELSE messageValidators
             approving == {v \in pool : Approves(v, block[c])}
         IN  IF Reached(approving, pool)
             THEN /\ pc' = [pc EXCEPT ![c] = "push"]
                  /\ votes' = [votes EXCEPT ![c] = approving]
                  /\ UNCHANGED <<block, done>>
             ELSE Return(c)
    /\ UNCHANGED <<chain, accountBalances, pools, endorsed, direct>>

Push(c) ==
    /\ pc[c] = "push"
    /\ chain' = Append(chain, block[c])
    /\ endorsed' = Append(endorsed, votes[c])
    /\ pc' = [pc EXCEPT ![c] = "process"]
    /\ UNCHANGED <<accountBalances, pools, block, done, votes, direct>>

\* Every round processes the first transaction.
ProcessNextDefect(c) ==
    /\ pc[c] = "process"
    /\ done[c] < Len(block[c].transactions)
    /\ accountBalances' = Transfer(accountBalances, block[c].transactions[1])
    /\ done' = [done EXCEPT ![c] = @ + 1]
    /\ UNCHANGED <<chain, pools, pc, block, votes, endorsed, direct>>

\* One round of the processing loop.
ProcessNext(c) ==
    /\ pc[c] = "process"
    /\ done[c] < Len(block[c].transactions)
    /\ accountBalances' =
         Transfer(accountBalances, block[c].transactions[done[c] + 1])
    /\ done' = [done EXCEPT ![c] = @ + 1]
    /\ UNCHANGED <<chain, pools, pc, block, votes, endorsed, direct>>

Finish(c) ==
    /\ pc[c] = "process"
    /\ done[c] = Len(block[c].transactions)
    /\ Return(c)
    /\ UNCHANGED <<chain, accountBalances, pools, endorsed, direct>>

-----------------------------------------------------------------------------
(* The other public operations that change state *)

ProcessTransaction ==
    /\ Len(direct) < MaxDirect
    /\ \E tx \in DirectTransactions :
         /\ accountBalances' = Transfer(accountBalances, tx)
         /\ direct' = Append(direct, tx)
    /\ UNCHANGED <<chain, pools, call, endorsed>>

\* Declared in blockchain.hpp, defined nowhere: modelled as the declaration and
\* the loop over the pools suggest.
RegisterValidator(v, isFinancialValidator) ==
    /\ IF isFinancialValidator
       THEN /\ v \notin financialValidators
            /\ financialValidators' = financialValidators \cup {v}
            /\ UNCHANGED messageValidators
       ELSE /\ v \notin messageValidators
            /\ messageValidators' = messageValidators \cup {v}
            /\ UNCHANGED financialValidators
    /\ UNCHANGED <<chain, accountBalances, call, endorsed, direct>>

RemoveValidator(validatorAddress) ==
    /\ \E v \in messageValidators \cup financialValidators :
         v.address = validatorAddress
    /\ messageValidators' =
         {v \in messageValidators : v.address # validatorAddress}
    /\ financialValidators' =
         {v \in financialValidators : v.address # validatorAddress}
    /\ UNCHANGED <<chain, accountBalances, call, endorsed, direct>>

AddBlockStep(c) ==
    \/ CallAddBlock(c)
    \/ ValidateBlock(c)
    \/ ReachConsensus(c)
    \/ Push(c)
    \/ ProcessNext(c)
    \/ Finish(c)

Next ==
    \/ \E c \in Callers : AddBlockStep(c)
    \/ ProcessTransaction
    \/ \E v \in Validators, isFinancialValidator \in BOOLEAN :
         RegisterValidator(v, isFinancialValidator)
    \/ \E v \in Validators : RemoveValidator(v.address)

Spec == Init /\ [][Next]_vars
-----------------------------------------------------------------------------
(* Properties *)

\* A block always has the shape the constructor gives it, and its digest.
BlockShape ==
    {Block(s, txs, p) : s \in Stamps, txs \in BlockBodies, p \in PreviousHashes}

CallsOK ==
    /\ pc \in [Callers -> {"idle", "validate", "consensus", "push", "process"}]
    /\ block \in [Callers -> BlockShape \cup {Genesis}]
    /\ done \in [Callers -> Nat]
    /\ votes \in [Callers -> SUBSET Validators]
    /\ \A c \in Callers :
         /\ pc[c] = "idle" => block[c] = Genesis
         /\ pc[c] # "idle" => block[c] \in BlockShape
         /\ pc[c] # "process" => done[c] = 0
         /\ done[c] <= Len(block[c].transactions)
         /\ pc[c] \notin {"push", "process"} => votes[c] = {}

ChainOK ==
    /\ chain # <<>>
    /\ chain[1] = Genesis
    /\ chain \in Seq(BlockShape \cup {Genesis})
    /\ endorsed \in Seq(SUBSET Validators)
    /\ Len(endorsed) = Len(chain)

\* The type invariant.  An idle caller holds nothing of an earlier call, a
\* caller that has not pushed yet has processed nothing, and the histories run
\* parallel to what they record.
TypeOK ==
    /\ CallsOK
    /\ ChainOK
    /\ accountBalances \in [Accounts -> Int]
    /\ messageValidators \subseteq Validators
    /\ financialValidators \subseteq Validators
    /\ direct \in Seq(DirectTransactions)

\* Each block names the digest of the block before it.  What validateBlock
\* compares once has to stay true until the push, so this is about the gap
\* between them: it holds when one thread at most calls addBlock.
ChainLinked ==
    \A i \in 2..Len(chain) : chain[i].previousHash = chain[i - 1].hash

\* What is left of it when several threads call addBlock: a block validated just
\* before another one was pushed makes the chain fork, but each block still names
\* one that is ahead of it, so following the names leads to the genesis block.
Rooted ==
    \A i \in 2..Len(chain) :
        \E j \in 1..(i - 1) : chain[i].previousHash = chain[j].hash

Sends(a, tx) == tx.type = "FINANCIAL" /\ tx.sender = a

\* Some account spends twice in block b.
DoubleSpendBy(a, b) ==
    \E i, j \in DOMAIN b.transactions :
        /\ i # j
        /\ Sends(a, b.transactions[i])
        /\ Sends(a, b.transactions[j])

\* A transfer of a negative amount debits the account that it names as recipient,
\* whose balance nobody compares with anything.
Debits(a, tx) == tx.type = "FINANCIAL" /\ tx.recipient = a /\ tx.amount < 0

DebitIn(a, b) == \E i \in DOMAIN b.transactions : Debits(a, b.transactions[i])

\* The balance check has two holes and no third: an account goes below zero only
\* if one block of the chain holds two payments of it, or some block a payment of
\* a negative amount to it.  (processTransaction, called directly, checks
\* nothing, so the accounts that such a call debited are left out.)
OverdraftHasItsBlock ==
    \A a \in Accounts :
        \/ accountBalances[a] >= 0
        \/ \E i \in DOMAIN direct : Sends(a, direct[i]) \/ Debits(a, direct[i])
        \/ \E i \in DOMAIN chain : DoubleSpendBy(a, chain[i]) \/ DebitIn(a, chain[i])

\* Whatever pool a block is judged by, the genesis block is the only one that
\* nobody approved, and a block with a FINANCIAL transaction was approved by a
\* registration that may judge it: neither an empty pool nor the ill-formed
\* search for FINANCIAL transactions lets one through.
EveryBlockEndorsed ==
    \A i \in 2..Len(chain) :
        \E v \in endorsed[i] : HasFinancial(chain[i]) => v.type # "MESSAGE"

\* Balances start at zero and a payment above zero is refused at balance zero, so
\* until something calls processTransaction directly the first money comes from a
\* payment of a negative amount: while the chain holds none, all accounts stay at
\* zero, whatever the interleaving of the calls.
FirstMoneyIsNegative ==
    \/ direct # <<>>
    \/ \E a \in Accounts : \E i \in DOMAIN chain : DebitIn(a, chain[i])
    \/ \A a \in Accounts : accountBalances[a] = 0

\* The single-threaded object implements the ledger: blocks are linked one at
\* a time and each transaction of a block is applied once, in order, before
\* the next block.
Applied ==
    IF \E c \in Callers : pc[c] = "process"
    THEN done[CHOOSE c \in Callers : pc[c] = "process"]
    ELSE Len(getLatestBlock.transactions)

L == INSTANCE Ledger WITH balances <- accountBalances, applied <- Applied

LedgerSpec == L!Spec

\* tests/test_blockchain.cpp, AddBlock: a block on the latest hash that pays
\* once is added.  As an action property: its call never ends before the push.
PaymentBlockIsAdded ==
    [][\A c \in Callers :
         (/\ pc[c] \in {"validate", "consensus"}
          /\ isValid(block[c])
          /\ block[c].previousHash = getLatestBlock.hash
          /\ Len(block[c].transactions) = 1
          /\ HasFinancial(block[c]))
         => pc'[c] # "idle"]_vars
=============================================================================
