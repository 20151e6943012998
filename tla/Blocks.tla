------------------------------- MODULE Blocks -------------------------------
(***************************************************************************)
(* The values the blockchain works on: transactions and blocks, as         *)
(* src/core/transaction.cpp and src/core/block.cpp build them.  The module has *)
(* no state; the state machines EXTEND it.                                 *)
(***************************************************************************)
EXTENDS Integers, Sequences, FiniteSets

CONSTANTS
    Accounts,      \* the addresses that transactions name
    Transactions,  \* the transactions that callers may build
    BlockBodies,   \* the transaction vectors that callers may put in a block
    Stamps         \* what a caller picks freely in a block: index, timestamp, nonce

TransactionType == {"FINANCIAL", "MESSAGE", "REWARD"}

\* A transaction, as far as blocks and balances can tell: "hash" is what
\* getHash() returns, and need not be unique (the constructor computes it before
\* the outputs exist); "valid" is the answer of Transaction::isValid().
Transaction == [hash : Nat, type : TransactionType, sender : Accounts,
                recipient : Accounts, amount : Int, valid : BOOLEAN]

ASSUME TransactionsAssumption == Transactions \subseteq Transaction

ASSUME BodiesAssumption == BlockBodies \subseteq Seq(Transactions)

-----------------------------------------------------------------------------
\* SHA256 is taken to be injective, so a digest is the tuple it was computed
\* from.  Only the hashes of the transactions enter it, never their contents.
\* The hashed stream has no separators, but every part of it has a fixed
\* width except the first and the last, which the stamp stands for.
calculateHash(stamp, txs, previousHash) ==
    <<stamp, previousHash, [i \in DOMAIN txs |-> txs[i].hash]>>

\* The constructor; a block that was mined afterwards is one with another nonce,
\* that is, another stamp.
Block(stamp, txs, previousHash) ==
    [stamp        |-> stamp,
     transactions |-> txs,
     previousHash |-> previousHash,
     hash         |-> calculateHash(stamp, txs, previousHash)]

\* The previous hash of the genesis block, the literal "0" in the code.
NoHash == <<>>

Genesis == Block(0, <<>>, NoHash)

\* Block::isValid: the digest still matches and every transaction is valid.
isValid(b) ==
    /\ calculateHash(b.stamp, b.transactions, b.previousHash) = b.hash
    /\ \A i \in DOMAIN b.transactions : b.transactions[i].valid

HasFinancial(b) ==
    \E i \in DOMAIN b.transactions : b.transactions[i].type = "FINANCIAL"

\* Blockchain::processTransaction: only a FINANCIAL transaction moves money,
\* out of the sender and then into the recipient, who may be the same account.
Transfer(balances, tx) ==
    IF tx.type # "FINANCIAL"
    THEN balances
    ELSE LET debited == [balances EXCEPT ![tx.sender] = @ - tx.amount]
         IN  [debited EXCEPT ![tx.recipient] = @ + tx.amount]
=============================================================================
