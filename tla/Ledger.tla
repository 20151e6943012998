------------------------------- MODULE Ledger -------------------------------
(***************************************************************************)
(* What Blockchain promises, without its votes, its calls and its failure  *)
(* paths: a chain that grows by one linked block at a time, and balances   *)
(* to which the transactions of a block are applied in order, each once,   *)
(* all of them before the next block is linked.                            *)
(***************************************************************************)
EXTENDS Blocks

CONSTANT DirectTransactions \* applied on their own, outside any block

VARIABLES
    chain,     \* the blocks, genesis first
    balances,  \* account -> balance
    applied    \* how many transactions of the latest block were applied

ledgerVars == <<chain, balances, applied>>

Latest == chain[Len(chain)]

Init ==
    /\ chain = <<Genesis>>
    /\ balances = [a \in Accounts |-> 0]
    /\ applied = 0

Extend ==
    /\ applied = Len(Latest.transactions)
    /\ \E s \in Stamps, txs \in BlockBodies :
         chain' = Append(chain, Block(s, txs, Latest.hash))
    /\ applied' = 0
    /\ UNCHANGED balances

Apply ==
    /\ applied < Len(Latest.transactions)
    /\ balances' = Transfer(balances, Latest.transactions[applied + 1])
    /\ applied' = applied + 1
    /\ UNCHANGED chain

ApplyDirectly ==
    /\ \E tx \in DirectTransactions : balances' = Transfer(balances, tx)
    /\ UNCHANGED <<chain, applied>>

Next == Extend \/ Apply \/ ApplyDirectly

Spec == Init /\ [][Next]_ledgerVars
=============================================================================
