---------------------------- MODULE MCBlockCache ----------------------------
(***************************************************************************)
(* Instances of BlockCache for TLC: transactions of which two share their  *)
(* hash, and blocks with more transactions than the cache may hold.        *)
(***************************************************************************)
EXTENDS BlockCache

Tx(h, type) ==
    [hash |-> h, type |-> type, sender |-> "alice", recipient |-> "bob",
     amount |-> 1, valid |-> TRUE]

\* Built within one second, so the first two have the same hash.
payment == Tx(1, "FINANCIAL")
message == Tx(1, "MESSAGE")
later   == Tx(2, "MESSAGE")
reward  == Tx(3, "REWARD")

MCTransactions == {payment, message, later, reward}

MCBodies == {<<payment, message>>, <<later, payment>>, <<reward, later, message>>}
=============================================================================
