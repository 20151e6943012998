------------------------- MODULE MCConsensusManager -------------------------
(***************************************************************************)
(* Instances of ConsensusManager for TLC: two addresses, one of them       *)
(* registered with two types, and blocks that all, some or none approve.   *)
(***************************************************************************)
EXTENDS ConsensusManager

CONSTANTS alice, bob

MCAccounts == {alice, bob}

Tx(type, ok) ==
    [hash |-> 1, type |-> type, sender |-> alice, recipient |-> bob,
     amount |-> 1, valid |-> ok]

payment == Tx("FINANCIAL", TRUE)
message == Tx("MESSAGE", TRUE)
invalid == Tx("MESSAGE", FALSE)

MCTransactions == {payment, message, invalid}

MCBodies == {<<payment, message>>, <<message>>, <<invalid>>}

MCValidators ==
    {[address |-> "v1", type |-> "FINANCIAL"],
     [address |-> "v1", type |-> "MESSAGE"],
     [address |-> "v2", type |-> "HYBRID"]}
=============================================================================
