------------------------------- MODULE MCNode -------------------------------
(***************************************************************************)
(* Instance of Node for TLC: two accounts, blocks with a payment to the    *)
(* sender itself and one to the other, blocks with a message only, and     *)
(* blocks that validateBlock refuses.                                      *)
(***************************************************************************)
EXTENDS Node, TLC

CONSTANTS alice, bob, s1, s2

MCAccounts == {alice, bob}

MCFunds == [a \in MCAccounts |-> IF a = alice THEN 1 ELSE 0]

Tx(h, type, from, to, n, ok) ==
    [hash |-> h, type |-> type, sender |-> from, recipient |-> to,
     amount |-> n, valid |-> ok]

\* The first two share their hash: they were built within the same second.
pay  == Tx(1, "FINANCIAL", alice, bob, 1, TRUE)
text == Tx(1, "MESSAGE", alice, bob, 0, TRUE)
own  == Tx(2, "FINANCIAL", alice, alice, 1, TRUE)
junk == Tx(3, "MESSAGE", bob, alice, 0, FALSE)

MCTransactions == {pay, text, own, junk}

MCSubmissions == {pay, junk}

MCBodies == {<<text>>, <<own, pay>>, <<junk>>}

MCStarters == {s1, s2}
StartersAlike == Permutations(MCStarters)

MCValidators == {[address |-> "v1", type |-> "HYBRID", slot |-> 1]}
=============================================================================
