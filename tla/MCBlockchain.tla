---------------------------- MODULE MCBlockchain ----------------------------
(***************************************************************************)
(* Instances of Blockchain for TLC: two accounts that blocks pay from, a   *)
(* third that money comes from, and three validator registrations.         *)
(***************************************************************************)
EXTENDS Blockchain

CONSTANTS alice, bob, bank

MCAccounts == {alice, bob, bank}

Tx(h, type, from, to, n, ok) ==
    [hash |-> h, type |-> type, sender |-> from, recipient |-> to,
     amount |-> n, valid |-> ok]

\* Two of them share their hash: they were built within the same second.
pay  == Tx(1, "FINANCIAL", alice, bob, 1, TRUE)
text == Tx(1, "MESSAGE", alice, bob, 1, TRUE)
back == Tx(2, "FINANCIAL", bob, alice, 1, TRUE)
junk == Tx(3, "MESSAGE", bob, alice, 0, FALSE)
owe  == Tx(5, "FINANCIAL", alice, bob, -1, TRUE)  \* no code looks at the sign

MCTransactions == {pay, text, back, junk, owe}

\* Empty, one payment, a double spend, a message and a payment, a payment that the
\* recipient spends on in the same block, an invalid transaction behind a valid one,
\* a payment of a negative amount.
MCBodies == {<<>>, <<pay>>, <<pay, pay>>, <<text, pay>>, <<pay, back>>, <<text, junk>>,
             <<owe>>}
FewBodies == {<<pay>>, <<pay, pay>>, <<text>>, <<owe>>}

\* Money enters from an account outside the blocks.
MCDirect == {Tx(4, "FINANCIAL", bank, alice, 1, TRUE)}

Registration(address, type, slot) ==
    [address |-> address, type |-> type, slot |-> slot]

\* Two of three votes miss the threshold of 75 percent, the three meet it; two
\* registrations are of one validator, and one may not judge payments.
MCValidators ==
    {Registration("v1", "FINANCIAL", 1), Registration("v2", "MESSAGE", 1),
     Registration("v1", "FINANCIAL", 2)}
=============================================================================
