------------------------------ MODULE MCWallet ------------------------------
(***************************************************************************)
(* Instance of Wallet for TLC: two wallets, three key pairs, amounts 1 and *)
(* 2 and a coin worth 1.                                                   *)
(***************************************************************************)
EXTENDS Wallet, TLC

CONSTANTS k1, k2, k3, w1, w2

MCKeys == {k1, k2, k3}
MCWallets == {w1, w2}
MCCoins == {[tx |-> "earlier", amount |-> 1]}
MCInputHash == [coin \in MCCoins |-> <<"input">>]
MCOutputHash ==
    [output \in [recipient : MCKeys, amount : Amounts] |->
       <<output.recipient, IF output.amount = 1 THEN "1" ELSE "2">>]

Alike == Permutations(MCKeys) \cup Permutations(MCWallets)
=============================================================================
