----------------------------- MODULE MCObjects -----------------------------
(***************************************************************************)
(* Instances for TLC of the objects that one thread uses at a time.        *)
(***************************************************************************)
EXTENDS Objects

CONSTANTS k1, k2, k3, w1, w2, x, y

MCCoins == {[tx |-> "earlier", amount |-> 2]}

\* An input's hash is a piece of its own; an output's begins with the recipient,
\* so it runs together with what comes before it.
MCInputHash == [coin \in MCCoins |-> <<"input">>]
MCOutputHash ==
    [output \in [recipient : Keys \cup WalletKeys, amount : Amounts] |->
       <<output.recipient, IF output.amount = 1 THEN "1" ELSE "2">>]

\* Two calls that run together, and one without an address.
MCCalls ==
    {[address |-> <<"c">>, method |-> <<"a", "b">>, parameters |-> <<>>],
     [address |-> <<"c">>, method |-> <<"a">>, parameters |-> <<<<"b">>>>],
     [address |-> <<>>, method |-> <<"m">>, parameters |-> <<>>]}

MCPieces ==
    {"0", "1", "2", "3", "4", "5", "6", "7", "8", "9", "input", "a", "b", "c", "m",
     "hello", "v1", "v2", "ann", "{", "\n"} \cup Keys \cup WalletKeys

\* The second owner's name begins with what the second bytecode ends with.
MCBytecodes ==
    {<<>>, <<"CONSTRUCTOR">>, <<"CONSTRUCTOR", "STORE">>, <<"CONSTRUCTOR", "X">>}
MCOwners == {<<"ann">>, <<"STORE", "ann">>}

\* The third runs together like the first and the second; the fourth is the hash
\* above them, doubleHash of the third.
MCLeaves == {<<x>>, <<y>>, <<x, y>>, <<<<<<x, y>>>>>>}

MCStakeAmounts == {-1, 0, 1}

\* A sender that could be a part of a type's number, a payload as the factories
\* write them, one that goes on into the timestamp, and one that differs.
MCSenders == {<<"ann">>, <<"0">>}
MCPayloads == {<<"{", "a", "\n">>}
MCStrays == {<<"{", "a", "\n", "1">>, <<"{", "b", "\n">>}
MCTimes == {<<"2">>, <<"1", "2">>}
=============================================================================
