------------------------------- MODULE Wallet -------------------------------
(***************************************************************************)
(* class Wallet (src/wallet/wallet.cpp): payments and messages that        *)
(* wallets make and receive, next to messages that somebody builds with    *)
(* the operations of class Transaction directly.                           *)
(***************************************************************************)
EXTENDS Transaction

CONSTANTS
    Wallets,
    Coins,        \* what inputs spend
    MaxMade,      \* bound: transactions that all wallets make
    MaxReceived   \* bound: messages that all wallets keep

VARIABLES
    key,              \* wallet -> its key pair and address
    balance,          \* wallet -> balance
    pending,          \* wallet -> payments it made
    sentMessages,     \* wallet -> messages it made
    receivedMessages, \* wallet -> messages it keeps
    made              \* transactions that wallets made

boxes == <<sentMessages, receivedMessages>>
money == <<balance, pending>>
vars == <<key, made, money, boxes>>

Now == "1"  \* everything happens within one second

\* balance is not initialised.
Init ==
    /\ key \in {k \in [Wallets -> Keys] : \A v, w \in Wallets : k[v] = k[w] => v = w}
    /\ balance \in [Wallets -> Amounts]
    /\ pending = [w \in Wallets |-> <<>>]
    /\ sentMessages = [w \in Wallets |-> <<>>]
    /\ receivedMessages = [w \in Wallets |-> <<>>]
    /\ made = 0

-----------------------------------------------------------------------------
(* A wallet *)

MayMake == made < MaxMade

\* signTransaction is not declared anywhere.  It is taken to sign the inputs that
\* there are, or none.
signTransaction(tx, k) == {tx, sign(tx, k)}

\* A greater amount throws.  The balance stays what it is.
createTransaction(w, recipient, amount) ==
    /\ MayMake
    /\ made' = made + 1
    /\ amount <= balance[w]
    /\ \E tx \in Made(Now, recipient) :
         \E payment \in signTransaction(setAmount(tx, amount), key[w]) :
           pending' = [pending EXCEPT ![w] = Append(@, payment)]
    /\ UNCHANGED <<key, balance, boxes>>

\* The recipient's address takes the place of the public key.
createMessage(w, recipient, text) ==
    /\ MayMake
    /\ made' = made + 1
    /\ \E tx \in Made(Now, recipient), vector \in Vectors :
         \E messageTx \in signTransaction(setMessage(tx, text, recipient, vector), key[w]) :
           sentMessages' = [sentMessages EXCEPT ![w] = Append(@, messageTx)]
    /\ UNCHANGED <<key, money, receivedMessages>>

\* A message that spends a coin and is signed by somebody.
BuiltByHand ==
    UNION {{sign(addInput(setMessage(tx, text, to, vector), coin), k) : tx \in Made(Now, to)} :
             text \in Texts, vector \in Vectors, to \in Keys, coin \in Coins, k \in Keys}

\* What may arrive: any message a wallet made, once or several times, in any
\* order, and what was built by hand.
Arriving ==
    BuiltByHand
      \cup UNION {{sentMessages[w][i] : i \in DOMAIN sentMessages[w]} : w \in Wallets}

\* verifySignature is not declared anywhere either.  It may be verify, or look at
\* the signatures only, of which a transaction without inputs has none.
verifySignature(tx) ==
    {verify(tx), \A i \in DOMAIN tx.inputs : SignatureFits(calculateHash(tx), tx.inputs[i])}

MayKeep ==
    Cardinality(UNION {{w} \X DOMAIN receivedMessages[w] : w \in Wallets}) < MaxReceived

\* A message to another address throws; getRecipient is not declared and taken
\* to be the recipient of the first output.
receiveMessage(w, tx) ==
    /\ MayKeep
    /\ tx.outputs # <<>>
    /\ tx.outputs[1].recipient = key[w]
    /\ TRUE \in verifySignature(tx)
    /\ receivedMessages' = [receivedMessages EXCEPT ![w] = Append(@, tx)]
    /\ UNCHANGED <<made, key, money, sentMessages>>

\* Declared only.
updateBalance(w, newBalance) ==
    /\ balance' = [balance EXCEPT ![w] = newBalance]
    /\ UNCHANGED <<made, key, pending, boxes>>

\* The keys are random: never one in use.
generateNewKeys(w) ==
    /\ \E k \in Keys \ {key[v] : v \in Wallets} : key' = [key EXCEPT ![w] = k]
    /\ UNCHANGED <<made, money, boxes>>

-----------------------------------------------------------------------------
WalletStep(w) ==
    \/ \E recipient \in Keys, amount \in Amounts : createTransaction(w, recipient, amount)
    \/ \E recipient \in Keys, text \in Texts : createMessage(w, recipient, text)
    \/ \E tx \in Arriving : receiveMessage(w, tx)
    \/ \E newBalance \in Amounts : updateBalance(w, newBalance)
    \/ generateNewKeys(w)

Next == \E w \in Wallets : WalletStep(w)

Spec == Init /\ [][Next]_vars
-----------------------------------------------------------------------------
(* Properties *)

IsTransaction(tx) ==
    /\ tx.outputs \in Seq([recipient : Keys, amount : Amounts])
    /\ tx.message \in [encrypted : {encrypt(text, vector) : text \in Texts, vector \in Vectors},
                       recipient : Keys] \cup {Nothing}
    /\ tx.status = "PENDING"
    /\ \A i \in DOMAIN tx.inputs : tx.inputs[i].coin \in Coins

\* The type invariant.  Two wallets never share a key.  The hash is computed
\* before there is an output and never again, so all that wallets make and keep
\* of one second has the same hash, as if it were empty.
TypeOK ==
    /\ key \in [Wallets -> Keys]
    /\ \A v, w \in Wallets : key[v] = key[w] => v = w
    /\ balance \in [Wallets -> Amounts]
    /\ \A w \in Wallets : \A box \in {pending[w], sentMessages[w], receivedMessages[w]} :
         \A i \in DOMAIN box :
           /\ IsTransaction(box[i])
           /\ box[i].hash = Empty(Now).hash
    /\ made \in Nat

\* tests/test_wallet.cpp:34: the payment that createTransaction returns verifies.
\* It has an output only, and verify refuses what has no input.
PaymentVerifies == \A w \in Wallets : \A i \in DOMAIN pending[w] : verify(pending[w][i])
=============================================================================
