---------------------------- MODULE Transaction ----------------------------
(***************************************************************************)
(* class Transaction (src/core/transaction.cpp): how a transaction is      *)
(* built, hashed, signed and verified.  Operators on values; the module has *)
(* no state.                                                               *)
(***************************************************************************)
EXTENDS Integers, Sequences, FiniteSets

CONSTANTS
    Amounts,    \* the amounts in use; an output that was given none has any of them
    Keys,       \* private keys; a key stands for its public key and its address too
    Texts,      \* plain texts
    Vectors,    \* the random vectors of encryptions
    InputHash,  \* what getHash of an input returns for a coin, a text
    OutputHash, \* what getHash of an output returns, a text
    Nothing     \* stands for an empty string, a missing signature or a missing key

\* A text is a sequence of pieces.  These are the pieces that a status prints.
StatusNumber == [PENDING |-> "0", CONFIRMED |-> "1", FAILED |-> "2", EXPIRED |-> "3"]

\* A signature is what was signed and the key, an input what it spends and who
\* signed it.  The type of the transaction is not a member: the constructor
\* ignores it.
Unsigned(coin) == [coin |-> coin, signature |-> Nothing, publicKey |-> Nothing]

NoCall == [address |-> <<>>, method |-> <<>>, parameters |-> <<>>]

\* The texts one behind the other, with nothing between them.
Joined(texts) ==
    LET joined[i \in 0..Len(texts)] ==
          IF i = 0 THEN <<>> ELSE joined[i - 1] \o texts[i]
    IN  joined[Len(texts)]

InputText(tx) ==
    Joined([i \in DOMAIN tx.inputs |-> InputHash[tx.inputs[i].coin]])

OutputText(tx) == Joined([i \in DOMAIN tx.outputs |-> OutputHash[tx.outputs[i]]])

MessageText(tx) ==
    IF tx.message = Nothing THEN <<>>
    ELSE tx.message.encrypted \o <<tx.message.recipient>>

\* Without an address, neither the method nor the parameters count.
ContractText(tx) ==
    IF tx.contract.address = <<>> THEN <<>>
    ELSE tx.contract.address \o tx.contract.method \o Joined(tx.contract.parameters)

\* What follows the inputs; lockTime is always zero.
TextBehindInputs(tx) ==
    OutputText(tx) \o (<<"0", StatusNumber[tx.status]>> \o
    (MessageText(tx) \o ContractText(tx)))

-----------------------------------------------------------------------------
\* Operators called ...Defect are variants of the definition that follows them,
\* each with a mistake that a property has to notice; nothing uses them.

\* The message is left out.
calculateHashDefect(tx) ==
    (<<tx.timestamp>> \o InputText(tx)) \o TextBehindInputs([tx EXCEPT !.message = Nothing])

\* SHA-256 is taken to be injective, so the digest is the text that went into it.
\* getHash of an input is declared only; it is taken to leave out the signature,
\* which sign stores after the digest was computed.
calculateHash(tx) == (<<tx.timestamp>> \o InputText(tx)) \o TextBehindInputs(tx)

Rehashed(tx) == [tx EXCEPT !.hash = calculateHash(tx)]

\* The constructor with the type.
Empty(second) ==
    Rehashed([timestamp |-> second, inputs |-> <<>>, outputs |-> <<>>,
              status |-> "PENDING", message |-> Nothing, contract |-> NoCall,
              hash |-> Nothing])

addInput(tx, coin) == [tx EXCEPT !.inputs = Append(@, Unsigned(coin))]

addOutput(tx, to, amount) ==
    [tx EXCEPT !.outputs = Append(@, [recipient |-> to, amount |-> amount])]

\* The hash is computed after the output was added.
MadeDefect(second, recipient) ==
    {Rehashed(addOutput(Empty(second), recipient, a)) : a \in Amounts}

\* The constructor with the parties: an output whose amount is not initialised,
\* added after the hash was computed.  The sender is not kept.
Made(second, recipient) == {addOutput(Empty(second), recipient, a) : a \in Amounts}

\* setAmount is not declared; the tests take the total output from it.
setAmount(tx, amount) == [tx EXCEPT !.outputs[1].amount = amount]

sign(tx, key) ==
    LET signature == [digest |-> calculateHash(tx), key |-> key]
    IN  [tx EXCEPT !.inputs =
           [i \in DOMAIN tx.inputs |->
              [coin |-> tx.inputs[i].coin, signature |-> signature, publicKey |-> key]]]

\* The cipher's key is all zeros, and neither the recipient's key nor the
\* random vector goes into the result: the ciphertext is told apart by the text
\* and the vector.
encrypt(text, vector) == <<text, vector>>

setMessage(tx, text, recipientPublicKey, vector) ==
    [tx EXCEPT !.message =
       [encrypted |-> encrypt(text, vector), recipient |-> recipientPublicKey]]

setContractCall(tx, call) == Rehashed([tx EXCEPT !.contract = call])

Total(amount(_), seq) ==
    LET sum[i \in 0..Len(seq)] == IF i = 0 THEN 0 ELSE sum[i - 1] + amount(seq[i])
    IN  sum[Len(seq)]

getTotalInput(tx) == Total(LAMBDA input : input.coin.amount, tx.inputs)

getTotalOutput(tx) == Total(LAMBDA output : output.amount, tx.outputs)

\* Encryption::verify, declared only.
SignatureFits(digest, input) ==
    input.signature = [digest |-> digest, key |-> input.publicKey]

\* TransactionInput::verify is declared only and left out.
verify(tx) ==
    /\ tx.inputs # <<>>
    /\ tx.outputs # <<>>
    /\ getTotalInput(tx) >= getTotalOutput(tx)
    /\ \A i \in DOMAIN tx.inputs : SignatureFits(calculateHash(tx), tx.inputs[i])
=============================================================================
