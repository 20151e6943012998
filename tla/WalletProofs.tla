---------------------------- MODULE WalletProofs ----------------------------
(***************************************************************************)
(* Theorems about Wallet, for any wallets, keys, texts and coins and boxes *)
(* of any length.                                                          *)
(***************************************************************************)
EXTENDS Wallet, SequenceTheorems, TLAPS

\* Everything createTransaction and createMessage may make.
AnyMade == UNION {Made(Now, recipient) : recipient \in Keys}

Payments ==
    UNION {signTransaction(setAmount(tx, amount), k) :
             tx \in AnyMade, amount \in Amounts, k \in Keys}

Messages ==
    UNION {signTransaction(setMessage(tx, text, to, vector), k) :
             tx \in AnyMade, text \in Texts, to \in Keys, vector \in Vectors, k \in Keys}

Encrypted ==
    [encrypted : {encrypt(text, vector) : text \in Texts, vector \in Vectors},
     recipient : Keys]

-----------------------------------------------------------------------------
(* What is in a transaction *)

\* What the constructor with the parties gives back.
LEMMA MadeShape ==
    ASSUME NEW recipient \in Keys, NEW tx \in Made(Now, recipient)
    PROVE  \E a \in Amounts :
             tx = [timestamp |-> Now, inputs |-> <<>>,
                   outputs |-> <<[recipient |-> recipient, amount |-> a]>>,
                   status |-> "PENDING", message |-> Nothing, contract |-> NoCall,
                   hash |-> Empty(Now).hash]
<1>1. PICK a \in Amounts : tx = addOutput(Empty(Now), recipient, a)
  BY DEF Made
<1>. DEFINE h == Empty(Now).hash
<1>2. Empty(Now) = [timestamp |-> Now, inputs |-> <<>>, outputs |-> <<>>,
                    status |-> "PENDING", message |-> Nothing, contract |-> NoCall,
                    hash |-> h]
  BY DEF Empty, Rehashed
<1>. HIDE DEF h
<1>3. tx = [timestamp |-> Now, inputs |-> <<>>,
            outputs |-> Append(<<>>, [recipient |-> recipient, amount |-> a]),
            status |-> "PENDING", message |-> Nothing, contract |-> NoCall,
            hash |-> h]
  BY <1>1, <1>2 DEF addOutput
<1>4. Append(<<>>, [recipient |-> recipient, amount |-> a])
        = <<[recipient |-> recipient, amount |-> a]>>
  OBVIOUS
<1>. QED  BY <1>3, <1>4 DEF h

\* Signing a transaction without inputs changes nothing, so it does not matter
\* whether signTransaction signs.
LEMMA SignNothing ==
    ASSUME NEW tx, tx.inputs = <<>>, NEW k,
           tx = [timestamp |-> tx.timestamp, inputs |-> tx.inputs, outputs |-> tx.outputs,
                 status |-> tx.status, message |-> tx.message,
                 contract |-> tx.contract, hash |-> tx.hash]
    PROVE  signTransaction(tx, k) = {tx}
<1>. DEFINE signed == [i \in DOMAIN tx.inputs |->
              [coin |-> tx.inputs[i].coin,
               signature |-> [digest |-> calculateHash(tx), key |-> k], publicKey |-> k]]
<1>1. signed = <<>>
  <2>1. DOMAIN tx.inputs = {}
    OBVIOUS
  <2>2. \A f : f = [i \in {} |-> f[i]] => f = <<>>
    OBVIOUS
  <2>. QED  BY <2>1, <2>2
<1>2. sign(tx, k) = [tx EXCEPT !.inputs = signed]
  BY DEF sign
<1>. HIDE DEF signed
<1>3. sign(tx, k) = tx
  BY <1>1, <1>2
<1>. QED  BY <1>3 DEF signTransaction

\* A payment has one output, of the amount that was asked for, and no input.
LEMMA PaymentShape ==
    ASSUME NEW tx \in AnyMade, NEW amount \in Amounts, NEW k \in Keys,
           NEW payment \in signTransaction(setAmount(tx, amount), k)
    PROVE  \E recipient \in Keys : payment =
             [timestamp |-> Now, inputs |-> <<>>,
              outputs |-> <<[recipient |-> recipient, amount |-> amount]>>,
              status |-> "PENDING", message |-> Nothing, contract |-> NoCall,
              hash |-> Empty(Now).hash]
<1>0. PICK recipient \in Keys : tx \in Made(Now, recipient)
  BY DEF AnyMade
<1>. DEFINE h == Empty(Now).hash
            unsigned == [timestamp |-> Now, inputs |-> <<>>,
                         outputs |-> <<[recipient |-> recipient, amount |-> amount]>>,
                         status |-> "PENDING", message |-> Nothing, contract |-> NoCall,
                         hash |-> h]
<1>1. PICK a \in Amounts :
        tx = [timestamp |-> Now, inputs |-> <<>>,
              outputs |-> <<[recipient |-> recipient, amount |-> a]>>,
              status |-> "PENDING", message |-> Nothing, contract |-> NoCall, hash |-> h]
  BY <1>0, MadeShape
<1>. HIDE DEF h
<1>2. [<<[recipient |-> recipient, amount |-> a]>> EXCEPT ![1].amount = amount]
        = <<[recipient |-> recipient, amount |-> amount]>>
  OBVIOUS
<1>3. setAmount(tx, amount) = unsigned
  BY <1>1, <1>2 DEF setAmount
<1>4. signTransaction(unsigned, k) = {unsigned}
  BY SignNothing
<1>. QED  BY <1>3, <1>4 DEF h

\* A message has one output, of any amount, and no input.
LEMMA MessageShape ==
    ASSUME NEW tx \in AnyMade, NEW text \in Texts, NEW to \in Keys, NEW vector \in Vectors,
           NEW k \in Keys, NEW messageTx \in signTransaction(setMessage(tx, text, to, vector), k)
    PROVE  \E recipient \in Keys, a \in Amounts : messageTx =
             [timestamp |-> Now, inputs |-> <<>>,
              outputs |-> <<[recipient |-> recipient, amount |-> a]>>,
              status |-> "PENDING",
              message |-> [encrypted |-> encrypt(text, vector), recipient |-> to],
              contract |-> NoCall, hash |-> Empty(Now).hash]
<1>0. PICK recipient \in Keys : tx \in Made(Now, recipient)
  BY DEF AnyMade
<1>. DEFINE h == Empty(Now).hash
            letter == [encrypted |-> encrypt(text, vector), recipient |-> to]
<1>1. PICK a \in Amounts :
        tx = [timestamp |-> Now, inputs |-> <<>>,
              outputs |-> <<[recipient |-> recipient, amount |-> a]>>,
              status |-> "PENDING", message |-> Nothing, contract |-> NoCall, hash |-> h]
  BY <1>0, MadeShape
<1>. DEFINE message == [timestamp |-> Now, inputs |-> <<>>,
                        outputs |-> <<[recipient |-> recipient, amount |-> a]>>,
                        status |-> "PENDING", message |-> letter, contract |-> NoCall,
                        hash |-> h]
<1>. HIDE DEF h
<1>2. setMessage(tx, text, to, vector) = [tx EXCEPT !.message = letter]
  BY DEF setMessage
<1>. HIDE DEF letter
<1>3. setMessage(tx, text, to, vector) = message
  BY <1>1, <1>2
<1>4. signTransaction(message, k) = {message}
  BY SignNothing
<1>. QED  BY <1>3, <1>4 DEF h, letter

\* What was built by hand has one input, which is signed, and one output.
LEMMA HandShape ==
    ASSUME NEW tx \in BuiltByHand
    PROVE  /\ Len(tx.inputs) = 1 /\ tx.inputs # <<>>
           /\ DOMAIN tx.inputs = {1} /\ tx.inputs[1].coin \in Coins
           /\ \E to \in Keys, a \in Amounts :
                tx.outputs = <<[recipient |-> to, amount |-> a]>>
           /\ tx.message \in Encrypted
           /\ tx.status = "PENDING"
           /\ tx.hash = Empty(Now).hash
<1>0. PICK text \in Texts, vector \in Vectors, to \in Keys, coin \in Coins, k \in Keys :
        \E tx0 \in Made(Now, to) :
          tx = sign(addInput(setMessage(tx0, text, to, vector), coin), k)
  BY DEF BuiltByHand
<1>1. PICK made0 \in Made(Now, to) :
        tx = sign(addInput(setMessage(made0, text, to, vector), coin), k)
  BY <1>0
<1>. DEFINE h == Empty(Now).hash
            letter == [encrypted |-> encrypt(text, vector), recipient |-> to]
<1>2. PICK a \in Amounts :
        made0 = [timestamp |-> Now, inputs |-> <<>>,
                 outputs |-> <<[recipient |-> to, amount |-> a]>>,
                 status |-> "PENDING", message |-> Nothing, contract |-> NoCall, hash |-> h]
  BY MadeShape
<1>. HIDE DEF h
<1>3. setMessage(made0, text, to, vector) = [made0 EXCEPT !.message = letter]
  BY DEF setMessage
<1>4. letter \in Encrypted
  BY DEF Encrypted
<1>. HIDE DEF letter
<1>. DEFINE draft == addInput(setMessage(made0, text, to, vector), coin)
<1>5. draft = [timestamp |-> Now, inputs |-> <<Unsigned(coin)>>,
               outputs |-> <<[recipient |-> to, amount |-> a]>>,
               status |-> "PENDING", message |-> letter, contract |-> NoCall, hash |-> h]
  <2>1. Append(<<>>, Unsigned(coin)) = <<Unsigned(coin)>>
    OBVIOUS
  <2>. QED  BY <1>2, <1>3, <2>1 DEF addInput
<1>6. tx = sign(draft, k)
  BY <1>1
<1>. HIDE DEF draft
<1>. DEFINE signature == [digest |-> calculateHash(draft), key |-> k]
            signed == [i \in {1} |-> [coin |-> draft.inputs[i].coin,
                                      signature |-> signature, publicKey |-> k]]
<1>7. tx = [draft EXCEPT !.inputs = signed]
  <2>1. DOMAIN draft.inputs = {1}
    BY <1>5
  <2>. QED  BY <1>6, <2>1 DEF sign
<1>8. signed = <<[coin |-> coin, signature |-> signature, publicKey |-> k]>>
  <2>1. draft.inputs[1].coin = coin
    BY <1>5 DEF Unsigned
  <2>. HIDE DEF signature
  <2>. QED  BY <2>1
<1>. HIDE DEF signature, signed
<1>9. tx.inputs = signed /\ tx.outputs = draft.outputs /\ tx.message = draft.message
      /\ tx.status = draft.status /\ tx.hash = draft.hash
  BY <1>5, <1>7
<1>10. Len(signed) = 1 /\ signed # <<>> /\ DOMAIN signed = {1} /\ signed[1].coin = coin
  BY <1>8
<1>. QED  BY <1>4, <1>5, <1>9, <1>10 DEF h

-----------------------------------------------------------------------------
(* What wallets hold *)

\* Nothing else is ever in the three boxes.
BoxInv ==
    /\ key \in [Wallets -> Keys]
    /\ \A v, w \in Wallets : key[v] = key[w] => v = w
    /\ balance \in [Wallets -> Amounts]
    /\ pending \in [Wallets -> Seq(Payments)]
    /\ sentMessages \in [Wallets -> Seq(Messages)]
    /\ receivedMessages \in [Wallets -> Seq(BuiltByHand \cup Messages)]
    /\ made \in Nat

LEMMA BoxInit == Init => BoxInv
BY DEF Init, BoxInv

LEMMA BoxNext == BoxInv /\ [Next]_vars => BoxInv'
<1>. SUFFICES ASSUME BoxInv, [Next]_vars PROVE BoxInv'
  OBVIOUS
<1>1. ASSUME made' = made + 1 PROVE made' \in Nat
  BY <1>1 DEF BoxInv
<1>2. ASSUME NEW w \in Wallets, NEW recipient \in Keys, NEW amount \in Amounts,
             createTransaction(w, recipient, amount)
      PROVE  BoxInv'
  <2>1. PICK payment \in Payments : pending' = [pending EXCEPT ![w] = Append(@, payment)]
    <3>1. PICK tx \in Made(Now, recipient) :
            \E payment \in signTransaction(setAmount(tx, amount), key[w]) :
              pending' = [pending EXCEPT ![w] = Append(@, payment)]
      BY <1>2 DEF createTransaction
    <3>2. tx \in AnyMade /\ key[w] \in Keys
      BY DEF AnyMade, BoxInv
    <3>3. signTransaction(setAmount(tx, amount), key[w]) \subseteq Payments
      BY <3>2 DEF Payments
    <3>. QED  BY <3>1, <3>3
  <2>2. pending' \in [Wallets -> Seq(Payments)]
    BY <2>1, AppendProperties DEF BoxInv
  <2>. QED  BY <1>1, <1>2, <2>2 DEF createTransaction, BoxInv, boxes
<1>3. ASSUME NEW w \in Wallets, NEW recipient \in Keys, NEW text \in Texts,
             createMessage(w, recipient, text)
      PROVE  BoxInv'
  <2>1. PICK message \in Messages :
          sentMessages' = [sentMessages EXCEPT ![w] = Append(@, message)]
    <3>1. PICK tx \in Made(Now, recipient), vector \in Vectors :
            \E messageTx \in signTransaction(setMessage(tx, text, recipient, vector), key[w]) :
              sentMessages' = [sentMessages EXCEPT ![w] = Append(@, messageTx)]
      BY <1>3 DEF createMessage
    <3>2. tx \in AnyMade /\ key[w] \in Keys
      BY DEF AnyMade, BoxInv
    <3>3. signTransaction(setMessage(tx, text, recipient, vector), key[w]) \subseteq Messages
      BY <3>2 DEF Messages
    <3>. QED  BY <3>1, <3>3
  <2>2. sentMessages' \in [Wallets -> Seq(Messages)]
    BY <2>1, AppendProperties DEF BoxInv
  <2>. QED  BY <1>1, <1>3, <2>2 DEF createMessage, BoxInv, money
<1>4. ASSUME NEW w \in Wallets, NEW tx \in Arriving, receiveMessage(w, tx) PROVE BoxInv'
  <2>1. tx \in BuiltByHand \cup Messages
    BY ElementOfSeq DEF Arriving, BoxInv
  <2>2. receivedMessages' \in [Wallets -> Seq(BuiltByHand \cup Messages)]
    BY <1>4, <2>1, AppendProperties DEF receiveMessage, BoxInv
  <2>. QED  BY <1>4, <2>2 DEF receiveMessage, BoxInv, money
<1>5. ASSUME NEW w \in Wallets, NEW newBalance \in Amounts, updateBalance(w, newBalance)
      PROVE  BoxInv'
  <2>1. balance' \in [Wallets -> Amounts]
    BY <1>5 DEF updateBalance, BoxInv
  <2>. QED  BY <1>5, <2>1 DEF updateBalance, BoxInv, boxes
<1>6. ASSUME NEW w \in Wallets, generateNewKeys(w) PROVE BoxInv'
  <2>1. PICK k \in Keys \ {key[v] : v \in Wallets} : key' = [key EXCEPT ![w] = k]
    BY <1>6 DEF generateNewKeys
  <2>2. key' \in [Wallets -> Keys] /\ \A u, v \in Wallets : key'[u] = key'[v] => u = v
    BY <2>1 DEF BoxInv
  <2>. QED  BY <1>6, <2>2 DEF generateNewKeys, BoxInv, money, boxes
<1>7. CASE UNCHANGED vars
  BY <1>7 DEF vars, money, boxes, BoxInv
<1>. QED  BY <1>2, <1>3, <1>4, <1>5, <1>6, <1>7 DEF Next, WalletStep

LEMMA BoxSafe == Spec => []BoxInv
BY BoxInit, BoxNext, PTL DEF Spec

\* Everything in the boxes has the form of a transaction, and the hash it was
\* given when it was empty.
LEMMA HeldIsTransaction ==
    ASSUME NEW tx \in Payments \cup Messages \cup BuiltByHand
    PROVE  IsTransaction(tx) /\ tx.hash = Empty(Now).hash
<1>0. Encrypted = [encrypted : {encrypt(text, vector) : text \in Texts, vector \in Vectors},
                   recipient : Keys]
  BY DEF Encrypted
<1>1. ASSUME NEW to \in Keys, NEW a \in Amounts
      PROVE  <<[recipient |-> to, amount |-> a]>> \in Seq([recipient : Keys, amount : Amounts])
  OBVIOUS
<1>2. CASE tx \in Payments
  <2>1. PICK recipient \in Keys, amount \in Amounts :
          tx = [timestamp |-> Now, inputs |-> <<>>,
                outputs |-> <<[recipient |-> recipient, amount |-> amount]>>,
                status |-> "PENDING", message |-> Nothing, contract |-> NoCall,
                hash |-> Empty(Now).hash]
    BY <1>2, PaymentShape DEF Payments
  <2>. QED  BY <1>1, <2>1 DEF IsTransaction
<1>3. CASE tx \in Messages
  <2>1. PICK recipient \in Keys, text \in Texts, to \in Keys, vector \in Vectors,
               amount \in Amounts :
          tx = [timestamp |-> Now, inputs |-> <<>>,
                outputs |-> <<[recipient |-> recipient, amount |-> amount]>>,
                status |-> "PENDING",
                message |-> [encrypted |-> encrypt(text, vector), recipient |-> to],
                contract |-> NoCall, hash |-> Empty(Now).hash]
    BY <1>3, MessageShape DEF Messages
  <2>. QED  BY <1>1, <2>1 DEF IsTransaction
<1>4. CASE tx \in BuiltByHand
  <2>1. PICK to \in Keys, a \in Amounts : tx.outputs = <<[recipient |-> to, amount |-> a]>>
    BY <1>4, HandShape
  <2>2. tx.outputs \in Seq([recipient : Keys, amount : Amounts])
    BY <1>1, <2>1
  <2>3. \A i \in DOMAIN tx.inputs : tx.inputs[i].coin \in Coins
    BY <1>4, HandShape
  <2>4. tx.message \in Encrypted /\ tx.status = "PENDING" /\ tx.hash = Empty(Now).hash
    BY <1>4, HandShape
  <2>. QED  BY <1>0, <2>2, <2>3, <2>4 DEF IsTransaction
<1>. QED  BY <1>2, <1>3, <1>4

\* The types are right for good, and wallets never share a key.
THEOREM TypeCorrect == Spec => []TypeOK
<1>1. BoxInv => TypeOK
  <2>. SUFFICES ASSUME BoxInv PROVE TypeOK
    OBVIOUS
  <2>1. ASSUME NEW w \in Wallets,
               NEW box \in {pending[w], sentMessages[w], receivedMessages[w]},
               NEW i \in DOMAIN box
        PROVE  IsTransaction(box[i]) /\ box[i].hash = Empty(Now).hash
    <3>1. box[i] \in Payments \cup Messages \cup BuiltByHand
      BY ElementOfSeq DEF BoxInv
    <3>. QED  BY <3>1, HeldIsTransaction
  <2>. QED  BY <2>1 DEF BoxInv, TypeOK
<1>. QED  BY <1>1, BoxSafe, PTL
=============================================================================
