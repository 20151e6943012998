-------------------------- MODULE BlockchainProofs --------------------------
(***************************************************************************)
(* Theorems about Blockchain, for any accounts, transactions, validators   *)
(* and callers and for chains of any length; in the last part, when one    *)
(* thread at most calls addBlock.                                          *)
(***************************************************************************)
EXTENDS Blockchain, FiniteSetTheorems, SequenceTheorems, TLAPS

-----------------------------------------------------------------------------
(* Lemmas about the operators *)

\* A transfer maps integer balances to integer balances.
LEMMA TransferType ==
    ASSUME NEW bal \in [Accounts -> Int], NEW tx \in Transaction
    PROVE  Transfer(bal, tx) \in [Accounts -> Int]
BY DEF Transfer, Transaction

\* The transactions of a block that the constructor built.
LEMMA BlockTransactions ==
    ASSUME NEW b \in BlockShape \cup {Genesis}
    PROVE  /\ b.transactions \in Seq(Transactions)
           /\ b.transactions \in Seq(Transaction)
           /\ \A i \in DOMAIN b.transactions : b.transactions[i] \in Transaction
           /\ Len(b.transactions) \in Nat
           /\ DOMAIN b.transactions = 1..Len(b.transactions)
<1>1. b.transactions \in BlockBodies \cup {<<>>}
  BY DEF BlockShape, Block, Genesis
<1>2. b.transactions \in Seq(Transactions)
  <2>1. <<>> \in Seq(Transactions)
    OBVIOUS
  <2>. QED  BY <1>1, <2>1, BodiesAssumption
<1>3. \A i \in DOMAIN b.transactions : b.transactions[i] \in Transactions
  BY <1>2, ElementOfSeq
<1>. QED  BY <1>2, <1>3, TransactionsAssumption, SeqDef

\* A chain that grew keeps its blocks, so what had the shape of a block has it
\* still.
LEMMA ShapeGrows ==
    ASSUME ChainOK, NEW b, chain' = Append(chain, b)
    PROVE  BlockShape \subseteq BlockShape'
<1>1. \A i \in DOMAIN chain : i \in DOMAIN chain' /\ chain'[i] = chain[i]
  BY AppendProperties, LenProperties DEF ChainOK
<1>. QED  BY <1>1 DEF BlockShape, PreviousHashes

-----------------------------------------------------------------------------
(* Type correctness *)

\* A call that returns leaves an idle caller behind.
LEMMA ReturnCalls ==
    ASSUME CallsOK, NEW c \in Callers, Return(c), chain' = chain
    PROVE  CallsOK'
<1>1. BlockShape' = BlockShape
  BY DEF BlockShape, PreviousHashes
<1>2. Genesis.transactions = <<>>
  BY DEF Genesis, Block
<1>. QED  BY <1>1, <1>2 DEF CallsOK, Return

\* The first block is the genesis block with nobody's approval.
LEMMA TypeInit == Init => TypeOK
<1>. SUFFICES ASSUME Init PROVE TypeOK
  OBVIOUS
<1>1. chain \in Seq(BlockShape \cup {Genesis}) /\ endorsed \in Seq(SUBSET Validators)
  BY DEF Init
<1>2. Genesis.transactions = <<>>
  BY DEF Genesis, Block
<1>3. CallsOK
  BY <1>2 DEF Init, CallsOK
<1>. QED  BY <1>1, <1>3, EmptySeq DEF Init, TypeOK, ChainOK

\* Every step keeps the types.
LEMMA TypeNext == TypeOK /\ [Next]_vars => TypeOK'
<1>. SUFFICES ASSUME TypeOK, [Next]_vars PROVE TypeOK'
  OBVIOUS
<1>. USE DEF TypeOK
<1>0. ASSUME chain' = chain PROVE BlockShape' = BlockShape
  BY <1>0 DEF BlockShape, PreviousHashes
<1>1. ASSUME NEW c \in Callers, CallAddBlock(c) PROVE TypeOK'
  <2>1. PICK s \in Stamps, txs \in BlockBodies, p \in PreviousHashes :
          block' = [block EXCEPT ![c] = Block(s, txs, p)]
    BY <1>1 DEF CallAddBlock
  <2>2. Block(s, txs, p) \in BlockShape
    BY DEF BlockShape
  <2>3. Len(Block(s, txs, p).transactions) \in Nat
    BY <2>2, BlockTransactions
  <2>4. CallsOK'
    BY <1>0, <1>1, <2>1, <2>2, <2>3 DEF CallsOK, CallAddBlock
  <2>. QED  BY <1>0, <1>1, <2>4 DEF CallAddBlock, ChainOK, pools
<1>2. ASSUME NEW c \in Callers, ValidateBlock(c) PROVE TypeOK'
  <2>1. CallsOK'
    BY <1>0, <1>2, ReturnCalls DEF CallsOK, ValidateBlock
  <2>. QED  BY <1>0, <1>2, <2>1 DEF ValidateBlock, ChainOK, pools
<1>3. ASSUME NEW c \in Callers, ReachConsensus(c) PROVE TypeOK'
  <2>1. CallsOK'
    <3>1. CASE Return(c)
      BY <1>3, <3>1, ReturnCalls DEF ReachConsensus
    <3>2. CASE ~Return(c)
      <4>1. PICK pool \in {messageValidators, financialValidators} :
              /\ pc' = [pc EXCEPT ![c] = "push"]
              /\ votes' = [votes EXCEPT ![c] = {v \in pool : Approves(v, block[c])}]
              /\ UNCHANGED <<block, done>>
        BY <1>3, <3>2 DEF ReachConsensus
      <4>. QED  BY <1>0, <1>3, <4>1 DEF CallsOK, ReachConsensus
    <3>. QED  BY <3>1, <3>2
  <2>. QED  BY <1>0, <1>3, <2>1 DEF ReachConsensus, ChainOK, pools
<1>4. ASSUME NEW c \in Callers, Push(c) PROVE TypeOK'
  <2>1. BlockShape \subseteq BlockShape'
    BY <1>4, ShapeGrows DEF Push
  <2>2. CallsOK'
    BY <1>4, <2>1 DEF CallsOK, Push
  <2>. DEFINE Shape == BlockShape \cup {Genesis}
  <2>3. chain \in Seq(Shape') /\ block[c] \in Shape'
    <3>1. Shape \subseteq Shape'
      BY <2>1
    <3>2. chain \in Seq(Shape) /\ block[c] \in Shape
      BY <1>4 DEF ChainOK, CallsOK
    <3>. QED  BY <3>1, <3>2, SeqMonotonic
  <2>4. /\ chain' \in Seq(Shape')
        /\ chain' # <<>>
        /\ Len(chain') = Len(chain) + 1
        /\ chain'[1] = Genesis
    <3>. HIDE DEF Shape
    <3>1. Len(chain) \in Nat \ {0} /\ chain[1] = Genesis
      BY <2>3, EmptySeq DEF ChainOK
    <3>2. chain' = Append(chain, block[c])
      BY <1>4 DEF Push
    <3>. QED  BY <2>3, <3>1, <3>2, AppendProperties
  <2>5. endorsed' \in Seq(SUBSET Validators) /\ Len(endorsed') = Len(endorsed) + 1
    BY <1>4, AppendProperties DEF ChainOK, CallsOK, Push
  <2>6. ChainOK'
    BY <2>4, <2>5 DEF ChainOK
  <2>. QED  BY <1>4, <2>2, <2>6 DEF Push, pools
<1>5. ASSUME NEW c \in Callers, ProcessNext(c) PROVE TypeOK'
  <2>0. block[c] \in BlockShape \cup {Genesis} /\ done[c] \in Nat
    BY DEF CallsOK
  <2>1. /\ block[c].transactions[done[c] + 1] \in Transaction
        /\ Len(block[c].transactions) \in Nat
    BY <1>5, <2>0, BlockTransactions DEF ProcessNext
  <2>2. accountBalances' \in [Accounts -> Int]
    BY <1>5, <2>1, TransferType DEF ProcessNext
  <2>3. CallsOK'
    BY <1>0, <1>5, <2>0, <2>1 DEF CallsOK, ProcessNext
  <2>. QED  BY <1>0, <1>5, <2>2, <2>3 DEF ProcessNext, ChainOK, pools
<1>6. ASSUME NEW c \in Callers, Finish(c) PROVE TypeOK'
  <2>1. CallsOK'
    BY <1>6, ReturnCalls DEF Finish
  <2>. QED  BY <1>0, <1>6, <2>1 DEF Finish, ChainOK, pools
<1>7. CASE ProcessTransaction
  <2>1. PICK tx \in DirectTransactions :
          /\ accountBalances' = Transfer(accountBalances, tx)
          /\ direct' = Append(direct, tx)
    BY <1>7 DEF ProcessTransaction
  <2>2. accountBalances' \in [Accounts -> Int]
    BY <2>1, TransferType, DirectAssumption
  <2>3. direct' \in Seq(DirectTransactions)
    BY <2>1, AppendProperties
  <2>. QED  BY <1>0, <1>7, <2>2, <2>3 DEF ProcessTransaction, ChainOK, CallsOK, pools, call
<1>8. ASSUME NEW v \in Validators, NEW f \in BOOLEAN, RegisterValidator(v, f)
      PROVE  TypeOK'
  BY <1>0, <1>8 DEF RegisterValidator, ChainOK, CallsOK, call
<1>9. ASSUME NEW v \in Validators, RemoveValidator(v.address) PROVE TypeOK'
  BY <1>0, <1>9 DEF RemoveValidator, ChainOK, CallsOK, call
<1>10. CASE UNCHANGED vars
  BY <1>0, <1>10 DEF vars, pools, call, ChainOK, CallsOK
<1>. QED
  BY <1>1, <1>2, <1>3, <1>4, <1>5, <1>6, <1>7, <1>8, <1>9, <1>10
  DEF Next, AddBlockStep

\* No sequence of calls, by any number of threads, takes the object out of its
\* types: in particular a thread never processes past the end of its block.
THEOREM TypeCorrect == Spec => []TypeOK
BY TypeInit, TypeNext, PTL DEF Spec
\* A push adds its block and the votes for it at the end, and keeps the rest.
LEMMA PushGrows ==
    ASSUME TypeOK, NEW c \in Callers, Push(c)
    PROVE  /\ Len(chain) \in Nat \ {0}
           /\ Len(chain') = Len(chain) + 1
           /\ \A i \in 1..Len(chain) :
                chain'[i] = chain[i] /\ endorsed'[i] = endorsed[i]
           /\ chain'[Len(chain) + 1] = block[c]
           /\ endorsed'[Len(chain) + 1] = votes[c]
<1>1. Len(chain) \in Nat \ {0}
  BY EmptySeq DEF TypeOK, ChainOK
<1>2. /\ Len(chain') = Len(chain) + 1
      /\ \A i \in 1..Len(chain) : chain'[i] = chain[i]
      /\ chain'[Len(chain) + 1] = block[c]
  BY AppendProperties DEF TypeOK, ChainOK, CallsOK, Push
<1>3. /\ \A i \in 1..Len(chain) : endorsed'[i] = endorsed[i]
      /\ endorsed'[Len(chain) + 1] = votes[c]
  BY AppendProperties DEF TypeOK, ChainOK, CallsOK, Push
<1>. QED  BY <1>1, <1>2, <1>3

-----------------------------------------------------------------------------
(* Endorsement *)

\* Some registration that may judge block b is among those that voted for it.
EndorsedBy(approving, b) ==
    \E v \in approving : HasFinancial(b) => v.type # "MESSAGE"

\* The invariant has to reach back to the vote: a call that is about to push
\* holds the votes it will record.
EndorsedInv ==
    /\ EveryBlockEndorsed
    /\ \A c \in Callers : pc[c] = "push" => EndorsedBy(votes[c], block[c])

\* Reaching the threshold takes a vote, and a vote for a payment takes a
\* validator that may judge it.
LEMMA VotesEndorse ==
    ASSUME NEW pool, pool \subseteq Validators, NEW b \in BlockShape,
           Reached({v \in pool : Approves(v, b)}, pool)
    PROVE  EndorsedBy({v \in pool : Approves(v, b)}, b)
<1>. DEFINE approving == {v \in pool : Approves(v, b)}
<1>1. approving # {}
  <2>1. IsFiniteSet(pool)
    BY FS_Subset, ValidatorsAssumption
  <2>2. Cardinality(pool) \in Nat /\ Cardinality(pool) # 0
    BY <2>1, FS_CardinalityType, FS_EmptySet DEF Reached
  <2>3. Cardinality({}) = 0
    BY FS_EmptySet
  <2>. QED  BY <2>2, <2>3 DEF Reached, consensusThreshold
<1>2. PICK v \in pool : Approves(v, b)
  BY <1>1
<1>. QED  BY <1>2 DEF EndorsedBy, Approves, validateTransaction, HasFinancial

LEMMA EndorsedNext == TypeOK /\ EndorsedInv /\ [Next]_vars => EndorsedInv'
<1>. SUFFICES ASSUME TypeOK, EndorsedInv, [Next]_vars PROVE EndorsedInv'
  OBVIOUS
<1>. USE DEF EndorsedInv
<1>1. ASSUME NEW c \in Callers, ReachConsensus(c) PROVE EndorsedInv'
  <2>1. CASE pc'[c] = "push"
    <3>1. block[c] \in BlockShape
      BY <1>1 DEF TypeOK, CallsOK, ReachConsensus
    <3>2. PICK pool \in {messageValidators, financialValidators} :
            /\ Reached({v \in pool : Approves(v, block[c])}, pool)
            /\ votes' = [votes EXCEPT ![c] = {v \in pool : Approves(v, block[c])}]
            /\ pc' = [pc EXCEPT ![c] = "push"]
            /\ block' = block
      BY <1>1, <2>1 DEF ReachConsensus, Return, TypeOK, CallsOK
    <3>3. EndorsedBy(votes'[c], block[c])
      BY <3>1, <3>2, VotesEndorse DEF TypeOK, CallsOK
    <3>. QED  BY <1>1, <3>2, <3>3 DEF ReachConsensus, EveryBlockEndorsed, TypeOK, CallsOK
  <2>2. CASE pc'[c] # "push"
    BY <1>1, <2>2 DEF ReachConsensus, Return, EveryBlockEndorsed, TypeOK, CallsOK
  <2>. QED  BY <2>1, <2>2
<1>2. ASSUME NEW c \in Callers, Push(c) PROVE EndorsedInv'
  <2>1. EveryBlockEndorsed'
    <3>1. EndorsedBy(votes[c], block[c])
      BY <1>2 DEF Push
    <3>2. SUFFICES ASSUME NEW i \in 2..Len(chain')
                   PROVE  EndorsedBy(endorsed'[i], chain'[i])
      BY DEF EveryBlockEndorsed, EndorsedBy, HasFinancial
    <3>3. CASE i = Len(chain) + 1
      BY <1>2, <3>1, <3>3, PushGrows
    <3>4. CASE i \in 2..Len(chain)
      BY <1>2, <3>4, PushGrows DEF EveryBlockEndorsed, EndorsedBy
    <3>. QED  BY <1>2, <3>2, <3>3, <3>4, PushGrows
  <2>. QED  BY <1>2, <2>1 DEF Push, TypeOK, CallsOK
<1>3. ASSUME NEW c \in Callers, CallAddBlock(c) \/ ValidateBlock(c) \/ ProcessNext(c) \/ Finish(c)
      PROVE  EndorsedInv'
  BY <1>3 DEF CallAddBlock, ValidateBlock, ProcessNext, Finish, Return,
              EveryBlockEndorsed, TypeOK, CallsOK
<1>4. ASSUME UNCHANGED <<chain, call, endorsed>> PROVE EndorsedInv'
  BY <1>4 DEF call, EveryBlockEndorsed
<1>. QED
  BY <1>1, <1>2, <1>3, <1>4
  DEF Next, AddBlockStep, ProcessTransaction, RegisterValidator, RemoveValidator, vars

\* No block but the genesis block enters the chain without the vote of somebody
\* who may judge it, whatever the ill-formed search for payments answers and
\* however the calls of any number of threads interleave.
THEOREM Endorsed == Spec => []EveryBlockEndorsed
<1>1. Init => EndorsedInv
  <2>. SUFFICES ASSUME Init PROVE EndorsedInv
    OBVIOUS
  <2>1. Len(chain) = 1
    BY DEF Init
  <2>. QED  BY <2>1 DEF Init, EndorsedInv, EveryBlockEndorsed
<1>2. EndorsedInv => EveryBlockEndorsed
  BY DEF EndorsedInv
<1>. QED  BY <1>1, <1>2, TypeCorrect, EndorsedNext, PTL DEF Spec
-----------------------------------------------------------------------------
(* Where the first money comes from *)

NoDebits == \A a \in Accounts : \A i \in DOMAIN chain : ~DebitIn(a, chain[i])

\* As long as the chain holds no payment of a negative amount, a block that was
\* validated against empty accounts pays nothing above zero, nor below it once it
\* was pushed, and that must be known until its last transaction is processed.
PennilessInv ==
    direct = <<>> /\ NoDebits =>
        /\ \A a \in Accounts : accountBalances[a] = 0
        /\ \A c \in Callers : \A i \in DOMAIN block[c].transactions :
             /\ pc[c] \in {"consensus", "push", "process"}
             /\ block[c].transactions[i].type = "FINANCIAL"
             => block[c].transactions[i].amount <= 0

\* What a thread processes was pushed.
PushedInv ==
    \A c \in Callers : pc[c] = "process" => \E j \in DOMAIN chain : chain[j] = block[c]

\* A debit that was found in the chain stays there.
LEMMA NoDebitsBefore ==
    ASSUME TypeOK, [Next]_vars, NoDebits'
    PROVE  NoDebits
<1>1. CASE chain' = chain
  BY <1>1 DEF NoDebits
<1>2. CASE chain' # chain
  <2>1. PICK c \in Callers : Push(c)
    BY <1>2 DEF Next, AddBlockStep, CallAddBlock, ValidateBlock, ReachConsensus,
                ProcessNext, Finish, ProcessTransaction, RegisterValidator,
                RemoveValidator, vars
  <2>2. \A i \in DOMAIN chain : i \in DOMAIN chain' /\ chain'[i] = chain[i]
    <3>1. chain' = Append(chain, block[c])
      BY <2>1 DEF Push
    <3>. QED  BY <3>1, AppendProperties, LenProperties DEF TypeOK, ChainOK, CallsOK
  <2>. QED  BY <2>2 DEF NoDebits
<1>. QED  BY <1>1, <1>2

LEMMA PushedNext ==
    ASSUME TypeOK, PushedInv, [Next]_vars
    PROVE  PushedInv'
<1>. USE DEF PushedInv
<1>1. ASSUME NEW c \in Callers, Push(c) PROVE PushedInv'
  <2>1. chain' = Append(chain, block[c])
    BY <1>1 DEF Push
  <2>2. /\ \A i \in DOMAIN chain : i \in DOMAIN chain' /\ chain'[i] = chain[i]
        /\ Len(chain) + 1 \in DOMAIN chain'
        /\ chain'[Len(chain) + 1] = block[c]
    BY <2>1, AppendProperties, LenProperties DEF TypeOK, ChainOK, CallsOK
  <2>. QED  BY <1>1, <2>2 DEF Push, TypeOK, CallsOK
<1>2. ASSUME NEW c \in Callers,
             CallAddBlock(c) \/ ValidateBlock(c) \/ ReachConsensus(c)
      PROVE  PushedInv'
  BY <1>2 DEF CallAddBlock, ValidateBlock, ReachConsensus, Return, TypeOK, CallsOK
<1>3. ASSUME NEW c \in Callers, ProcessNext(c) \/ Finish(c) PROVE PushedInv'
  BY <1>3 DEF ProcessNext, Finish, Return, TypeOK, CallsOK
<1>4. ASSUME UNCHANGED <<chain, call>> PROVE PushedInv'
  BY <1>4 DEF call
<1>. QED
  BY <1>1, <1>2, <1>3, <1>4
  DEF Next, AddBlockStep, ProcessTransaction, RegisterValidator, RemoveValidator, vars

LEMMA PennilessNext ==
    ASSUME TypeOK, PushedInv, PennilessInv, [Next]_vars
    PROVE  PennilessInv'
<1>. USE DEF PennilessInv
<1>0. SUFFICES ASSUME direct' = <<>>, NoDebits, NoDebits' PROVE PennilessInv'
  BY NoDebitsBefore
<1>1. ASSUME NEW c \in Callers, ValidateBlock(c) PROVE PennilessInv'
  <2>1. CASE validateBlock(block[c])
    <3>1. \A i \in DOMAIN block[c].transactions :
            block[c].transactions[i].type = "FINANCIAL"
            => block[c].transactions[i].amount <= 0
      <4>1. SUFFICES ASSUME NEW i \in DOMAIN block[c].transactions,
                            block[c].transactions[i].type = "FINANCIAL"
                     PROVE  block[c].transactions[i].amount <= 0
        OBVIOUS
      <4>2. block[c] \in BlockShape \cup {Genesis}
        BY DEF TypeOK, CallsOK
      <4>3. block[c].transactions[i] \in Transactions
        BY <4>2, BlockTransactions, ElementOfSeq
      <4>4. /\ block[c].transactions[i].amount \in Int
            /\ block[c].transactions[i].sender \in Accounts
        BY <4>3, TransactionsAssumption DEF Transaction
      <4>5. accountBalances[block[c].transactions[i].sender]
              >= block[c].transactions[i].amount
        BY <2>1, <4>1 DEF validateBlock
      <4>6. direct = <<>>
        BY <1>0, <1>1 DEF ValidateBlock
      <4>. QED  BY <1>0, <4>4, <4>5, <4>6
    <3>. QED  BY <1>0, <1>1, <2>1, <3>1 DEF ValidateBlock, TypeOK, CallsOK
  <2>2. CASE ~validateBlock(block[c])
    BY <1>0, <1>1, <2>2 DEF ValidateBlock, Return, TypeOK, CallsOK
  <2>. QED  BY <2>1, <2>2
<1>2. ASSUME NEW c \in Callers, ReachConsensus(c) PROVE PennilessInv'
  BY <1>0, <1>2 DEF ReachConsensus, Return, TypeOK, CallsOK
<1>3. ASSUME NEW c \in Callers, ProcessNext(c) PROVE PennilessInv'
  <2>. DEFINE tx == block[c].transactions[done[c] + 1]
  <2>1. block[c] \in BlockShape \cup {Genesis} /\ done[c] \in Nat
    BY DEF TypeOK, CallsOK
  <2>2. tx \in Transaction /\ done[c] + 1 \in DOMAIN block[c].transactions
    BY <1>3, <2>1, BlockTransactions DEF ProcessNext
  <2>3. tx.type = "FINANCIAL" => tx.amount <= 0
    BY <1>0, <1>3, <2>2 DEF ProcessNext
  <2>4. tx.type = "FINANCIAL" => ~(tx.amount < 0)
    <3>1. PICK j \in DOMAIN chain : chain[j] = block[c]
      BY <1>3 DEF PushedInv, ProcessNext
    <3>2. tx.recipient \in Accounts
      BY <2>2 DEF Transaction
    <3>. QED  BY <1>0, <2>2, <3>1, <3>2 DEF NoDebits, DebitIn, Debits
  <2>5. tx.type = "FINANCIAL" => tx.amount = 0
    BY <2>2, <2>3, <2>4 DEF Transaction
  <2>6. \A a \in Accounts : accountBalances[a] = 0
    BY <1>0, <1>3 DEF ProcessNext
  <2>. HIDE DEF tx
  <2>7. \A a \in Accounts : Transfer(accountBalances, tx)[a] = 0
    BY <2>2, <2>5, <2>6 DEF Transfer, TypeOK, Transaction
  <2>. QED  BY <1>0, <1>3, <2>7 DEF ProcessNext, tx
<1>4. ASSUME NEW c \in Callers, CallAddBlock(c) \/ Push(c) \/ Finish(c)
      PROVE  PennilessInv'
  <2>1. CASE CallAddBlock(c)
    BY <1>0, <2>1 DEF CallAddBlock, TypeOK, CallsOK
  <2>2. CASE Push(c)
    BY <1>0, <2>2 DEF Push, TypeOK, CallsOK
  <2>3. CASE Finish(c)
    BY <1>0, <2>3 DEF Finish, Return, TypeOK, CallsOK
  <2>. QED  BY <1>4, <2>1, <2>2, <2>3
<1>5. CASE ProcessTransaction
  <2>1. PICK tx \in DirectTransactions : direct' = Append(direct, tx)
    BY <1>5 DEF ProcessTransaction
  <2>2. direct' # <<>>
    BY <2>1, AppendProperties DEF TypeOK
  <2>. QED  BY <1>0, <2>2
<1>6. ASSUME UNCHANGED <<accountBalances, call, direct>> PROVE PennilessInv'
  BY <1>0, <1>6 DEF call
<1>. QED
  BY <1>1, <1>2, <1>3, <1>4, <1>5, <1>6
  DEF Next, AddBlockStep, RegisterValidator, RemoveValidator, vars

\* Until processTransaction is called on its own, the first money that moves is a
\* payment of a negative amount on the chain: before it every balance is zero,
\* for any amounts and any number of threads.
THEOREM FirstMoney == Spec => []FirstMoneyIsNegative
<1>1. Init => PushedInv /\ PennilessInv
  <2>1. Genesis.transactions = <<>>
    BY DEF Genesis, Block
  <2>. QED  BY <2>1 DEF Init, PennilessInv, PushedInv
<1>2. PennilessInv => FirstMoneyIsNegative
  BY DEF PennilessInv, FirstMoneyIsNegative, NoDebits
<1>3. TypeOK /\ PushedInv /\ PennilessInv /\ [Next]_vars => PushedInv' /\ PennilessInv'
  BY PennilessNext, PushedNext
<1>. QED  BY <1>1, <1>2, <1>3, TypeCorrect, PTL DEF Spec
-----------------------------------------------------------------------------
(* The chain is a tree *)

\* A call that was validated names a block that is still in the chain, if no
\* longer the latest.
RootedInv ==
    /\ Rooted
    /\ \A c \in Callers :
         pc[c] \in {"consensus", "push"} =>
            \E j \in 1..Len(chain) : block[c].previousHash = chain[j].hash

LEMMA RootedNext ==
    ASSUME TypeOK, RootedInv, [Next]_vars
    PROVE  RootedInv'
<1>. USE DEF RootedInv
<1>1. ASSUME NEW c \in Callers, Push(c) PROVE RootedInv'
  <2>1. Rooted'
    <3>1. SUFFICES ASSUME NEW i \in 2..Len(chain')
                   PROVE  \E j \in 1..(i - 1) : chain'[i].previousHash = chain'[j].hash
      BY DEF Rooted
    <3>2. CASE i = Len(chain) + 1
      <4>1. PICK j \in 1..Len(chain) : block[c].previousHash = chain[j].hash
        BY <1>1 DEF Push
      <4>. QED  BY <1>1, <3>2, <4>1, PushGrows
    <3>3. CASE i \in 2..Len(chain)
      <4>1. PICK j \in 1..(i - 1) : chain[i].previousHash = chain[j].hash
        BY <3>3 DEF Rooted
      <4>2. i \in 1..Len(chain) /\ j \in 1..Len(chain)
        BY <1>1, <3>3, PushGrows
      <4>. QED  BY <1>1, <4>1, <4>2, PushGrows
    <3>. QED  BY <1>1, <3>1, <3>2, <3>3, PushGrows
  <2>2. ASSUME NEW d \in Callers, pc'[d] \in {"consensus", "push"}
        PROVE  \E j \in 1..Len(chain') : block'[d].previousHash = chain'[j].hash
    <3>1. pc[d] \in {"consensus", "push"} /\ block'[d] = block[d]
      BY <1>1, <2>2 DEF Push, TypeOK, CallsOK
    <3>2. PICK j \in 1..Len(chain) : block[d].previousHash = chain[j].hash
      BY <3>1
    <3>. QED  BY <1>1, <3>1, <3>2, PushGrows
  <2>. QED  BY <2>1, <2>2
<1>2. ASSUME NEW c \in Callers, ValidateBlock(c) PROVE RootedInv'
  <2>1. Len(chain) \in 1..Len(chain)
    BY EmptySeq DEF TypeOK, ChainOK
  <2>. QED
    BY <1>2, <2>1
    DEF ValidateBlock, validateBlock, getLatestBlock, Return, Rooted, TypeOK, CallsOK
<1>3. ASSUME NEW c \in Callers,
             CallAddBlock(c) \/ ReachConsensus(c) \/ ProcessNext(c) \/ Finish(c)
      PROVE  RootedInv'
  <2>1. Rooted' /\ chain' = chain
    BY <1>3 DEF CallAddBlock, ReachConsensus, ProcessNext, Finish, Rooted
  <2>2. \A d \in Callers : pc'[d] \in {"consensus", "push"} =>
          pc[d] \in {"consensus", "push"} /\ block'[d] = block[d]
    BY <1>3 DEF CallAddBlock, ReachConsensus, ProcessNext, Finish, Return, TypeOK, CallsOK
  <2>. QED  BY <2>1, <2>2
<1>4. ASSUME UNCHANGED <<chain, call>> PROVE RootedInv'
  BY <1>4 DEF call, Rooted
<1>. QED
  BY <1>1, <1>2, <1>3, <1>4
  DEF Next, AddBlockStep, ProcessTransaction, RegisterValidator, RemoveValidator, vars

\* Any number of threads may call addBlock at once: the chain they make may fork,
\* but every block of it descends from the genesis block.
THEOREM RootedChain == Spec => []Rooted
<1>1. Init => RootedInv
  <2>. SUFFICES ASSUME Init PROVE RootedInv
    OBVIOUS
  <2>1. Len(chain) = 1
    BY DEF Init
  <2>. QED  BY <2>1 DEF Init, RootedInv, Rooted
<1>2. RootedInv => Rooted
  BY DEF RootedInv
<1>3. TypeOK /\ RootedInv /\ [Next]_vars => RootedInv'
  BY RootedNext
<1>. QED  BY <1>1, <1>2, <1>3, TypeCorrect, PTL DEF Spec

-----------------------------------------------------------------------------
(* What holds when one thread at most calls addBlock *)

\* The class does not enforce this: its callers would have to.
SingleCaller == \A c, d \in Callers : c = d

\* Between the comparison with the latest block and the push, the latest block
\* stays what it was; after the push, it is the block in process.
SoloInv ==
    /\ ChainLinked
    /\ \A c \in Callers :
         /\ pc[c] \in {"consensus", "push"} =>
              block[c].previousHash = getLatestBlock.hash
         /\ pc[c] = "process" => block[c] = getLatestBlock

LEMMA SoloInit == Init => SoloInv
<1>. SUFFICES ASSUME Init PROVE SoloInv
  OBVIOUS
<1>1. Len(chain) = 1
  BY DEF Init
<1>. QED  BY <1>1 DEF Init, SoloInv, ChainLinked

LEMMA SoloNext ==
    ASSUME SingleCaller, TypeOK, SoloInv, [Next]_vars
    PROVE  SoloInv'
<1>. USE DEF SoloInv
<1>1. ASSUME NEW c \in Callers, Push(c) PROVE SoloInv'
  <2>1. block[c].previousHash = chain[Len(chain)].hash
    BY <1>1 DEF Push, getLatestBlock
  <2>2. ChainLinked'
    <3>1. SUFFICES ASSUME NEW i \in 2..Len(chain')
                   PROVE  chain'[i].previousHash = chain'[i - 1].hash
      BY DEF ChainLinked
    <3>2. CASE i = Len(chain) + 1
      BY <1>1, <2>1, <3>2, PushGrows
    <3>3. CASE i \in 2..Len(chain)
      <4>1. i \in 1..Len(chain) /\ i - 1 \in 1..Len(chain)
        BY <1>1, <3>3, PushGrows
      <4>. QED  BY <1>1, <3>3, <4>1, PushGrows DEF ChainLinked
    <3>. QED  BY <1>1, <3>1, <3>2, <3>3, PushGrows
  <2>3. getLatestBlock' = block[c]
    BY <1>1, PushGrows DEF getLatestBlock
  <2>. QED  BY <1>1, <2>2, <2>3 DEF Push, SingleCaller, TypeOK, CallsOK
<1>2. ASSUME NEW c \in Callers, CallAddBlock(c) PROVE SoloInv'
  BY <1>2 DEF CallAddBlock, ChainLinked, getLatestBlock, TypeOK, CallsOK
<1>3. ASSUME NEW c \in Callers, ValidateBlock(c) PROVE SoloInv'
  BY <1>3 DEF ValidateBlock, validateBlock, Return, ChainLinked, getLatestBlock, TypeOK, CallsOK
<1>4. ASSUME NEW c \in Callers, ReachConsensus(c) PROVE SoloInv'
  BY <1>4, ZenonT(30) DEF ReachConsensus, Return, ChainLinked, getLatestBlock, TypeOK, CallsOK
<1>5. ASSUME NEW c \in Callers, ProcessNext(c) \/ Finish(c) PROVE SoloInv'
  BY <1>5 DEF ProcessNext, Finish, Return, ChainLinked, getLatestBlock, TypeOK, CallsOK
<1>6. ASSUME UNCHANGED <<chain, call>> PROVE SoloInv'
  BY <1>6 DEF call, ChainLinked, getLatestBlock
<1>. QED
  BY <1>1, <1>2, <1>3, <1>4, <1>5, <1>6
  DEF Next, AddBlockStep, ProcessTransaction, RegisterValidator, RemoveValidator, vars

\* With one caller, every block of the chain names the digest of its
\* predecessor.
THEOREM Linked ==
    ASSUME SingleCaller
    PROVE  Spec => []ChainLinked
<1>1. SoloInv => ChainLinked
  BY DEF SoloInv
<1>2. TypeOK /\ SoloInv /\ [Next]_vars => SoloInv'
  BY SoloNext
<1>. QED  BY <1>1, <1>2, SoloInit, TypeCorrect, PTL DEF Spec

-----------------------------------------------------------------------------
(* Refinement of the ledger *)

\* The ledger's copies of the operators are the operators.
LEMMA SameOperators ==
    /\ \A s, txs, p : L!Block(s, txs, p) = Block(s, txs, p)
    /\ L!Genesis = Genesis
    /\ \A bal, tx : L!Transfer(bal, tx) = Transfer(bal, tx)
<1>1. \A s, txs, p : L!Block(s, txs, p) = Block(s, txs, p)
  BY DEF Block, calculateHash, L!Block, L!calculateHash
<1>2. \A bal, tx : L!Transfer(bal, tx) = Transfer(bal, tx)
  BY DEF Transfer, L!Transfer
<1>. QED  BY <1>1, <1>2 DEF Genesis, NoHash, L!Genesis, L!NoHash

LEMMA AppliedBy ==
    ASSUME SingleCaller, NEW c \in Callers
    PROVE  /\ Applied = IF pc[c] = "process"
                        THEN done[c] ELSE Len(getLatestBlock.transactions)
           /\ Applied' = IF pc'[c] = "process"
                         THEN done'[c] ELSE Len(getLatestBlock'.transactions)
BY DEF SingleCaller, Applied

\* Every step is a step of the ledger or leaves it alone.
LEMMA LedgerStep ==
    ASSUME SingleCaller, TypeOK, SoloInv, [Next]_vars
    PROVE  [L!Next]_(L!ledgerVars)
<1>. USE DEF L!ledgerVars
<1>1. ASSUME NEW c \in Callers, Push(c) PROVE L!Extend
  <2>1. block[c] \in BlockShape /\ block[c].previousHash = getLatestBlock.hash
    BY <1>1 DEF TypeOK, CallsOK, SoloInv, Push
  <2>2. PICK s \in Stamps, txs \in BlockBodies :
          block[c] = Block(s, txs, getLatestBlock.hash)
    BY <2>1 DEF BlockShape, Block
  <2>3. chain' = Append(chain, Block(s, txs, L!Latest.hash))
    BY <1>1, <2>2 DEF Push, L!Latest, getLatestBlock
  <2>4. Applied = Len(L!Latest.transactions) /\ Applied' = 0
    BY <1>1, AppliedBy DEF Push, TypeOK, CallsOK, L!Latest, getLatestBlock
  <2>. QED  BY <1>1, <2>3, <2>4, SameOperators DEF L!Extend, Push
<1>2. ASSUME NEW c \in Callers, ProcessNext(c) PROVE L!Apply
  <2>1. block[c] = L!Latest
    BY <1>2 DEF SoloInv, ProcessNext, getLatestBlock, L!Latest
  <2>2. Applied = done[c] /\ Applied' = done[c] + 1
    BY <1>2, AppliedBy DEF ProcessNext, TypeOK, CallsOK
  <2>. QED  BY <1>2, <2>1, <2>2, SameOperators DEF L!Apply, ProcessNext
<1>3. ASSUME NEW c \in Callers, Finish(c) PROVE UNCHANGED L!ledgerVars
  <2>1. block[c] = getLatestBlock
    BY <1>3 DEF SoloInv, Finish
  <2>2. Applied = Len(getLatestBlock.transactions)
    BY <1>3, <2>1, AppliedBy DEF Finish
  <2>3. Applied' = Len(getLatestBlock.transactions)
    BY <1>3, AppliedBy DEF Finish, Return, TypeOK, CallsOK, getLatestBlock
  <2>. QED  BY <1>3, <2>2, <2>3 DEF Finish
<1>4. ASSUME NEW c \in Callers, CallAddBlock(c) PROVE UNCHANGED L!ledgerVars
  BY <1>4, AppliedBy DEF CallAddBlock, TypeOK, CallsOK, getLatestBlock
<1>5. ASSUME NEW c \in Callers, ValidateBlock(c) PROVE UNCHANGED L!ledgerVars
  BY <1>5, AppliedBy DEF ValidateBlock, Return, TypeOK, CallsOK, getLatestBlock
<1>6. ASSUME NEW c \in Callers, ReachConsensus(c) PROVE UNCHANGED L!ledgerVars
  BY <1>6, AppliedBy DEF ReachConsensus, Return, TypeOK, CallsOK, getLatestBlock
<1>7. ASSUME UNCHANGED <<chain, call>> PROVE Applied' = Applied
  BY <1>7 DEF call, Applied, getLatestBlock
<1>8. CASE ProcessTransaction
  BY <1>7, <1>8, SameOperators DEF ProcessTransaction, L!ApplyDirectly, L!Next
<1>. QED
  BY <1>1, <1>2, <1>3, <1>4, <1>5, <1>6, <1>7, <1>8
  DEF Next, AddBlockStep, RegisterValidator, RemoveValidator, vars, L!Next

\* With one caller, the object behaves like the ledger: blocks are linked one at
\* a time, and every transaction of a block is applied once and in order.
THEOREM ImplementsLedger ==
    ASSUME SingleCaller
    PROVE  Spec => LedgerSpec
<1>1. Init => L!Init
  <2>1. Genesis.transactions = <<>>
    BY DEF Genesis, Block
  <2>2. Init => Applied = 0
    BY <2>1 DEF Init, Applied, getLatestBlock
  <2>. QED  BY <2>2, SameOperators DEF Init, L!Init
<1>2. TypeOK /\ SoloInv /\ [Next]_vars => [L!Next]_(L!ledgerVars)
  BY LedgerStep
<1>3. TypeOK /\ SoloInv /\ [Next]_vars => SoloInv'
  BY SoloNext
<1>. QED
  BY <1>1, <1>2, <1>3, SoloInit, TypeCorrect, PTL DEF Spec, LedgerSpec, L!Spec
-----------------------------------------------------------------------------
(* Overdrafts *)

\* Account a can pay each of its payments that are still to be processed, though
\* not necessarily their sum.
Covered(a) ==
    /\ accountBalances[a] >= 0
    /\ \A c \in Callers : \A i \in DOMAIN block[c].transactions :
         /\ pc[c] \in {"consensus", "push", "process"}
         /\ i > done[c]
         /\ Sends(a, block[c].transactions[i])
         => accountBalances[a] >= block[c].transactions[i].amount

Excused(a) ==
    \/ \E i \in DOMAIN direct : Sends(a, direct[i]) \/ Debits(a, direct[i])
    \/ \E i \in DOMAIN chain : DoubleSpendBy(a, chain[i]) \/ DebitIn(a, chain[i])

CoveredInv == \A a \in Accounts : Excused(a) \/ Covered(a)

\* A transfer that does not debit its recipient takes its amount from the sender
\* at most and from nobody else.
LEMMA TransferTakes ==
    ASSUME NEW bal \in [Accounts -> Int], NEW tx \in Transaction,
           NEW a \in Accounts, ~Debits(a, tx)
    PROVE  /\ Transfer(bal, tx)[a] \in Int
           /\ ~Sends(a, tx) => Transfer(bal, tx)[a] >= bal[a]
           /\ Sends(a, tx) => Transfer(bal, tx)[a] >= bal[a] - tx.amount
BY DEF Transfer, Transaction, Sends, Debits

\* What excused an account goes on excusing it.
LEMMA ExcusedStays ==
    ASSUME TypeOK, [Next]_vars, NEW a \in Accounts, Excused(a)
    PROVE  Excused(a)'
<1>0. \A i \in DOMAIN direct : i \in DOMAIN direct' /\ direct'[i] = direct[i]
  <2>1. CASE direct' = direct
    BY <2>1
  <2>2. CASE direct' # direct
    <3>1. PICK tx \in DirectTransactions : direct' = Append(direct, tx)
      BY <2>2 DEF Next, AddBlockStep, CallAddBlock, ValidateBlock, ReachConsensus, Push,
                  ProcessNext, Finish, ProcessTransaction, RegisterValidator,
                  RemoveValidator, vars
    <3>. QED  BY <3>1, AppendProperties, LenProperties DEF TypeOK
  <2>. QED  BY <2>1, <2>2
<1>1. CASE chain' = chain
  BY <1>0, <1>1 DEF Excused, DoubleSpendBy, DebitIn
<1>2. CASE chain' # chain
  <2>1. PICK c \in Callers : Push(c)
    BY <1>2 DEF Next, AddBlockStep, CallAddBlock, ValidateBlock, ReachConsensus,
                ProcessNext, Finish, ProcessTransaction, RegisterValidator,
                RemoveValidator, vars
  <2>2. \A i \in DOMAIN chain : i \in DOMAIN chain' /\ chain'[i] = chain[i]
    <3>1. chain' = Append(chain, block[c])
      BY <2>1 DEF Push
    <3>. QED  BY <3>1, AppendProperties, LenProperties DEF TypeOK, ChainOK, CallsOK
  <2>. QED  BY <1>0, <2>2 DEF Excused, DoubleSpendBy, DebitIn
<1>. QED  BY <1>1, <1>2

LEMMA CoveredNext ==
    ASSUME SingleCaller, TypeOK, SoloInv, CoveredInv, [Next]_vars
    PROVE  CoveredInv'
<1>1. SUFFICES ASSUME NEW a \in Accounts, ~Excused(a), ~Excused(a)', Covered(a)
               PROVE  Covered(a)'
  BY ExcusedStays DEF CoveredInv
<1>. USE DEF Covered
<1>2. ASSUME NEW c \in Callers, ValidateBlock(c) PROVE Covered(a)'
  <2>1. CASE validateBlock(block[c])
    BY <1>1, <1>2, <2>1 DEF ValidateBlock, validateBlock, Sends, TypeOK, CallsOK
  <2>2. CASE ~validateBlock(block[c])
    BY <1>1, <1>2, <2>2, ZenonT(30) DEF ValidateBlock, Return, TypeOK, CallsOK
  <2>. QED  BY <2>1, <2>2
<1>3. ASSUME NEW c \in Callers, ProcessNext(c) PROVE Covered(a)'
  <2>. DEFINE tx == block[c].transactions[done[c] + 1]
  <2>1. block[c] \in BlockShape \cup {Genesis} /\ done[c] \in Nat
    BY DEF TypeOK, CallsOK
  <2>2. /\ tx \in Transaction
        /\ tx.amount \in Int
        /\ done[c] + 1 \in DOMAIN block[c].transactions
    BY <1>3, <2>1, BlockTransactions, ElementOfSeq DEF ProcessNext, Transaction
  <2>7. block[c] = chain[Len(chain)] /\ Len(chain) \in DOMAIN chain
    BY <1>3, EmptySeq, LenProperties
    DEF SoloInv, getLatestBlock, ProcessNext, TypeOK, ChainOK
  <2>8. ~Debits(a, tx)
    BY <1>1, <2>2, <2>7 DEF Excused, DebitIn
  <2>3. /\ accountBalances'[a] \in Int
        /\ accountBalances[a] \in Int
        /\ ~Sends(a, tx) => accountBalances'[a] >= accountBalances[a]
        /\ Sends(a, tx) => accountBalances'[a] >= accountBalances[a] - tx.amount
    BY <1>3, <2>2, <2>8, TransferTakes DEF ProcessNext, TypeOK
  <2>4. \A i \in DOMAIN block[c].transactions :
          block[c].transactions[i] \in Transaction
    BY <2>1, BlockTransactions
  <2>5. CASE Sends(a, tx)
    <3>1. accountBalances[a] >= tx.amount
      BY <1>1, <1>3, <2>1, <2>2, <2>5 DEF ProcessNext
    <3>2. accountBalances'[a] >= 0
      BY <2>2, <2>3, <2>5, <3>1
    <3>3. \A i \in DOMAIN block[c].transactions :
            i > done'[c] => ~Sends(a, block[c].transactions[i])
      <4>1. SUFFICES ASSUME NEW i \in DOMAIN block[c].transactions, i > done'[c],
                            Sends(a, block[c].transactions[i])
                     PROVE  FALSE
        OBVIOUS
      <4>2. done'[c] = done[c] + 1
        BY <1>3 DEF ProcessNext, TypeOK, CallsOK
      <4>3. i # done[c] + 1
        BY <2>1, <4>1, <4>2
      <4>4. DoubleSpendBy(a, block[c])
        BY <2>2, <2>5, <4>1, <4>3 DEF DoubleSpendBy
      <4>. QED  BY <1>1, <2>7, <4>4 DEF Excused
    <3>. QED  BY <1>3, <3>2, <3>3 DEF ProcessNext, SingleCaller
  <2>6. CASE ~Sends(a, tx)
    <3>1. accountBalances'[a] >= accountBalances[a]
      BY <2>3, <2>6
    <3>2. accountBalances'[a] >= 0
      BY <1>1, <2>3, <3>1
    <3>3. \A i \in DOMAIN block[c].transactions :
            i > done'[c] /\ Sends(a, block[c].transactions[i])
            => accountBalances'[a] >= block[c].transactions[i].amount
      <4>1. SUFFICES ASSUME NEW i \in DOMAIN block[c].transactions, i > done'[c],
                            Sends(a, block[c].transactions[i])
                     PROVE  accountBalances'[a] >= block[c].transactions[i].amount
        OBVIOUS
      <4>2. done'[c] = done[c] + 1 /\ i \in Nat
        BY <1>3, <2>1, BlockTransactions DEF ProcessNext, TypeOK, CallsOK
      <4>3. accountBalances[a] >= block[c].transactions[i].amount
        BY <1>1, <1>3, <2>1, <4>1, <4>2 DEF ProcessNext
      <4>4. block[c].transactions[i].amount \in Int
        BY <2>4 DEF Transaction
      <4>. QED  BY <2>3, <3>1, <4>3, <4>4
    <3>. QED  BY <1>3, <3>2, <3>3 DEF ProcessNext, SingleCaller
  <2>. QED  BY <2>5, <2>6
<1>4. CASE ProcessTransaction
  <2>1. PICK tx \in DirectTransactions : /\ accountBalances' = Transfer(accountBalances, tx)
                                         /\ direct' = Append(direct, tx)
    BY <1>4 DEF ProcessTransaction
  <2>0. Len(direct) + 1 \in DOMAIN direct' /\ direct'[Len(direct) + 1] = tx
    BY <2>1, AppendProperties, LenProperties DEF TypeOK
  <2>2. ~Sends(a, tx) /\ ~Debits(a, tx) /\ tx \in Transaction
    BY <1>1, <2>0, DirectAssumption DEF Excused
  <2>3. /\ accountBalances'[a] \in Int /\ accountBalances[a] \in Int
        /\ accountBalances'[a] >= accountBalances[a]
    BY <2>1, <2>2, TransferTakes DEF TypeOK
  <2>4. \A c \in Callers : \A i \in DOMAIN block[c].transactions :
          block[c].transactions[i].amount \in Int
    BY BlockTransactions DEF TypeOK, CallsOK, Transaction
  <2>. QED  BY <1>1, <1>4, <2>3, <2>4 DEF ProcessTransaction, call
<1>5. ASSUME NEW c \in Callers, CallAddBlock(c) PROVE Covered(a)'
  BY <1>1, <1>5 DEF CallAddBlock, TypeOK, CallsOK
<1>6. ASSUME NEW c \in Callers, ReachConsensus(c) PROVE Covered(a)'
  BY <1>1, <1>6 DEF ReachConsensus, Return, TypeOK, CallsOK
<1>7. ASSUME NEW c \in Callers, Push(c) PROVE Covered(a)'
  BY <1>1, <1>7 DEF Push, TypeOK, CallsOK
<1>8. ASSUME NEW c \in Callers, Finish(c) PROVE Covered(a)'
  BY <1>1, <1>8 DEF Finish, Return, TypeOK, CallsOK
<1>9. ASSUME UNCHANGED <<accountBalances, call>> PROVE Covered(a)'
  BY <1>1, <1>9 DEF call
<1>. QED
  BY <1>2, <1>3, <1>4, <1>5, <1>6, <1>7, <1>8, <1>9
  DEF Next, AddBlockStep, RegisterValidator, RemoveValidator, vars

\* With one caller, an account that no direct call debited goes below zero only if
\* one block of the chain holds two payments of it or a payment of a negative
\* amount to it: the holes in the balance check are those two, for any amounts.
THEOREM Overdraft ==
    ASSUME SingleCaller
    PROVE  Spec => []OverdraftHasItsBlock
<1>1. Init => CoveredInv
  BY DEF Init, CoveredInv, Covered
<1>2. CoveredInv => OverdraftHasItsBlock
  BY DEF CoveredInv, Covered, Excused, OverdraftHasItsBlock
<1>3. TypeOK /\ SoloInv /\ CoveredInv /\ [Next]_vars => CoveredInv'
  BY CoveredNext
<1>4. TypeOK /\ SoloInv /\ [Next]_vars => SoloInv'
  BY SoloNext
<1>. QED  BY <1>1, <1>2, <1>3, <1>4, SoloInit, TypeCorrect, PTL DEF Spec
=============================================================================
