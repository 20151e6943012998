----------------------------- MODULE NodeProofs -----------------------------
(***************************************************************************)
(* Theorems about the life of a Node's threads, its queue, its balances    *)
(* and the height it reports, for any number of threads that start and     *)
(* stop it, any blocks, and chains and queues of any length.               *)
(***************************************************************************)
EXTENDS Node, BlockchainProofs, WellFoundedInduction

SubmitterStep(s) ==
    SubmitReturns(s) \/ \E tx \in Submissions : submitTransaction(s, tx)

\* Which variables of the life cycle are what, without those of the blockchain.
\* A loop that has something to join is one that a starter has launched.
NobodyElse(s) == \A r \in Starters \ {s} : spc[r] = "idle"

NoThreads == \A t \in Loops : thread[t] = "none"

\* As long as no start or stop began during another one: at most one is under
\* way; both threads are joined before the first of them is launched, and the
\* second before it is launched in its turn; while the flag is down nobody but
\* who joins them has left threads behind.
Orderly ==
    /\ \A r, s \in Starters : spc[r] # "idle" /\ spc[s] # "idle" => r = s
    /\ \A s \in Starters : spc[s] \in {"set", validation} => NoThreads
    /\ \A s \in Starters : spc[s] = sync => thread[sync] = "none"
    /\ \A s \in Starters : spc[s] \in Loops => running
    /\ running \/ NoThreads \/ \E s \in Starters : spc[s] = "join"

LifeInv ==
    /\ LifecycleOK
    /\ raced \/ Orderly
    /\ TerminatedByRaceOnly

\* Adding blocks and submitting transactions leaves the life cycle alone.
LEMMA LoopLeavesLifecycle ==
    ASSUME NEW c \in Loops, LoopStep(c) PROVE EndLoop(c) \/ UNCHANGED lifecycle
BY DEF LoopStep, ValidateAndAdd, Check, PushBlock, SkipTransaction, ReadBalance,
       DebitSender, CreditRecipient, AddBlockReturns, ReadHeight, StoreHeight,
       RefuseBlock, RemovePending, RemovalReturns, BroadcastBlock, nodeVars

LEMMA LifeStutter == LifeInv /\ UNCHANGED lifecycle => LifeInv'
BY DEF LifeInv, LifecycleOK, Orderly, NoThreads, TerminatedByRaceOnly, lifecycle

LEMMA LifeInit == NodeInit => LifeInv
<1>. SUFFICES ASSUME NodeInit PROVE LifeInv
  OBVIOUS
<1>1. LifecycleOK
  BY DEF NodeInit, LifecycleOK
<1>2. Orderly
  BY DEF NodeInit, Orderly, NoThreads, Loops, validation, sync
<1>. QED  BY <1>1, <1>2 DEF NodeInit, LifeInv, TerminatedByRaceOnly

\* No step that another start or stop overtakes is orderly any more, and a race
\* that began is remembered.
LEMMA LifeStart == ASSUME NEW s \in Starters, LifeInv, ~terminated, Start(s) PROVE LifeInv'
<1>1. LifecycleOK'
  BY DEF LifeInv, LifecycleOK, Start, Enter, Races
<1>2. ASSUME ~raced' PROVE Orderly'
  <2>1. ~raced /\ NobodyElse(s) /\ spc[s] = "idle"
    BY <1>2 DEF Start, Races, NobodyElse
  <2>2. NoThreads
    BY <2>1 DEF LifeInv, Orderly, NobodyElse, Start
  <2>. QED
    BY <2>1, <2>2 DEF LifeInv, LifecycleOK, Orderly, NobodyElse, NoThreads, Start,
       Enter, Loops, validation, sync
<1>. QED  BY <1>1, <1>2 DEF LifeInv, TerminatedByRaceOnly, Start

LEMMA LifeSet ==
    ASSUME NEW s \in Starters, LifeInv, ~terminated, SetRunning(s) PROVE LifeInv'
<1>1. LifecycleOK'
  BY DEF LifeInv, LifecycleOK, SetRunning, Enter, Loops
<1>2. ASSUME ~raced PROVE Orderly'
  BY <1>2 DEF LifeInv, LifecycleOK, Orderly, NoThreads, SetRunning, Enter, Loops,
     validation, sync
<1>. QED  BY <1>1, <1>2 DEF LifeInv, TerminatedByRaceOnly, SetRunning

\* A thread is launched into an empty place, if the calls were orderly.
LEMMA LifeLaunch ==
    ASSUME NEW s \in Starters, NEW t \in Loops, LifeInv, ~terminated, Launch(s, t)
    PROVE  LifeInv'
<1>1. LifecycleOK'
  BY DEF LifeInv, LifecycleOK, Launch, Enter, Loops
<1>2. ASSUME ~raced PROVE Orderly' /\ ~terminated'
  <2>1. thread[t] = "none"
    BY <1>2 DEF LifeInv, Orderly, NoThreads, Launch, Loops, validation, sync
  <2>. QED
    BY <1>2, <2>1 DEF LifeInv, LifecycleOK, Orderly, NoThreads, Launch, Enter, Loops,
       validation, sync
<1>. QED  BY <1>1, <1>2 DEF LifeInv, TerminatedByRaceOnly, Launch

LEMMA LifeStop == ASSUME NEW s \in Starters, LifeInv, ~terminated, Stop(s) PROVE LifeInv'
<1>1. LifecycleOK'
  BY DEF LifeInv, LifecycleOK, Stop, Enter, Races
<1>2. ASSUME ~raced' PROVE Orderly'
  <2>1. ~raced /\ NobodyElse(s) /\ spc[s] = "idle"
    BY <1>2 DEF Stop, Races, NobodyElse
  <2>. QED
    BY <2>1 DEF LifeInv, LifecycleOK, Orderly, NobodyElse, NoThreads, Stop, Enter,
       Loops, validation, sync
<1>. QED  BY <1>1, <1>2 DEF LifeInv, TerminatedByRaceOnly, Stop

LEMMA LifeJoin == ASSUME NEW s \in Starters, LifeInv, ~terminated, Join(s) PROVE LifeInv'
<1>1. LifecycleOK'
  BY DEF LifeInv, LifecycleOK, Join, Enter
<1>2. ASSUME ~raced PROVE Orderly'
  BY <1>2 DEF LifeInv, LifecycleOK, Orderly, NoThreads, Join, Enter, Loops,
     validation, sync
<1>. QED  BY <1>1, <1>2 DEF LifeInv, TerminatedByRaceOnly, Join

LEMMA LifeEnd == ASSUME NEW t \in Loops, LifeInv, ~terminated, EndLoop(t) PROVE LifeInv'
<1>1. LifecycleOK'
  BY DEF LifeInv, LifecycleOK, EndLoop
<1>2. ASSUME ~raced PROVE Orderly'
  BY <1>2 DEF LifeInv, LifecycleOK, Orderly, NoThreads, EndLoop, Loops, validation, sync
<1>. QED  BY <1>1, <1>2 DEF LifeInv, TerminatedByRaceOnly, EndLoop

LEMMA LifeNext == LifeInv /\ [NodeNext]_allVars => LifeInv'
<1>. SUFFICES ASSUME LifeInv, [NodeNext]_allVars PROVE LifeInv'
  OBVIOUS
<1>1. CASE UNCHANGED allVars
  BY <1>1, LifeStutter DEF allVars, nodeVars
<1>2. ASSUME ~terminated, NEW c \in Loops, LoopStep(c) PROVE LifeInv'
  BY <1>2, LoopLeavesLifecycle, LifeStutter, LifeEnd
<1>3. ASSUME ~terminated, NEW s \in Starters, StarterStep(s) PROVE LifeInv'
  BY <1>3, LifeStart, LifeSet, LifeLaunch, LifeStop, LifeJoin DEF StarterStep
<1>4. ASSUME NEW s \in Submitters, SubmitterStep(s) PROVE LifeInv'
  BY <1>4, LifeStutter DEF SubmitterStep, submitTransaction, SubmitReturns
<1>. QED  BY <1>1, <1>2, <1>3, <1>4 DEF NodeNext, SubmitterStep

\* Calls of start and stop that come one after the other, however many threads
\* make them, never assign to a std::thread that was not joined.
THEOREM OnlyRacesTerminate == NodeSpec => []TerminatedByRaceOnly
<1>1. LifeInv => TerminatedByRaceOnly
  BY DEF LifeInv
<1>. QED  BY <1>1, LifeInit, LifeNext, PTL DEF NodeSpec

-----------------------------------------------------------------------------
(* validateAndAddBlock keeps the types of Blockchain *)

\* The transaction that is being processed, and the block that holds it.
LEMMA CurrentType ==
    ASSUME TypeOK, NEW c \in Callers, Processes(c)
    PROVE  /\ Current(c) \in Transaction
           /\ done[c] \in Nat
           /\ Len(block[c].transactions) \in Nat
<1>1. block[c] \in BlockShape \cup {Genesis} /\ done[c] \in Nat
  BY DEF TypeOK, CallsOK
<1>. QED  BY <1>1, BlockTransactions DEF Processes, Current

\* A step of Blockchain, and one that leaves Blockchain alone.
LEMMA BlockchainStep == TypeOK /\ (Next \/ UNCHANGED vars) => TypeOK'
BY TypeNext

\* The block of the call is built on the latest one.
LEMMA AddIsCall ==
    ASSUME TypeOK, AddingOK, NEW c \in Callers, ValidateAndAdd(c)
    PROVE  CallAddBlock(c) /\ block'[c] = added'[c]
<1>1. PICK s \in Stamps, txs \in BlockBodies :
         /\ block' = [block EXCEPT ![c] = Block(s, txs, getLatestBlock.hash)]
         /\ added' = [added EXCEPT ![c] = Block(s, txs, getLatestBlock.hash)]
  BY DEF ValidateAndAdd
<1>2. Len(chain) \in DOMAIN chain
  BY EmptySeq, LenProperties DEF TypeOK, ChainOK
<1>3. getLatestBlock.hash \in PreviousHashes
  BY <1>2 DEF getLatestBlock, PreviousHashes
<1>4. pc[c] = "idle"
  BY DEF AddingOK, ValidateAndAdd, MayAdd
<1>5. block'[c] = added'[c]
  BY <1>1 DEF TypeOK, CallsOK, AddingOK
<1>. QED  BY <1>1, <1>3, <1>4, <1>5 DEF ValidateAndAdd, MayAdd, CallAddBlock

LEMMA TypeLoop ==
    ASSUME TypeOK, AddingOK, NEW c \in Callers, LoopStep(c)
    PROVE  TypeOK'
<1>1. CASE ValidateAndAdd(c)
  BY <1>1, AddIsCall, BlockchainStep DEF Next, AddBlockStep
<1>2. CASE Check(c) \/ PushBlock(c) \/ AddBlockReturns(c)
  BY <1>2, BlockchainStep
  DEF Check, PushBlock, AddBlockReturns, Next, AddBlockStep
<1>3. CASE SkipTransaction(c)
  <2>1. ProcessNext(c)
    BY <1>3 DEF SkipTransaction, ProcessNext, Processes, Current, Transfer
  <2>. QED  BY <2>1, BlockchainStep DEF Next, AddBlockStep
<1>4. CASE \/ ReadBalance(c) \/ ReadHeight(c) \/ StoreHeight(c) \/ RemovePending(c)
           \/ RemovalReturns(c) \/ RefuseBlock(c) \/ BroadcastBlock(c) \/ EndLoop(c)
  BY <1>4, BlockchainStep
  DEF ReadBalance, ReadHeight, StoreHeight, RemovePending, RemovalReturns, RefuseBlock,
      BroadcastBlock, EndLoop
<1>5. ASSUME chain' = chain PROVE BlockShape' = BlockShape
  BY <1>5 DEF BlockShape, PreviousHashes
<1>6. CASE DebitSender(c)
  <2>1. accountBalances' \in [Accounts -> Int]
    BY <1>6, CurrentType DEF DebitSender, TypeOK, AddingOK, Transaction
  <2>. QED  BY <1>5, <1>6, <2>1 DEF DebitSender, TypeOK, ChainOK, CallsOK, pools, call
<1>7. CASE CreditRecipient(c)
  <2>1. Current(c) \in Transaction /\ done[c] \in Nat
        /\ Len(block[c].transactions) \in Nat
    BY <1>7, CurrentType DEF CreditRecipient
  <2>2. accountBalances' \in [Accounts -> Int]
    BY <1>7, <2>1 DEF CreditRecipient, TypeOK, AddingOK, Transaction
  <2>3. CallsOK'
    BY <1>5, <1>7, <2>1 DEF CreditRecipient, Processes, TypeOK, CallsOK
  <2>. QED
    BY <1>5, <1>7, <2>2, <2>3 DEF CreditRecipient, TypeOK, ChainOK, pools
<1>. QED  BY <1>1, <1>2, <1>3, <1>4, <1>6, <1>7 DEF LoopStep

-----------------------------------------------------------------------------
(* The state of the loops *)

LEMMA ShapeKept == ASSUME chain' = chain PROVE BlockShape' = BlockShape
BY DEF BlockShape, PreviousHashes

\* A call that ended holds nothing.
LEMMA CallEndsAdding ==
    ASSUME TypeOK, AddingOK, NEW c \in Callers, CallEnds(c), chain' = chain,
           UNCHANGED processing, phase[c] = "readSender",
           \A d \in Callers : d # c => pc'[d] = pc[d] /\ block'[d] = block[d]
                                       /\ done'[d] = done[d],
           pc'[c] = "idle"
    PROVE  AddingOK'
<1>1. Genesis.transactions = <<>> /\ Len(<<>>) = 0
  BY DEF Genesis, Block
<1>2. /\ npc' \in [Callers -> {"idle", "addBlock", "height", "store", "remove"}]
      /\ added' \in [Callers -> BlockShape' \cup {Genesis}]
      /\ height' \in [Callers -> Nat]
      /\ removed' \in [Callers -> Nat]
  BY ShapeKept DEF AddingOK, CallEnds, Goto
<1>3. ASSUME NEW d \in Callers
      PROVE  /\ pc'[d] # "idle" <=> npc'[d] = "addBlock"
             /\ npc'[d] = "addBlock" => added'[d] = block'[d]
             /\ phase'[d] # "readSender" => Processes(d)' /\ Current(d)'.type = "FINANCIAL"
             /\ removed'[d] <= Len(added'[d].transactions)
             /\ npc'[d] # "remove" => removed'[d] = 0
  <2>1. CASE d = c
    BY <1>1, <2>1 DEF AddingOK, CallEnds, Goto, processing
  <2>2. CASE d # c
    <3>1. /\ npc'[d] = npc[d] /\ added'[d] = added[d] /\ removed'[d] = removed[d]
          /\ phase'[d] = phase[d]
      BY <2>2 DEF AddingOK, CallEnds, Goto, processing
    <3>2. pc'[d] = pc[d] /\ block'[d] = block[d] /\ done'[d] = done[d]
      BY <2>2
    <3>. QED  BY <3>1, <3>2 DEF AddingOK, Processes, Current
  <2>. QED  BY <2>1, <2>2
<1>. QED  BY <1>2, <1>3 DEF AddingOK, processing

LEMMA AddingLoop ==
    ASSUME TypeOK, AddingOK, NEW c \in Callers, LoopStep(c)
    PROVE  AddingOK'
<1>0. /\ Len(block[c].transactions) \in Nat /\ done[c] \in Nat
      /\ Len(added[c].transactions) \in Nat
  BY BlockTransactions DEF TypeOK, CallsOK, AddingOK
<1>1. CASE ValidateAndAdd(c)
  <2>1. CallAddBlock(c) /\ block'[c] = added'[c]
    BY <1>1, AddIsCall
  <2>2. PICK b \in BlockShape : block' = [block EXCEPT ![c] = b]
    <3>1. PICK s \in Stamps, txs \in BlockBodies, p \in PreviousHashes :
            block' = [block EXCEPT ![c] = Block(s, txs, p)]
      BY <2>1 DEF CallAddBlock
    <3>2. Block(s, txs, p) \in BlockShape
      BY DEF BlockShape
    <3>. QED  BY <3>1, <3>2
  <2>3. added' = [added EXCEPT ![c] = b] /\ Len(b.transactions) \in Nat
    BY <1>1, <2>1, <2>2, BlockTransactions DEF ValidateAndAdd, TypeOK, CallsOK, AddingOK
  <2>4. phase[c] = "readSender" /\ npc[c] = "idle" /\ pc[c] = "idle"
    BY <1>1 DEF ValidateAndAdd, MayAdd, AddingOK, Processes, Current
  <2>5. ASSUME NEW d \in Callers
        PROVE  /\ pc'[d] # "idle" <=> npc'[d] = "addBlock"
               /\ npc'[d] = "addBlock" => added'[d] = block'[d]
               /\ phase'[d] # "readSender" => Processes(d)' /\ Current(d)'.type = "FINANCIAL"
               /\ removed'[d] <= Len(added'[d].transactions)
               /\ npc'[d] # "remove" => removed'[d] = 0
    BY <1>1, <2>2, <2>3, <2>4
    DEF ValidateAndAdd, Goto, AddingOK, TypeOK, CallsOK, processing, Processes, Current
  <2>6. npc' \in [Callers -> {"idle", "addBlock", "height", "store", "remove"}]
    BY <1>1 DEF ValidateAndAdd, Goto, AddingOK
  <2>7. added' \in [Callers -> BlockShape' \cup {Genesis}]
    BY <1>1, <2>3, ShapeKept DEF ValidateAndAdd, AddingOK
  <2>. QED  BY <1>1, <2>5, <2>6, <2>7 DEF ValidateAndAdd, AddingOK, processing
<1>2. CASE Check(c)
  <2>1. /\ chain' = chain /\ npc[c] = "addBlock" /\ UNCHANGED processing
        /\ pc[c] \in {"validate", "consensus"}
        /\ \A d \in Callers : d # c => pc'[d] = pc[d] /\ block'[d] = block[d]
                                       /\ done'[d] = done[d]
    BY <1>2 DEF Check, ValidateBlock, ReachConsensus, Return, TypeOK, CallsOK
  <2>2. phase[c] = "readSender"
    BY <2>1 DEF AddingOK, Processes, Current
  <2>3. CASE pc'[c] = "idle"
    BY <1>2, <2>1, <2>2, <2>3, CallEndsAdding DEF Check
  <2>4. CASE pc'[c] # "idle"
    <3>1. UNCHANGED adding /\ block'[c] = block[c]
      BY <1>2, <2>4 DEF Check, ValidateBlock, ReachConsensus, Return, TypeOK, CallsOK
    <3>2. ASSUME NEW d \in Callers
          PROVE  /\ pc'[d] # "idle" <=> npc'[d] = "addBlock"
                 /\ npc'[d] = "addBlock" => added'[d] = block'[d]
                 /\ phase'[d] # "readSender" => Processes(d)' /\ Current(d)'.type = "FINANCIAL"
      <4>1. CASE d = c
        BY <2>1, <2>2, <2>4, <3>1, <4>1 DEF AddingOK, adding, processing
      <4>2. CASE d # c
        <5>1. pc'[d] = pc[d] /\ block'[d] = block[d] /\ done'[d] = done[d]
          BY <2>1, <4>2
        <5>. QED
          BY <2>1, <3>1, <5>1 DEF AddingOK, adding, processing, Processes, Current
      <4>. QED  BY <4>1, <4>2
    <3>. QED
      BY <2>1, <3>1, <3>2, ShapeKept DEF AddingOK, adding, processing
  <2>. QED  BY <2>3, <2>4
<1>3. CASE PushBlock(c)
  <2>1. BlockShape \subseteq BlockShape'
    BY <1>3, ShapeGrows DEF PushBlock, Push, TypeOK
  <2>2. overlapped' \in BOOLEAN
    BY <1>3 DEF PushBlock
  <2>3. ASSUME NEW d \in Callers
        PROVE  /\ pc'[d] # "idle" <=> npc'[d] = "addBlock"
               /\ npc'[d] = "addBlock" => added'[d] = block'[d]
               /\ phase'[d] # "readSender" => Processes(d)' /\ Current(d)'.type = "FINANCIAL"
               /\ removed'[d] <= Len(added'[d].transactions)
               /\ npc'[d] # "remove" => removed'[d] = 0
    BY <1>3 DEF PushBlock, Push, AddingOK, adding, Processes, Current, TypeOK, CallsOK
  <2>. QED  BY <1>3, <2>1, <2>2, <2>3 DEF PushBlock, Push, AddingOK, adding
<1>4. CASE SkipTransaction(c)
  <2>1. phase[c] = "readSender"
    BY <1>4 DEF SkipTransaction, AddingOK, TypeOK
  <2>. QED
    BY <1>4, <2>1, ShapeKept
    DEF SkipTransaction, AddingOK, nodeVars, adding, processing, Processes, Current, TypeOK, CallsOK
<1>5. CASE ReadBalance(c)
  <2>1. Current(c) \in Transaction
    BY <1>5, CurrentType DEF ReadBalance
  <2>2. seen' \in [Callers -> Int]
    BY <1>5, <2>1 DEF ReadBalance, AddingOK, TypeOK, Transaction
  <2>3. phase' \in [Callers -> {"readSender", "writeSender", "readRecipient",
                                "writeRecipient"}]
    BY <1>5 DEF ReadBalance, AddingOK
  <2>. QED
    BY <1>5, <2>2, <2>3, ShapeKept
    DEF ReadBalance, AddingOK, adding, vars, call, Processes, Current
<1>6. CASE DebitSender(c)
  BY <1>6, ShapeKept DEF DebitSender, AddingOK, adding, call, Processes, Current
<1>7. CASE CreditRecipient(c)
  BY <1>0, <1>7, ShapeKept
  DEF CreditRecipient, AddingOK, adding, Processes, Current, TypeOK, CallsOK
<1>8. CASE AddBlockReturns(c)
  <2>1. phase[c] = "readSender"
    BY <1>0, <1>8 DEF AddBlockReturns, Finish, AddingOK, Processes, Current
  <2>2. ASSUME NEW d \in Callers
        PROVE  /\ pc'[d] # "idle" <=> npc'[d] = "addBlock"
               /\ npc'[d] = "addBlock" => added'[d] = block'[d]
               /\ phase'[d] # "readSender" => Processes(d)' /\ Current(d)'.type = "FINANCIAL"
               /\ removed'[d] <= Len(added'[d].transactions)
               /\ npc'[d] # "remove" => removed'[d] = 0
    BY <1>8, <2>1
    DEF AddBlockReturns, Finish, Return, Goto, AddingOK, processing, Processes, Current,
        TypeOK, CallsOK
  <2>. QED
    BY <1>8, <2>2, ShapeKept DEF AddBlockReturns, Finish, Goto, AddingOK, processing
<1>9. CASE ReadHeight(c)
  <2>1. Len(chain) \in Nat
    BY LenProperties DEF TypeOK, ChainOK
  <2>. QED
    BY <1>9, <2>1, ShapeKept
    DEF ReadHeight, Goto, AddingOK, vars, call, processing, Processes, Current
<1>10. CASE StoreHeight(c)
  BY <1>10, ShapeKept DEF StoreHeight, Goto, AddingOK, vars, call, processing, Processes, Current
<1>11. CASE RemovalReturns(c)
  BY <1>0, <1>11, ShapeKept
  DEF RemovalReturns, AddingOK, vars, call, processing, Processes, Current
<1>12. CASE BroadcastBlock(c)
  <2>1. phase[c] = "readSender" /\ pc[c] = "idle"
    BY <1>12 DEF BroadcastBlock, AddingOK, Processes, Current
  <2>. QED
    BY <1>12, <2>1, CallEndsAdding DEF BroadcastBlock, vars, call
<1>13. CASE EndLoop(c) \/ RemovePending(c) \/ RefuseBlock(c)
  BY <1>13, ShapeKept
  DEF EndLoop, RemovePending, RefuseBlock, AddingOK, vars, call, adding, processing,
      Processes, Current
<1>. QED
  BY <1>1, <1>2, <1>3, <1>4, <1>5, <1>6, <1>7, <1>8, <1>9, <1>10, <1>11, <1>12, <1>13
  DEF LoopStep

-----------------------------------------------------------------------------
(* The height *)

\* A height that was read is that of a chain which may have grown since; as long
\* as no two calls overlapped, nothing was pushed between the read and the store.
HeightInv ==
    /\ lastBlockHeight \in Nat
    /\ \A c \in Callers :
         /\ height[c] <= Len(chain)
         /\ npc[c] = "store" => overlapped \/ height[c] = Len(chain)
    /\ HeightFollowsChain

AddInv == TypeOK /\ AddingOK /\ HeightInv

\* What moves no call past or out of the two steps of the height keeps the
\* invariant.
LEMMA HeightStutter ==
    ASSUME TypeOK, AddingOK, HeightInv, UNCHANGED <<chain, lastBlockHeight, overlapped>>,
           \A c \in Callers :
             /\ height'[c] \in {height[c], 0}
             /\ npc'[c] = "store" => npc[c] = "store" /\ height'[c] = height[c]
             /\ Unstored(c) => Unstored(c)'
    PROVE  HeightInv'
<1>1. Len(chain) \in Nat
  BY LenProperties DEF TypeOK, ChainOK
<1>2. \A c \in Callers : height[c] \in Nat
  BY DEF AddingOK
<1>. QED  BY <1>1, <1>2 DEF HeightInv, HeightFollowsChain

LEMMA HeightLoop ==
    ASSUME TypeOK, AddingOK, HeightInv, NEW c \in Callers, LoopStep(c)
    PROVE  HeightInv'
<1>0. Len(chain) \in Nat
  BY LenProperties DEF TypeOK, ChainOK
<1>1. CASE ValidateAndAdd(c)
  BY <1>1, HeightStutter
  DEF ValidateAndAdd, MayAdd, Goto, processing, Unstored, TypeOK, CallsOK, AddingOK
<1>2. CASE Check(c)
  <2>1. /\ chain' = chain /\ npc[c] = "addBlock" /\ UNCHANGED <<lastBlockHeight, overlapped>>
        /\ pc[c] \in {"validate", "consensus"}
        /\ \A d \in Callers : d # c => pc'[d] = pc[d]
        /\ CallEnds(c) \/ UNCHANGED adding
    BY <1>2
    DEF Check, ValidateBlock, ReachConsensus, Return, TypeOK, CallsOK, processing
  <2>2. \A d \in Callers :
          /\ height'[d] \in {height[d], 0}
          /\ npc'[d] = "store" => npc[d] = "store" /\ height'[d] = height[d]
          /\ Unstored(d) => Unstored(d)'
    BY <2>1 DEF CallEnds, adding, Goto, AddingOK, Unstored
  <2>. QED  BY <2>1, <2>2, HeightStutter
<1>3. CASE PushBlock(c)
  <2>1. /\ Len(chain') = Len(chain) + 1
        /\ npc[c] = "addBlock" /\ pc'[c] = "process"
        /\ UNCHANGED <<npc, height, lastBlockHeight>>
        /\ overlapped' = (overlapped \/ \E d \in Callers \ {c} : Unstored(d))
    BY <1>3, AppendProperties
    DEF PushBlock, Push, TypeOK, CallsOK, ChainOK, adding
  <2>2. \A d \in Callers : height[d] \in Nat
    BY DEF AddingOK
  <2>3. Unstored(c)'
    BY <2>1 DEF Unstored
  <2>4. ASSUME NEW d \in Callers
        PROVE  /\ height'[d] <= Len(chain')
               /\ npc'[d] = "store" => overlapped' \/ height'[d] = Len(chain')
    <3>1. npc[d] = "store" => overlapped'
      BY <2>1 DEF Unstored
    <3>. QED  BY <1>0, <2>1, <2>2, <3>1 DEF HeightInv
  <2>5. HeightFollowsChain'
    BY <1>0, <2>1, <2>3 DEF HeightInv, HeightFollowsChain
  <2>. QED  BY <2>1, <2>4, <2>5 DEF HeightInv
<1>4. CASE \/ SkipTransaction(c) \/ ReadBalance(c) \/ DebitSender(c)
           \/ CreditRecipient(c) \/ RemovePending(c) \/ RemovalReturns(c)
           \/ RefuseBlock(c) \/ EndLoop(c)
  BY <1>4, HeightStutter
  DEF SkipTransaction, ReadBalance, DebitSender, CreditRecipient, RemovePending,
      RemovalReturns, RefuseBlock, EndLoop,
      nodeVars, adding, processing, vars, call, Unstored
<1>5. CASE AddBlockReturns(c)
  BY <1>5, HeightStutter
  DEF AddBlockReturns, Finish, Return, Goto, processing, Unstored, TypeOK, CallsOK, AddingOK
<1>6. CASE ReadHeight(c)
  BY <1>0, <1>6
  DEF ReadHeight, Goto, vars, call, processing, Unstored, AddingOK, HeightInv, HeightFollowsChain
<1>7. CASE StoreHeight(c)
  <2>1. /\ npc[c] = "store" /\ lastBlockHeight' = height[c] /\ height[c] \in Nat
        /\ UNCHANGED <<chain, height, pc, overlapped>>
        /\ npc' = [npc EXCEPT ![c] = "remove"]
    BY <1>7 DEF StoreHeight, Goto, vars, call, processing, AddingOK
  <2>2. HeightFollowsChain'
    BY <1>0, <2>1 DEF HeightInv, HeightFollowsChain
  <2>. QED  BY <2>1, <2>2 DEF HeightInv, AddingOK
<1>8. CASE BroadcastBlock(c)
  BY <1>8, HeightStutter
  DEF BroadcastBlock, CallEnds, Goto, vars, call, processing, Unstored, AddingOK
<1>. QED
  BY <1>1, <1>2, <1>3, <1>4, <1>5, <1>6, <1>7, <1>8 DEF LoopStep

LEMMA AddInit == NodeInit => AddInv
<1>. SUFFICES ASSUME NodeInit PROVE AddInv
  OBVIOUS
<1>1. chain \in Seq(BlockShape \cup {Genesis}) /\ endorsed \in Seq(SUBSET Validators)
  BY DEF NodeInit
<1>2. Genesis.transactions = <<>> /\ Len(<<>>) = 0 /\ Len(<<Genesis>>) = 1
  BY DEF Genesis, Block
<1>3. TypeOK
  <2>1. CallsOK
    BY <1>2 DEF NodeInit, CallsOK
  <2>2. ChainOK
    BY <1>1, <1>2, EmptySeq DEF NodeInit, ChainOK
  <2>3. accountBalances \in [Accounts -> Int] /\ direct \in Seq(DirectTransactions)
    BY NodeAssumption DEF NodeInit
  <2>. QED  BY <2>1, <2>2, <2>3 DEF NodeInit, TypeOK
<1>4. AddingOK
  <2>. DEFINE Phases == {"readSender", "writeSender", "readRecipient", "writeRecipient"}
  <2>0. /\ npc \in [Callers -> {"idle", "addBlock", "height", "store", "remove"}]
        /\ added \in [Callers -> BlockShape \cup {Genesis}]
        /\ phase \in [Callers -> Phases]
        /\ overlapped \in BOOLEAN
    BY DEF NodeInit
  <2>1. /\ height \in [Callers -> Nat] /\ removed \in [Callers -> Nat]
        /\ seen \in [Callers -> Int]
    BY DEF NodeInit
  <2>2. ASSUME NEW c \in Callers
        PROVE  /\ pc[c] = "idle" /\ npc[c] = "idle" /\ phase[c] = "readSender"
               /\ removed[c] = 0 /\ added[c] = Genesis
    BY DEF NodeInit
  <2>. QED  BY <1>2, <2>0, <2>1, <2>2 DEF AddingOK
<1>5. HeightInv
  <2>1. /\ Len(chain) = 1 /\ lastBlockHeight = 0
        /\ \A c \in Callers : height[c] = 0 /\ npc[c] = "idle"
    BY <1>2 DEF NodeInit
  <2>. QED  BY <2>1 DEF HeightInv, HeightFollowsChain
<1>. QED  BY <1>3, <1>4, <1>5 DEF AddInv

LEMMA AddNext == AddInv /\ [NodeNext]_allVars => AddInv'
<1>. SUFFICES ASSUME AddInv, [NodeNext]_allVars PROVE AddInv'
  OBVIOUS
<1>1. ASSUME NEW c \in Loops, LoopStep(c) PROVE AddInv'
  BY <1>1, TypeLoop, AddingLoop, HeightLoop, NodeAssumption DEF AddInv
<1>2. ASSUME UNCHANGED <<vars, adding, processing, lastBlockHeight>> PROVE AddInv'
  <2>1. TypeOK'
    BY <1>2, BlockchainStep DEF AddInv
  <2>2. AddingOK'
    BY <1>2, ShapeKept DEF AddInv, AddingOK, adding, processing, vars, call, Processes, Current
  <2>3. HeightInv'
    BY <1>2, HeightStutter DEF AddInv, adding, processing, vars, call, Unstored
  <2>. QED  BY <2>1, <2>2, <2>3 DEF AddInv
<1>3. ASSUME NEW s \in Starters, StarterStep(s) PROVE AddInv'
  BY <1>2, <1>3 DEF StarterStep, Start, SetRunning, Launch, Stop, Join
<1>4. ASSUME NEW s \in Submitters, SubmitterStep(s) PROVE AddInv'
  BY <1>2, <1>4 DEF SubmitterStep, submitTransaction, SubmitReturns
<1>5. CASE UNCHANGED allVars
  BY <1>2, <1>5 DEF allVars, nodeVars
<1>. QED  BY <1>1, <1>3, <1>4, <1>5 DEF NodeNext, SubmitterStep

-----------------------------------------------------------------------------
(* The queue of pending transactions *)

\* The chain has a transaction of that hash.
InChain(tx) ==
    \E i \in DOMAIN chain : \E j \in DOMAIN chain[i].transactions :
        chain[i].transactions[j].hash = tx.hash

Holds(q, tx) == \E i \in DOMAIN q : q[i] = tx

IsPending(tx) == Holds(pendingTransactions, tx)

\* Block b is one of the chain.
Stored(b) == \E i \in DOMAIN chain : chain[i] = b

\* A call is past its push.
Pushed(c) == pc[c] = "process" \/ npc[c] \in {"height", "store", "remove"}

\* Only one thread is about to write the queue, and what it will write lacks no
\* submitted transaction that the chain does not have.
CopiesKept ==
    \A t \in Loops \cup Submitters : \A q \in copy[t] :
        /\ \A u \in Loops \cup Submitters : copy[u] # {} => u = t
        /\ \A tx \in submitted : Holds(q, tx) \/ InChain(tx)

\* Past its push, a call holds a block of the chain, and only then does it take
\* transactions out of the queue.
QueueInv ==
    /\ QueueOK
    /\ queueRaced \/ CopiesKept
    /\ \A c \in Callers : Pushed(c) => Stored(added[c])
    /\ SubmittedIsKept

\* Removing a hash keeps every other entry of the queue, and adds none.
LEMMA RemoveKeepsOthers ==
    ASSUME pendingTransactions \in Seq(Transactions), NEW c, NEW hash,
           removePendingTransaction(c, hash)
    PROVE  \E q \in Seq(Transactions) :
             /\ BeginWrite(c, q)
             /\ \A tx \in Transactions : IsPending(tx) /\ tx.hash # hash => Holds(q, tx)
<1>. DEFINE W == Without(hash)
            n == Cardinality(W)
<1>1. PICK position \in [1..n -> W] :
        /\ \A i, j \in DOMAIN position : i < j => position[i] < position[j]
        /\ BeginWrite(c, [i \in DOMAIN position |-> pendingTransactions[position[i]]])
  BY DEF removePendingTransaction
<1>2. W \subseteq 1..Len(pendingTransactions) /\ Len(pendingTransactions) \in Nat
  BY LenProperties DEF Without
<1>3. IsFiniteSet(W) /\ n \in Nat
  <2>1. IsFiniteSet(1..Len(pendingTransactions))
    BY <1>2, FS_Interval
  <2>2. IsFiniteSet(W)
    BY <1>2, <2>1, FS_Subset
  <2>. QED  BY <2>2, FS_CardinalityType
<1>. DEFINE q == [i \in DOMAIN position |-> pendingTransactions[position[i]]]
<1>. HIDE DEF W, n
<1>0. /\ position \in [1..n -> W]
      /\ \A i, j \in 1..n : i < j => position[i] < position[j]
  BY <1>1
<1>4. q \in Seq(Transactions)
  <2>1. \A i \in 1..n : pendingTransactions[position[i]] \in Transactions
    BY <1>2, ElementOfSeq
  <2>. QED  BY <1>0, <1>1, <1>3, <2>1
<1>5. \A k \in W : \E i \in 1..n : position[i] = k
  <2>1. \A i \in 1..n : position[i] \in Int
    BY <1>0, <1>2
  <2>2. \A i, j \in 1..n : position[i] = position[j] => i = j
    BY <1>0, <1>3, <2>1
  <2>3. position \in Injection(1..n, W)
    BY <1>0, <2>2 DEF Injection, IsInjective
  <2>4. IsFiniteSet(1..n) /\ Cardinality(1..n) = n
    BY <1>3, FS_Interval
  <2>5. position \in Surjection(1..n, W)
    BY <1>3, <2>3, <2>4, FS_Injection DEF n
  <2>. QED  BY <2>5 DEF Surjection
<1>6. ASSUME NEW tx \in Transactions, IsPending(tx), tx.hash # hash PROVE Holds(q, tx)
  <2>1. PICK k \in W : pendingTransactions[k] = tx
    BY <1>6 DEF IsPending, Holds, W, Without
  <2>2. PICK i \in 1..n : position[i] = k
    BY <1>5
  <2>. QED  BY <1>0, <2>1, <2>2 DEF Holds
<1>. QED  BY <1>1, <1>4, <1>6

\* A chain that keeps its blocks keeps what was stored.
ChainKept == \A i \in DOMAIN chain : i \in DOMAIN chain' /\ chain'[i] = chain[i]

LEMMA StoredStays ==
    ASSUME ChainKept
    PROVE  /\ \A b : Stored(b) => Stored(b)'
           /\ \A tx : InChain(tx) => InChain(tx)'
<1>1. \A b : Stored(b) => Stored(b)'
  BY DEF ChainKept, Stored
<1>2. ASSUME NEW tx, InChain(tx) PROVE InChain(tx)'
  <2>1. PICK i \in DOMAIN chain : \E j \in DOMAIN chain[i].transactions :
               chain[i].transactions[j].hash = tx.hash
    BY <1>2 DEF InChain
  <2>2. i \in DOMAIN chain' /\ chain'[i] = chain[i]
    BY DEF ChainKept
  <2>. QED  BY <2>1, <2>2 DEF InChain
<1>. QED  BY <1>1, <1>2

\* Until two operations on the queue meet.
LEMMA KeptSoFar ==
    ASSUME QueueInv, ~queueRaced, NEW tx \in submitted
    PROVE  tx \in Transactions /\ (IsPending(tx) \/ InChain(tx))
BY DEF QueueInv, QueueOK, SubmittedIsKept, IsPending, Holds, InChain

\* The queue is as it was.
LEMMA QueueStutter ==
    ASSUME QueueInv, ChainKept, aborted' \in BOOLEAN,
           UNCHANGED <<pendingTransactions, submitted, copy, queueRaced>>,
           \A c \in Callers : Pushed(c)' => Stored(added[c])'
    PROVE  QueueInv'
<1>1. ~queueRaced => \A tx \in submitted' : IsPending(tx)' \/ InChain(tx)'
  BY KeptSoFar, StoredStays DEF IsPending, Holds
<1>2. SubmittedIsKept'
  BY <1>1 DEF SubmittedIsKept, IsPending, Holds, InChain
<1>3. queueRaced' \/ CopiesKept'
  BY StoredStays DEF QueueInv, CopiesKept, Holds
<1>. QED  BY <1>2, <1>3 DEF QueueInv, QueueOK

\* Thread t begins to write q.
LEMMA QueueBegin ==
    ASSUME QueueInv, NEW t \in Loops \cup Submitters, NEW q \in Seq(Transactions),
           BeginWrite(t, q), t \in Submitters => q # <<>>,
           UNCHANGED <<pendingTransactions, submitted, chain, pc, npc, added>>,
           ~queueRaced => \A tx \in submitted : Holds(q, tx) \/ InChain(tx)
    PROVE  QueueInv'
<1>1. /\ copy[t] = {} /\ copy' = [copy EXCEPT ![t] = {q}]
      /\ DOMAIN copy = Loops \cup Submitters
      /\ aborted' \in BOOLEAN
      /\ queueRaced' = (queueRaced \/ \E u \in DOMAIN copy \ {t} : copy[u] # {})
  BY DEF BeginWrite, QueueInv, QueueOK
<1>2. QueueOK'
  BY <1>1 DEF QueueInv, QueueOK
<1>3. ASSUME ~queueRaced' PROVE CopiesKept'
  <2>1. ~queueRaced /\ \A u \in Loops \cup Submitters : u # t => copy'[u] = {}
    BY <1>1, <1>3
  <2>2. copy'[t] = {q}
    BY <1>1
  <2>. QED  BY <2>1, <2>2 DEF CopiesKept, InChain
<1>4. SubmittedIsKept'
  <2>1. ~queueRaced' => ~queueRaced
    BY <1>1
  <2>2. ~queueRaced => \A tx \in submitted : IsPending(tx) \/ InChain(tx)
    BY KeptSoFar
  <2>. QED  BY <2>1, <2>2 DEF SubmittedIsKept, IsPending, Holds, InChain
<1>. QED  BY <1>2, <1>3, <1>4 DEF QueueInv, Stored, Pushed

\* Thread t writes what it had begun to write.
LEMMA QueueEnd ==
    ASSUME QueueInv, NEW t \in Loops \cup Submitters, NEW q \in copy[t],
           pendingTransactions' = q, EndWrite(t),
           submitted' \in {submitted, submitted \cup {q[Len(q)]}},
           submitted' = submitted \/ q # <<>>,
           UNCHANGED <<chain, pc, npc, added>>
    PROVE  QueueInv'
<1>1. /\ copy' = [copy EXCEPT ![t] = {}] /\ UNCHANGED <<queueRaced, aborted>>
      /\ q \in Seq(Transactions)
      /\ DOMAIN copy = Loops \cup Submitters
  BY DEF EndWrite, QueueInv, QueueOK
<1>2. ASSUME submitted' # submitted
      PROVE  q[Len(q)] \in Transactions /\ Holds(q, q[Len(q)])
  <2>1. Len(q) \in Nat /\ DOMAIN q = 1..Len(q) /\ Len(q) # 0
    BY <1>1, <1>2, LenProperties, EmptySeq
  <2>2. Len(q) \in 1..Len(q)
    BY <2>1
  <2>. QED  BY <1>1, <2>1, <2>2, ElementOfSeq DEF Holds
<1>3. QueueOK'
  BY <1>1, <1>2 DEF QueueInv, QueueOK
<1>4. ASSUME ~queueRaced
      PROVE  /\ \A tx \in submitted' : Holds(q, tx) \/ InChain(tx)
             /\ \A u \in Loops \cup Submitters : copy'[u] = {}
  <2>1. CopiesKept
    BY <1>4 DEF QueueInv
  <2>. QED  BY <1>1, <1>2, <2>1 DEF CopiesKept
<1>5. SubmittedIsKept'
  BY <1>1, <1>4 DEF SubmittedIsKept, Holds, InChain
<1>6. queueRaced' \/ CopiesKept'
  BY <1>1, <1>4 DEF CopiesKept
<1>. QED  BY <1>3, <1>5, <1>6 DEF QueueInv, Stored, Pushed

LEMMA QueueLoop ==
    ASSUME TypeOK, AddingOK, QueueInv, NEW c \in Callers, LoopStep(c)
    PROVE  QueueInv'
<1>0. ASSUME chain' = chain PROVE ChainKept
  BY <1>0 DEF ChainKept
<1>1. CASE ValidateAndAdd(c)
  <2>1. /\ chain' = chain
        /\ \A d \in Callers : Pushed(d)' => Pushed(d) /\ added'[d] = added[d]
    BY <1>1 DEF ValidateAndAdd, Goto, Pushed, TypeOK, CallsOK, AddingOK
  <2>. QED
    BY <1>0, <1>1, <2>1, QueueStutter
    DEF ValidateAndAdd, queue, QueueInv, QueueOK, Stored
<1>2. CASE Check(c)
  <2>1. /\ chain' = chain /\ npc[c] = "addBlock"
        /\ pc'[c] \in {"consensus", "push", "idle"}
        /\ \A d \in Callers : d # c => pc'[d] = pc[d]
        /\ CallEnds(c) \/ UNCHANGED adding
    BY <1>2 DEF Check, ValidateBlock, ReachConsensus, Return, TypeOK, CallsOK
  <2>2. \A d \in Callers : Pushed(d)' => Pushed(d) /\ added'[d] = added[d]
    BY <2>1 DEF CallEnds, adding, Goto, AddingOK, Pushed
  <2>. QED  BY <1>0, <1>2, <2>1, <2>2, QueueStutter
         DEF Check, queue, QueueInv, QueueOK, Stored
<1>3. CASE PushBlock(c)
  <2>1. ChainKept /\ Stored(block[c])'
    <3>1. TypeOK /\ Push(c)
      BY <1>3 DEF PushBlock
    <3>2. /\ Len(chain) \in Nat \ {0}
          /\ Len(chain') = Len(chain) + 1
          /\ \A i \in 1..Len(chain) : chain'[i] = chain[i]
          /\ chain'[Len(chain) + 1] = block[c]
      BY <3>1, PushGrows
    <3>3. DOMAIN chain = 1..Len(chain) /\ DOMAIN chain' = 1..Len(chain')
      BY <3>1, AppendProperties, LenProperties DEF TypeOK, ChainOK, CallsOK, Push
    <3>4. block'[c] = block[c]
      BY <3>1 DEF Push
    <3>. QED  BY <3>2, <3>3, <3>4 DEF ChainKept, Stored
  <2>2. added'[c] = block[c]
    BY <1>3 DEF PushBlock, Push, AddingOK, adding
  <2>3. \A d \in Callers : d # c => (Pushed(d)' => Pushed(d) /\ added'[d] = added[d])
    BY <1>3 DEF PushBlock, Push, adding, Pushed, TypeOK, CallsOK
  <2>4. ASSUME NEW d \in Callers, Pushed(d)' PROVE Stored(added[d])'
    <3>1. CASE d = c
      BY <2>1, <2>2, <3>1, <1>3 DEF Stored, PushBlock, Push
    <3>2. CASE d # c
      BY <2>1, <2>3, <2>4, <3>2, StoredStays DEF QueueInv, Stored
    <3>. QED  BY <3>1, <3>2
  <2>. QED  BY <1>3, <2>1, <2>4, QueueStutter
         DEF PushBlock, queue, QueueInv, QueueOK
<1>4. CASE \/ SkipTransaction(c) \/ ReadBalance(c) \/ DebitSender(c)
           \/ CreditRecipient(c) \/ EndLoop(c)
  <2>1. UNCHANGED <<chain, pc, npc, added, queue>>
    BY <1>4
    DEF SkipTransaction, ReadBalance, DebitSender, CreditRecipient, EndLoop, nodeVars,
        adding, vars, call
  <2>. QED  BY <1>0, <2>1, QueueStutter DEF queue, QueueInv, QueueOK, Stored, Pushed
<1>5. CASE AddBlockReturns(c) \/ ReadHeight(c) \/ StoreHeight(c) \/ BroadcastBlock(c)
  <2>1. chain' = chain /\ UNCHANGED queue
    BY <1>5 DEF AddBlockReturns, Finish, ReadHeight, StoreHeight, BroadcastBlock, vars
  <2>2. ASSUME NEW d \in Callers, Pushed(d)' PROVE Pushed(d) /\ added'[d] = added[d]
    BY <1>5, <2>2
    DEF AddBlockReturns, Finish, Return, ReadHeight, StoreHeight, BroadcastBlock, CallEnds,
        Goto, Pushed, vars, call, TypeOK, CallsOK, AddingOK
  <2>. QED  BY <1>0, <2>1, <2>2, QueueStutter DEF queue, QueueInv, QueueOK, Stored
<1>6. CASE RemovePending(c)
  <2>. DEFINE k == removed[c] + 1
              hash == added[c].transactions[k].hash
  <2>1. /\ UNCHANGED <<chain, pc, npc, added, pendingTransactions, submitted>>
        /\ removePendingTransaction(c, hash)
        /\ Pushed(c)
    BY <1>6 DEF RemovePending, vars, call, adding, Pushed
  <2>2. k \in DOMAIN added[c].transactions
    <3>1. added[c] \in BlockShape \cup {Genesis} /\ removed[c] \in Nat
      BY DEF AddingOK
    <3>. QED  BY <1>6, <3>1, BlockTransactions DEF RemovePending
  <2>3. \A tx : tx.hash = hash => InChain(tx)
    BY <2>1, <2>2 DEF QueueInv, Stored, InChain
  <2>. HIDE DEF hash
  <2>4. PICK q \in Seq(Transactions) :
          /\ BeginWrite(c, q)
          /\ \A tx \in Transactions : IsPending(tx) /\ tx.hash # hash => Holds(q, tx)
    BY <2>1, RemoveKeepsOthers DEF QueueInv, QueueOK
  <2>5. ~queueRaced => \A tx \in submitted : Holds(q, tx) \/ InChain(tx)
    BY <2>3, <2>4, KeptSoFar
  <2>6. c \in Loops /\ c \notin Submitters
    BY NodeAssumption
  <2>. QED  BY <2>1, <2>4, <2>5, <2>6, QueueBegin
<1>7. CASE RemovalReturns(c)
  <2>1. PICK q \in copy[c] : pendingTransactions' = q
    BY <1>7 DEF RemovalReturns
  <2>2. EndWrite(c) /\ UNCHANGED <<submitted, chain, pc, npc, added>>
    BY <1>7 DEF RemovalReturns, vars, call
  <2>3. c \in Loops
    BY NodeAssumption
  <2>. QED  BY <2>1, <2>2, <2>3, QueueEnd
<1>8. CASE RefuseBlock(c)
  <2>1. /\ UNCHANGED <<chain, pc, npc, added>> /\ aborted' = TRUE
        /\ UNCHANGED <<pendingTransactions, submitted, copy, queueRaced>>
    BY <1>8 DEF RefuseBlock, vars, call, adding
  <2>. QED  BY <1>0, <2>1, QueueStutter DEF QueueInv, Stored, Pushed
<1>. QED  BY <1>1, <1>2, <1>3, <1>4, <1>5, <1>6, <1>7, <1>8 DEF LoopStep

\* A transaction that is submitted goes to the end of the queue.
LEMMA QueueSubmit ==
    ASSUME QueueInv, NEW s \in Submitters, SubmitterStep(s)
    PROVE  QueueInv'
<1>1. CASE SubmitReturns(s)
  <2>1. PICK q \in copy[s] :
          pendingTransactions' = q /\ submitted' = submitted \cup {q[Len(q)]}
    BY <1>1 DEF SubmitReturns
  <2>2. q # <<>>
    BY DEF QueueInv, QueueOK
  <2>3. EndWrite(s) /\ UNCHANGED <<chain, pc, npc, added>>
    BY <1>1 DEF SubmitReturns, vars, call, adding
  <2>. QED  BY <2>1, <2>2, <2>3, QueueEnd
<1>2. ASSUME NEW tx \in Submissions, submitTransaction(s, tx) PROVE QueueInv'
  <2>. DEFINE q == Append(pendingTransactions, tx)
  <2>1. /\ BeginWrite(s, q)
        /\ UNCHANGED <<pendingTransactions, submitted, chain, pc, npc, added>>
    BY <1>2 DEF submitTransaction, vars, call, adding
  <2>2. tx \in Transactions /\ pendingTransactions \in Seq(Transactions)
    BY NodeAssumption DEF QueueInv, QueueOK
  <2>3. /\ q \in Seq(Transactions)
        /\ \A i \in DOMAIN pendingTransactions :
             i \in DOMAIN q /\ q[i] = pendingTransactions[i]
        /\ q # <<>>
    BY <2>2, AppendProperties, LenProperties
  <2>4. ~queueRaced => \A t \in submitted : Holds(q, t) \/ InChain(t)
    BY <2>3, KeptSoFar DEF IsPending, Holds
  <2>. HIDE DEF q
  <2>. QED  BY <2>1, <2>3, <2>4, QueueBegin
<1>. QED  BY <1>1, <1>2 DEF SubmitterStep

LEMMA QueueInit == NodeInit => QueueInv
<1>. SUFFICES ASSUME NodeInit PROVE QueueInv
  OBVIOUS
<1>1. QueueOK
  BY EmptySeq DEF NodeInit, QueueOK
<1>2. CopiesKept
  BY DEF NodeInit, CopiesKept
<1>3. SubmittedIsKept
  BY DEF NodeInit, SubmittedIsKept
<1>4. \A c \in Callers : ~Pushed(c)
  BY DEF NodeInit, Pushed
<1>. QED  BY <1>1, <1>2, <1>3, <1>4 DEF QueueInv

LEMMA QueueNext == AddInv /\ QueueInv /\ [NodeNext]_allVars => QueueInv'
<1>. SUFFICES ASSUME AddInv, QueueInv, [NodeNext]_allVars PROVE QueueInv'
  OBVIOUS
<1>1. ASSUME NEW c \in Loops, LoopStep(c) PROVE QueueInv'
  BY <1>1, QueueLoop, NodeAssumption DEF AddInv
<1>2. ASSUME UNCHANGED <<vars, adding, queue>> PROVE QueueInv'
  BY <1>2, QueueStutter
  DEF vars, call, adding, queue, ChainKept, QueueInv, QueueOK, Stored, Pushed
<1>3. ASSUME NEW s \in Starters, StarterStep(s) PROVE QueueInv'
  BY <1>2, <1>3 DEF StarterStep, Start, SetRunning, Launch, Stop, Join
<1>4. ASSUME NEW s \in Submitters, SubmitterStep(s) PROVE QueueInv'
  BY <1>4, QueueSubmit
<1>5. CASE UNCHANGED allVars
  BY <1>2, <1>5 DEF allVars, nodeVars
<1>. QED  BY <1>1, <1>3, <1>4, <1>5 DEF NodeNext, SubmitterStep

-----------------------------------------------------------------------------
(* The balances *)

\* A set of naturals that is not empty has a least element.
LEMMA LeastNatural ==
    ASSUME NEW S \in SUBSET Nat, S # {}
    PROVE  \E n \in S : \A m \in S : n <= m
<1>1. IsWellFoundedOn(OpToRel(<, Nat), Nat)
  BY NatLessThanWellFounded
<1>2. PICK n \in S : \A m \in S : ~(<<m, n>> \in OpToRel(<, Nat))
  BY <1>1, WFMin
<1>3. ASSUME NEW m \in S PROVE n <= m
  <2>1. m \in Nat /\ n \in Nat
    OBVIOUS
  <2>2. <<m, n>> \in Nat \X Nat /\ ~(<<m, n>> \in OpToRel(<, Nat))
    BY <1>2, <2>1
  <2>3. ~(m < n)
    BY <2>2 DEF OpToRel
  <2>. QED  BY <2>1, <2>3
<1>. QED  BY <1>3

\* Two functions that begin alike and go on alike are the same.
LEMMA SameRecursion ==
    ASSUME NEW n \in Nat, NEW f, NEW g, f[0] = g[0],
           \A i \in 1..n : f[i - 1] = g[i - 1] => f[i] = g[i]
    PROVE  \A i \in 0..n : f[i] = g[i]
<1>. DEFINE Differ == {i \in 0..n : f[i] # g[i]}
<1>. SUFFICES ASSUME Differ # {} PROVE FALSE
  OBVIOUS
<1>1. Differ \in SUBSET Nat /\ \A i \in Differ : i \in 0..n /\ f[i] # g[i]
  OBVIOUS
<1>2. \A i \in 0..n : i \notin Differ => f[i] = g[i]
  OBVIOUS
<1>. HIDE DEF Differ
<1>3. PICK i \in Differ : \A m \in Differ : i <= m
  BY <1>1, LeastNatural
<1>4. i \in 1..n
  BY <1>1
<1>5. i - 1 \notin Differ
  BY <1>3, <1>4
<1>. QED  BY <1>1, <1>2, <1>4, <1>5

\* The first n transactions of txs lead from the given balances through those
\* of after.
Settling(after, balances, txs, n) ==
    /\ after = [i \in 0..n |-> after[i]]
    /\ after[0] = balances
    /\ \A i \in 1..n : after[i] = Transfer(after[i - 1], txs[i])

\* The first n blocks of the chain do.
SettlingChain(after, n) ==
    /\ after = [i \in 0..n |-> after[i]]
    /\ after[0] = Funds
    /\ \A i \in 1..n : after[i] = Settle(after[i - 1], chain[i].transactions)

LEMMA SettleIs ==
    ASSUME NEW txs, Len(txs) \in Nat, NEW balances, NEW after,
           Settling(after, balances, txs, Len(txs))
    PROVE  Settle(balances, txs) = after[Len(txs)]
<1>. DEFINE n == Len(txs)
            Step(g) == [i \in 0..n |-> IF i = 0 THEN balances ELSE Transfer(g[i - 1], txs[i])]
            f == CHOOSE g : g = Step(g)
<1>1. Settle(balances, txs) = f[n]
  BY DEF Settle
<1>2. after = Step(after)
  <2>1. ASSUME NEW i \in 0..n
        PROVE  after[i] = (IF i = 0 THEN balances ELSE Transfer(after[i - 1], txs[i]))
    BY DEF Settling
  <2>. QED  BY <2>1 DEF Settling
<1>3. f = Step(f)
  BY <1>2
<1>. HIDE DEF f
<1>4. f[0] = after[0]
  BY <1>3 DEF Settling
<1>5. ASSUME NEW i \in 1..n, f[i - 1] = after[i - 1] PROVE f[i] = after[i]
  <2>1. i \in 0..n /\ i # 0
    OBVIOUS
  <2>2. f[i] = Transfer(f[i - 1], txs[i])
    BY <1>3, <2>1
  <2>3. after[i] = Transfer(after[i - 1], txs[i])
    BY DEF Settling
  <2>. QED  BY <1>5, <2>2, <2>3
<1>6. \A i \in 0..n : f[i] = after[i]
  BY <1>4, <1>5, SameRecursion, ZenonT(30)
<1>. QED  BY <1>1, <1>6

LEMMA SettledChainIs ==
    ASSUME Len(chain) \in Nat, NEW after, SettlingChain(after, Len(chain))
    PROVE  SettledChain = after[Len(chain)]
<1>. DEFINE n == Len(chain)
            Step(g) == [i \in 0..n |-> IF i = 0 THEN Funds
                                       ELSE Settle(g[i - 1], chain[i].transactions)]
            f == CHOOSE g : g = Step(g)
<1>1. SettledChain = f[n]
  BY DEF SettledChain
<1>2. after = Step(after)
  <2>1. ASSUME NEW i \in 0..n
        PROVE  after[i] = (IF i = 0 THEN Funds
                           ELSE Settle(after[i - 1], chain[i].transactions))
    BY SMTT(30) DEF SettlingChain
  <2>. QED  BY <2>1 DEF SettlingChain
<1>3. f = Step(f)
  BY <1>2
<1>. HIDE DEF f
<1>4. f[0] = after[0]
  BY <1>3 DEF SettlingChain
<1>5. ASSUME NEW i \in 1..n, f[i - 1] = after[i - 1] PROVE f[i] = after[i]
  <2>1. i \in 0..n /\ i # 0
    OBVIOUS
  <2>2. f[i] = Settle(f[i - 1], chain[i].transactions)
    BY <1>3, <2>1
  <2>3. after[i] = Settle(after[i - 1], chain[i].transactions)
    BY DEF SettlingChain
  <2>. QED  BY <1>5, <2>2, <2>3
<1>6. \A i \in 0..n : f[i] = after[i]
  BY <1>4, <1>5, SameRecursion, ZenonT(30)
<1>. QED  BY <1>1, <1>6
LEMMA SettlingOn ==
    ASSUME NEW n \in Nat, NEW txs, NEW balances, NEW after,
           Settling(after, balances, txs, n)
    PROVE  \E more : /\ Settling(more, balances, txs, n + 1)
                     /\ more[n + 1] = Transfer(after[n], txs[n + 1])
<1>. DEFINE last == Transfer(after[n], txs[n + 1])
            more == [i \in 0..(n + 1) |-> IF i = n + 1 THEN last ELSE after[i]]
<1>1. /\ \A i \in 0..n : more[i] = after[i]
      /\ more[n + 1] = last
      /\ more = [i \in 0..(n + 1) |-> more[i]]
  OBVIOUS
<1>. HIDE DEF more, last
<1>2. ASSUME NEW i \in 1..(n + 1) PROVE more[i] = Transfer(more[i - 1], txs[i])
  <2>1. CASE i = n + 1
    <3>1. i - 1 = n /\ n \in 0..n
      BY <2>1
    <3>. QED  BY <1>1, <2>1, <3>1 DEF last
  <2>2. CASE i # n + 1
    <3>1. i \in 1..n /\ i \in 0..n /\ i - 1 \in 0..n
      BY <2>2
    <3>. QED  BY <1>1, <3>1 DEF Settling
  <2>. QED  BY <2>1, <2>2
<1>3. more[0] = balances
  <2>1. 0 \in 0..n
    OBVIOUS
  <2>. QED  BY <1>1, <2>1 DEF Settling
<1>. QED  BY <1>1, <1>2, <1>3 DEF Settling, last

LEMMA SettlingChainOn ==
    ASSUME NEW n \in Nat, NEW after, SettlingChain(after, n)
    PROVE  \E more : /\ SettlingChain(more, n + 1)
                     /\ more[n + 1] = Settle(after[n], chain[n + 1].transactions)
<1>. DEFINE last == Settle(after[n], chain[n + 1].transactions)
            more == [i \in 0..(n + 1) |-> IF i = n + 1 THEN last ELSE after[i]]
<1>1. /\ \A i \in 0..n : more[i] = after[i]
      /\ more[n + 1] = last
      /\ more = [i \in 0..(n + 1) |-> more[i]]
  OBVIOUS
<1>. HIDE DEF more, last
<1>2. ASSUME NEW i \in 1..(n + 1)
      PROVE  more[i] = Settle(more[i - 1], chain[i].transactions)
  <2>1. CASE i = n + 1
    <3>1. i - 1 = n /\ n \in 0..n
      BY <2>1
    <3>. QED  BY <1>1, <2>1, <3>1 DEF last
  <2>2. CASE i # n + 1
    <3>1. i \in 1..n /\ i \in 0..n /\ i - 1 \in 0..n
      BY <2>2
    <3>. QED  BY <1>1, <3>1 DEF SettlingChain
  <2>. QED  BY <2>1, <2>2
<1>3. more[0] = Funds
  BY <1>1 DEF SettlingChain
<1>. QED  BY <1>1, <1>2, <1>3 DEF SettlingChain, last

\* A chain that keeps its blocks keeps the balances after them.
LEMMA SettlingChainKept ==
    ASSUME NEW n \in Nat, n <= Len(chain), DOMAIN chain = 1..Len(chain), ChainKept,
           NEW after, SettlingChain(after, n)
    PROVE  SettlingChain(after, n)'
<1>1. \A i \in 1..n : chain'[i] = chain[i]
  BY DEF ChainKept
<1>. QED  BY <1>1 DEF SettlingChain

Debited(balances, tx) == [balances EXCEPT ![tx.sender] = @ - tx.amount]

\* Where a payment is, if the balances were as in before when it began.
Midway(c, before) ==
    \/ phase[c] = "readSender" /\ accountBalances = before
    \/ /\ phase[c] = "writeSender"
       /\ accountBalances = before
       /\ seen[c] = before[Current(c).sender]
    \/ /\ phase[c] = "readRecipient"
       /\ accountBalances = Debited(before, Current(c))
    \/ /\ phase[c] = "writeRecipient"
       /\ accountBalances = Debited(before, Current(c))
       /\ seen[c] = accountBalances[Current(c).recipient]

\* The balances follow the chain up to its last block, and that block as far as
\* it was processed.
Processed(c) ==
    /\ block[c] = chain[Len(chain)]
    /\ \E ledger, after :
         /\ SettlingChain(ledger, Len(chain) - 1)
         /\ Settling(after, ledger[Len(chain) - 1], block[c].transactions, done[c])
         /\ Midway(c, after[done[c]])

Balanced ==
    \E ledger : SettlingChain(ledger, Len(chain)) /\ accountBalances = ledger[Len(chain)]

\* As long as no two calls overlapped, at most one of them is processing a
\* block, the last one of the chain.
BalanceInv ==
    \/ overlapped
    \/ /\ \A c, d \in Callers : pc[c] = "process" /\ pc[d] = "process" => c = d
       /\ \A c \in Callers : pc[c] = "process" => Processed(c)
       /\ (\A c \in Callers : pc[c] # "process") => Balanced

LEMMA BalanceFollows ==
    ASSUME TypeOK, BalanceInv PROVE BalancesFollowChain
<1>1. Len(chain) \in Nat
  BY LenProperties DEF TypeOK, ChainOK
<1>2. Balanced => accountBalances = SettledChain
  BY <1>1, SettledChainIs DEF Balanced
<1>. QED  BY <1>2 DEF BalanceInv, BalancesFollowChain

LEMMA BalanceInit == NodeInit => BalanceInv
<1>. SUFFICES ASSUME NodeInit PROVE Balanced
  BY DEF NodeInit, BalanceInv
<1>1. chain = <<Genesis>> /\ Len(chain) = 1 /\ accountBalances = Funds
  BY DEF NodeInit
<1>2. chain[1].transactions = <<>> /\ Len(<<>>) = 0
  BY <1>1 DEF Genesis, Block
<1>. DEFINE none == [i \in 0..0 |-> Funds]
            ledger == [i \in 0..1 |-> Funds]
<1>3. Settle(Funds, <<>>) = Funds
  <2>1. Settling(none, Funds, <<>>, 0) /\ none[0] = Funds
    BY DEF Settling
  <2>. HIDE DEF none
  <2>. QED  BY <1>2, <2>1, SettleIs
<1>4. SettlingChain(ledger, 1) /\ ledger[1] = Funds
  BY <1>2, <1>3 DEF SettlingChain
<1>. HIDE DEF ledger
<1>. QED  BY <1>1, <1>4 DEF Balanced

\* What a step may change without disturbing who processes what.
LEMMA BalanceStutter ==
    ASSUME BalanceInv, UNCHANGED <<chain, accountBalances, overlapped>>,
           \A c \in Callers :
             /\ pc'[c] = "process" <=> pc[c] = "process"
             /\ pc[c] = "process" =>
                  /\ block'[c] = block[c]
                  /\ done'[c] = done[c]
                  /\ phase'[c] = phase[c]
                  /\ seen'[c] = seen[c]
    PROVE  BalanceInv'
<1>1. ASSUME NEW c \in Callers, pc[c] = "process", Processed(c) PROVE Processed(c)'
  <2>1. /\ block'[c] = block[c] /\ done'[c] = done[c]
        /\ phase'[c] = phase[c] /\ seen'[c] = seen[c]
    BY <1>1
  <2>2. \A b : Midway(c, b) => Midway(c, b)'
    BY <2>1 DEF Midway, Current
  <2>. QED  BY <1>1, <2>1, <2>2 DEF Processed, SettlingChain
<1>2. Balanced => Balanced'
  BY DEF Balanced, SettlingChain
<1>. QED  BY <1>1, <1>2 DEF BalanceInv

\* A step of the one call that processes a block.
LEMMA BalanceProcess ==
    ASSUME BalanceInv, UNCHANGED <<chain, pc, block, overlapped>>,
           NEW c \in Callers, pc[c] = "process", Processed(c) => Processed(c)'
    PROVE  BalanceInv'
<1>1. CASE overlapped
  BY <1>1 DEF BalanceInv
<1>2. CASE ~overlapped
  <2>1. \A d \in Callers : pc[d] = "process" => d = c
    BY <1>2 DEF BalanceInv
  <2>2. Processed(c)'
    BY <1>2 DEF BalanceInv
  <2>. QED  BY <1>2, <2>1, <2>2 DEF BalanceInv
<1>. QED  BY <1>1, <1>2

\* The transaction that is processed moves the balances as Transfer does.
LEMMA BalanceNext ==
    ASSUME TypeOK, NEW c \in Callers, Processes(c), Processed(c),
           UNCHANGED <<chain, pc, block>>,
           \A before : Midway(c, before) =>
               accountBalances' = Transfer(before, Current(c)),
           done' = [done EXCEPT ![c] = @ + 1], phase'[c] = "readSender"
    PROVE  Processed(c)'
<1>1. PICK ledger, after :
        /\ SettlingChain(ledger, Len(chain) - 1)
        /\ Settling(after, ledger[Len(chain) - 1], block[c].transactions, done[c])
        /\ Midway(c, after[done[c]])
  BY DEF Processed
<1>2. done[c] \in Nat /\ done'[c] = done[c] + 1
  BY DEF TypeOK, CallsOK
<1>3. PICK more :
        /\ Settling(more, ledger[Len(chain) - 1], block[c].transactions, done[c] + 1)
        /\ more[done[c] + 1] = Transfer(after[done[c]], Current(c))
  BY <1>1, <1>2, SettlingOn DEF Current
<1>4. Midway(c, more[done[c]])'
  BY <1>1, <1>2, <1>3 DEF Midway
<1>5. SettlingChain(ledger, Len(chain) - 1)'
  BY <1>1 DEF SettlingChain
<1>6. Settling(more, ledger[Len(chain') - 1], block'[c].transactions, done'[c])
  BY <1>2, <1>3
<1>7. block'[c] = chain'[Len(chain')]
  BY DEF Processed
<1>. QED  BY <1>4, <1>5, <1>6, <1>7 DEF Processed, Settling

LEMMA BalanceLoop ==
    ASSUME TypeOK, AddingOK, BalanceInv, NEW c \in Callers, LoopStep(c)
    PROVE  BalanceInv'
<1>0. Len(chain) \in Nat \ {0} /\ DOMAIN chain = 1..Len(chain)
  BY EmptySeq, LenProperties DEF TypeOK, ChainOK
<1>1. CASE ValidateAndAdd(c)
  <2>1. pc[c] = "idle" /\ UNCHANGED <<chain, accountBalances, processing, done>>
    BY <1>1 DEF ValidateAndAdd, MayAdd, AddingOK
  <2>2. \A d \in Callers : d # c => pc'[d] = pc[d] /\ block'[d] = block[d]
    BY <1>1 DEF ValidateAndAdd, TypeOK, CallsOK
  <2>3. pc'[c] = "validate"
    BY <1>1 DEF ValidateAndAdd, TypeOK, CallsOK
  <2>. QED  BY <2>1, <2>2, <2>3, BalanceStutter DEF processing
<1>2. CASE Check(c)
  <2>1. /\ UNCHANGED <<chain, accountBalances, processing>>
        /\ pc[c] \in {"validate", "consensus"}
        /\ pc'[c] \in {"consensus", "push", "idle"}
        /\ \A d \in Callers : d # c => pc'[d] = pc[d] /\ block'[d] = block[d]
                                       /\ done'[d] = done[d]
    BY <1>2 DEF Check, ValidateBlock, ReachConsensus, Return, TypeOK, CallsOK
  <2>. QED  BY <2>1, BalanceStutter DEF processing
<1>3. CASE PushBlock(c)
  <2>1. CASE overlapped'
    BY <2>1 DEF BalanceInv
  <2>2. CASE ~overlapped'
    <3>1. /\ ~overlapped /\ pc[c] = "push"
          /\ \A d \in Callers : d # c => pc[d] # "process" /\ pc'[d] = pc[d]
          /\ UNCHANGED <<accountBalances, block, done, phase>>
      BY <1>3, <2>2 DEF PushBlock, Push, Unstored, TypeOK, CallsOK
    <3>2. Balanced
      BY <3>1 DEF BalanceInv
    <3>3. PICK ledger : /\ SettlingChain(ledger, Len(chain))
                        /\ accountBalances = ledger[Len(chain)]
      BY <3>2 DEF Balanced
    <3>4. /\ Len(chain') = Len(chain) + 1
          /\ \A i \in 1..Len(chain) : chain'[i] = chain[i]
          /\ chain'[Len(chain) + 1] = block[c]
      BY <1>3, PushGrows DEF PushBlock
    <3>5. SettlingChain(ledger, Len(chain) - 1)'
      <4>1. Len(chain') - 1 = Len(chain)
        BY <1>0, <3>4
      <4>. QED  BY <3>3, <3>4, <4>1 DEF SettlingChain
    <3>6. done'[c] = 0 /\ phase'[c] = "readSender"
      BY <3>1 DEF TypeOK, CallsOK, AddingOK, Processes
    <3>7. Processed(c)'
      <4>1. PICK after :
              /\ Settling(after, ledger[Len(chain') - 1], block'[c].transactions, done'[c])
              /\ after[0] = accountBalances
        <5>. DEFINE none == [i \in 0..0 |-> accountBalances]
        <5>1. /\ Settling(none, ledger[Len(chain') - 1], block'[c].transactions, done'[c])
              /\ none[0] = accountBalances
          BY <1>0, <3>3, <3>4, <3>6 DEF Settling
        <5>. QED  BY <5>1
      <4>2. Midway(c, after[done[c]])'
        BY <3>1, <3>6, <4>1 DEF Midway
      <4>3. block'[c] = chain'[Len(chain')]
        BY <3>1, <3>4
      <4>. QED  BY <3>5, <4>1, <4>2, <4>3 DEF Processed, Settling
    <3>8. pc'[c] = "process"
      BY <1>3 DEF PushBlock, Push, TypeOK, CallsOK
    <3>. QED  BY <3>1, <3>7, <3>8 DEF BalanceInv
  <2>. QED  BY <2>1, <2>2
<1>4. CASE SkipTransaction(c)
  <2>1. /\ Processes(c) /\ pc[c] = "process" /\ Current(c).type # "FINANCIAL"
        /\ UNCHANGED <<chain, accountBalances, pc, block, overlapped, phase>>
        /\ done' = [done EXCEPT ![c] = @ + 1]
    BY <1>4 DEF SkipTransaction, Processes, nodeVars, processing
  <2>2. phase[c] = "readSender"
    BY <2>1 DEF AddingOK
  <2>3. \A before : Midway(c, before) => accountBalances' = Transfer(before, Current(c))
    BY <2>1, <2>2 DEF Midway, Transfer
  <2>4. Processed(c) => Processed(c)'
    BY <2>1, <2>2, <2>3, BalanceNext
  <2>. QED  BY <2>1, <2>4, BalanceProcess
<1>5. CASE ReadBalance(c)
  <2>1. /\ pc[c] = "process" /\ UNCHANGED <<chain, accountBalances, pc, block, done, overlapped>>
        /\ Current(c) \in Transaction
    BY <1>5, CurrentType DEF ReadBalance, Processes, vars, call
  <2>2. \A before : Midway(c, before) => Midway(c, before)'
    <3>1. Current(c)' = Current(c)
      BY <2>1 DEF Current
    <3>2. \/ /\ phase[c] = "readSender" /\ phase'[c] = "writeSender"
             /\ seen'[c] = accountBalances[Current(c).sender]
          \/ /\ phase[c] = "readRecipient" /\ phase'[c] = "writeRecipient"
             /\ seen'[c] = accountBalances[Current(c).recipient]
      BY <1>5 DEF ReadBalance, AddingOK
    <3>. QED  BY <2>1, <3>1, <3>2 DEF Midway
  <2>3. Processed(c) => Processed(c)'
    BY <2>1, <2>2 DEF Processed, SettlingChain, Settling
  <2>. QED  BY <2>1, <2>3, BalanceProcess
<1>6. CASE DebitSender(c)
  <2>1. /\ pc[c] = "process" /\ UNCHANGED <<chain, pc, block, done, overlapped, seen>>
        /\ phase[c] = "writeSender" /\ phase'[c] = "readRecipient"
        /\ accountBalances' =
             [accountBalances EXCEPT ![Current(c).sender] = seen[c] - Current(c).amount]
        /\ Current(c) \in Transaction
    BY <1>6, CurrentType DEF DebitSender, Processes, call, AddingOK
  <2>2. \A before : Midway(c, before) => Midway(c, before)'
    <3>1. Current(c)' = Current(c)
      BY <2>1 DEF Current
    <3>. QED  BY <2>1, <3>1 DEF Midway, Debited, TypeOK, Transaction
  <2>3. Processed(c) => Processed(c)'
    BY <2>1, <2>2 DEF Processed, SettlingChain, Settling
  <2>. QED  BY <2>1, <2>3, BalanceProcess
<1>7. CASE CreditRecipient(c)
  <2>1. /\ Processes(c) /\ pc[c] = "process" /\ UNCHANGED <<chain, pc, block, overlapped>>
        /\ phase[c] = "writeRecipient" /\ phase'[c] = "readSender"
        /\ accountBalances' =
             [accountBalances EXCEPT ![Current(c).recipient] = seen[c] + Current(c).amount]
        /\ done' = [done EXCEPT ![c] = @ + 1]
        /\ Current(c) \in Transaction
    BY <1>7, CurrentType DEF CreditRecipient, Processes, AddingOK
  <2>2. Current(c).type = "FINANCIAL"
    BY <2>1 DEF AddingOK
  <2>3. \A before : Midway(c, before) => accountBalances' = Transfer(before, Current(c))
    BY <2>1, <2>2 DEF Midway, Debited, Transfer, TypeOK, Transaction
  <2>4. Processed(c) => Processed(c)'
    BY <2>1, <2>3, BalanceNext
  <2>. QED  BY <2>1, <2>4, BalanceProcess
<1>8. CASE AddBlockReturns(c)
  <2>1. /\ pc[c] = "process" /\ done[c] = Len(block[c].transactions)
        /\ UNCHANGED <<chain, accountBalances, processing>>
        /\ \A d \in Callers : d # c => pc'[d] = pc[d] /\ block'[d] = block[d]
                                       /\ done'[d] = done[d]
        /\ pc'[c] = "idle"
    BY <1>8 DEF AddBlockReturns, Finish, Return, TypeOK, CallsOK
  <2>2. CASE overlapped
    BY <2>1, <2>2 DEF BalanceInv, processing
  <2>3. CASE ~overlapped
    <3>1. \A d \in Callers : pc'[d] # "process"
      BY <2>1, <2>3 DEF BalanceInv
    <3>2. Processed(c)
      BY <2>1, <2>3 DEF BalanceInv
    <3>3. PICK ledger, after :
            /\ SettlingChain(ledger, Len(chain) - 1)
            /\ Settling(after, ledger[Len(chain) - 1], block[c].transactions, done[c])
            /\ Midway(c, after[done[c]])
      BY <3>2 DEF Processed
    <3>4. done[c] \in Nat
      BY DEF TypeOK, CallsOK
    <3>5. phase[c] = "readSender"
      BY <2>1, <3>4 DEF AddingOK, Processes
    <3>6. accountBalances = Settle(ledger[Len(chain) - 1], block[c].transactions)
      BY <2>1, <3>3, <3>4, <3>5, SettleIs DEF Midway
    <3>. DEFINE n == Len(chain) - 1
    <3>7. n \in Nat /\ n + 1 = Len(chain)
      BY <1>0
    <3>8. PICK more : /\ SettlingChain(more, Len(chain))
                      /\ more[Len(chain)] = Settle(ledger[n], chain[Len(chain)].transactions)
      BY <3>3, <3>7, SettlingChainOn
    <3>9. Balanced
      BY <3>2, <3>6, <3>8 DEF Balanced, Processed
    <3>10. Balanced'
      BY <2>1, <3>9 DEF Balanced, SettlingChain
    <3>. QED  BY <3>1, <3>10 DEF BalanceInv
  <2>. QED  BY <2>2, <2>3
<1>9. CASE \/ ReadHeight(c) \/ StoreHeight(c) \/ RemovePending(c) \/ RemovalReturns(c)
           \/ RefuseBlock(c) \/ BroadcastBlock(c) \/ EndLoop(c)
  BY <1>9, BalanceStutter
  DEF ReadHeight, StoreHeight, RemovePending, RemovalReturns, RefuseBlock, BroadcastBlock,
      EndLoop, vars, call, processing
<1>. QED
  BY <1>1, <1>2, <1>3, <1>4, <1>5, <1>6, <1>7, <1>8, <1>9 DEF LoopStep

LEMMA BalanceNode == AddInv /\ BalanceInv /\ [NodeNext]_allVars => BalanceInv'
<1>. SUFFICES ASSUME AddInv, BalanceInv, [NodeNext]_allVars PROVE BalanceInv'
  OBVIOUS
<1>1. ASSUME NEW c \in Loops, LoopStep(c) PROVE BalanceInv'
  BY <1>1, BalanceLoop, NodeAssumption DEF AddInv
<1>2. ASSUME UNCHANGED <<vars, processing>> PROVE BalanceInv'
  BY <1>2, BalanceStutter DEF vars, call, processing
<1>3. ASSUME NEW s \in Starters, StarterStep(s) PROVE BalanceInv'
  BY <1>2, <1>3 DEF StarterStep, Start, SetRunning, Launch, Stop, Join
<1>4. ASSUME NEW s \in Submitters, SubmitterStep(s) PROVE BalanceInv'
  BY <1>2, <1>4 DEF SubmitterStep, submitTransaction, SubmitReturns
<1>5. CASE UNCHANGED allVars
  BY <1>2, <1>5 DEF allVars, nodeVars
<1>. QED  BY <1>1, <1>3, <1>4, <1>5 DEF NodeNext, SubmitterStep

-----------------------------------------------------------------------------
(* The theorems on what the two loops share *)

\* The object that two unlocked threads share keeps the types of Blockchain and
\* its own, and a loop is in the middle of a payment only inside its own addBlock.
THEOREM NodeTypeCorrect == NodeSpec => []NodeTypeOK
<1>1. AddInv /\ LifeInv /\ QueueInv => NodeTypeOK
  BY DEF AddInv, HeightInv, LifeInv, QueueInv, NodeTypeOK
<1>. QED
  BY <1>1, AddInit, AddNext, LifeInit, LifeNext, QueueInit, QueueNext, PTL DEF NodeSpec

\* Until two operations on the queue meet, a transaction leaves it only when a
\* block of the chain has its hash, be it the transaction itself or another that
\* got the same hash.
THEOREM PendingIsKept == NodeSpec => []SubmittedIsKept
<1>1. QueueInv => SubmittedIsKept
  BY DEF QueueInv
<1>. QED  BY <1>1, AddInit, AddNext, QueueInit, QueueNext, PTL DEF NodeSpec

\* The height that is reported never exceeds the length of the chain, and lags
\* behind it after two overlapping calls only.
THEOREM HeightTracksChain == NodeSpec => []HeightFollowsChain
<1>1. AddInv => HeightFollowsChain
  BY DEF AddInv, HeightInv
<1>. QED  BY <1>1, AddInit, AddNext, PTL DEF NodeSpec

\* As long as no two calls overlapped, the balances between two blocks are what
\* the payments of the whole chain make of the funds: every payment of a chain of
\* any length was made once, in the order of the chain.
THEOREM BalancesSettle == NodeSpec => []BalancesFollowChain
<1>1. AddInv /\ BalanceInv => BalancesFollowChain
  BY BalanceFollows DEF AddInv
<1>. QED  BY <1>1, AddInit, AddNext, BalanceInit, BalanceNode, PTL DEF NodeSpec
=============================================================================
