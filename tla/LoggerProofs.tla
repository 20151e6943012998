---------------------------- MODULE LoggerProofs ----------------------------
(***************************************************************************)
(* Theorems about Logger, for any users, any levels, messages of any       *)
(* number, and any number of starts, stops and spurious wake-ups.          *)
(***************************************************************************)
EXTENDS Logger, SequenceTheorems, TLAPS

\* What the creation of the object rests on: before it there is no thread, and
\* while the pointer is not set and the lock is free there is no object.
Creation ==
    /\ constructed = 0 => thread = "none"
    /\ ~instance /\ instanceMutex = nobody => constructed = 0

\* Whoever is in a call has a message.
Told == \A u \in Users : pc[u] # "idle" => message[u] \in Message

IInv == TypeOK /\ OneInstance /\ Creation /\ Told

LEMMA NobodyIsNoUser == nobody \notin Users /\ worker # nobody
BY ThreadsAssumption DEF nobody, worker

LEMMA InvInit == Init => IInv
<1>. SUFFICES ASSUME Init PROVE IInv
  OBVIOUS
<1>1. <<>> \in Seq(Message) /\ Len(<<>>) = 0
  OBVIOUS
<1>2. /\ 0 \in Nat /\ 0 \in 0..MaxMessages /\ 0 \in 0..MaxSpurious
      /\ message \in [Users -> Message \cup {NoMessage}]
      /\ pc \in [Users -> {"idle"}]
  BY BoundsAssumption DEF Init
<1>3. \A u \in Users : pc[u] = "idle"
  BY <1>2
<1>4. /\ queueMutex \in {worker, nobody}
      /\ queueMutex = worker <=> thread \in {"predicate", "block", "drain", "write"}
  BY NobodyIsNoUser DEF Init
<1>5. /\ hand \in Seq(Message)
      /\ Len(hand) = IF thread = "write" THEN 1 ELSE 0
  BY <1>1 DEF Init
<1>6. TypeOK
  BY <1>1, <1>2, <1>3, <1>4, <1>5 DEF Init, TypeOK
<1>. QED  BY <1>3, <1>6 DEF Init, IInv, OneInstance, Creation, Told

-----------------------------------------------------------------------------
(* getInstance and log *)

LEMMA CallKeeps ==
    ASSUME IInv, NEW u \in Users, NEW level \in Levels, Call(u, level)
    PROVE  IInv'
<1>. DEFINE m == [number |-> logged + 1, level |-> level]
<1>1. m \in Message
  BY BoundsAssumption DEF IInv, TypeOK, Call, Message
<1>2. message' = [message EXCEPT ![u] = m]
  BY DEF Call
<1>3. pc' \in {[pc EXCEPT ![u] = "log"], [pc EXCEPT ![u] = "lock"]}
  BY DEF Call, Goto
<1>. HIDE DEF m
<1>4. /\ logged' \in 0..MaxMessages
      /\ message' \in [Users -> Message \cup {NoMessage}]
      /\ UNCHANGED <<creation, queue, writer, switch, minLevel, crashed>>
  BY <1>1, <1>2, BoundsAssumption DEF IInv, TypeOK, Call
<1>5. /\ pc' \in [Users -> {"idle", "lock", "construct", "publish", "log", "push", "notify"}]
      /\ \A v \in Users : pc'[v] \in {"construct", "publish"} => pc'[v] = pc[v]
  BY <1>3 DEF IInv, TypeOK
<1>6. TypeOK'
  BY <1>4, <1>5 DEF IInv, TypeOK, creation, queue, writer, switch
<1>7. OneInstance' /\ Creation'
  BY <1>3 DEF IInv, TypeOK, OneInstance, Creation, Call, creation, writer
<1>8. Told'
  BY <1>1, <1>2, <1>3 DEF IInv, TypeOK, Told
<1>. QED  BY <1>6, <1>7, <1>8 DEF IInv

LEMMA SecondCheckKeeps ==
    ASSUME IInv, NEW u \in Users, SecondCheck(u)
    PROVE  IInv'
<1>1. CASE instance
  <2>1. pc' = [pc EXCEPT ![u] = "log"] /\ UNCHANGED instanceMutex
    BY <1>1 DEF SecondCheck, Goto
  <2>. QED  BY <2>1 DEF SecondCheck, IInv, TypeOK, OneInstance, Creation, Told,
                        queue, writer, switch
<1>2. CASE ~instance
  <2>1. /\ pc' = [pc EXCEPT ![u] = "construct"]
        /\ instanceMutex = nobody /\ instanceMutex' = u /\ pc[u] = "lock"
        /\ constructed = 0
        /\ UNCHANGED <<instance, constructed, queue, message, logged, writer, switch,
                       minLevel, crashed>>
    BY <1>2 DEF SecondCheck, Goto, IInv, Creation
  <2>2. \A v \in Users : pc[v] \notin {"construct", "publish"}
    BY <2>1, NobodyIsNoUser DEF IInv, TypeOK
  <2>3. TypeOK'
    BY <2>1, <2>2 DEF IInv, TypeOK, queue, writer, switch
  <2>4. OneInstance' /\ Creation' /\ Told'
    BY <2>1, <2>2, NobodyIsNoUser
       DEF IInv, TypeOK, OneInstance, Creation, Told, writer
  <2>. QED  BY <2>3, <2>4 DEF IInv
<1>. QED  BY <1>1, <1>2 DEF IInv, TypeOK

LEMMA ConstructKeeps ==
    ASSUME IInv, NEW u \in Users, Construct(u)
    PROVE  IInv'
<1>1. constructed = 0 /\ constructed' = 1 /\ thread = "none" /\ instanceMutex = u
  BY DEF Construct, IInv, OneInstance, Creation, TypeOK
<1>2. pc' = [pc EXCEPT ![u] = "publish"] /\ pc[u] = "construct"
  BY DEF Construct, Goto
<1>3. TypeOK'
  BY <1>1, <1>2 DEF Construct, IInv, TypeOK, queue
<1>4. \A v \in Users : pc'[v] # "construct"
  BY <1>1, <1>2 DEF IInv, TypeOK
<1>5. OneInstance' /\ Creation'
  BY <1>1, <1>4, NobodyIsNoUser DEF Construct, OneInstance, Creation
<1>6. Told'
  BY <1>2 DEF Construct, IInv, TypeOK, Told
<1>. QED  BY <1>3, <1>5, <1>6 DEF IInv

LEMMA SeenEarlyKeeps ==
    ASSUME IInv, NEW u \in Users, SeenEarly(u)
    PROVE  IInv'
BY DEF SeenEarly, IInv, TypeOK, OneInstance, Creation, Told, queue, user, writer, switch

LEMMA PublishKeeps ==
    ASSUME IInv, NEW u \in Users, Publish(u)
    PROVE  IInv'
<1>1. pc' = [pc EXCEPT ![u] = "log"] /\ pc[u] = "publish" /\ instanceMutex = u
  BY DEF Publish, Goto, IInv, TypeOK
<1>2. \A v \in Users : pc'[v] \notin {"construct", "publish"}
  BY <1>1 DEF IInv, TypeOK
<1>3. TypeOK'
  BY <1>1, <1>2 DEF Publish, IInv, TypeOK, queue, writer, switch
<1>. QED
  BY <1>1, <1>2, <1>3 DEF Publish, IInv, TypeOK, OneInstance, Creation, Told, writer

LEMMA CheckLevelKeeps ==
    ASSUME IInv, NEW u \in Users, CheckLevel(u)
    PROVE  IInv'
<1>1. /\ pc' \in {[pc EXCEPT ![u] = "idle"], [pc EXCEPT ![u] = "push"]}
      /\ pc[u] = "log" /\ crashed' \in BOOLEAN
      /\ UNCHANGED <<creation, queue, message, logged, writer, switch, minLevel>>
  BY DEF CheckLevel, Goto
<1>2. TypeOK'
  BY <1>1 DEF IInv, TypeOK, creation, queue, writer, switch
<1>3. OneInstance' /\ Creation' /\ Told'
  BY <1>1 DEF IInv, TypeOK, OneInstance, Creation, Told, creation, writer
<1>. QED  BY <1>2, <1>3 DEF IInv

LEMMA PushMessageKeeps ==
    ASSUME IInv, NEW u \in Users, PushMessage(u)
    PROVE  IInv'
<1>1. /\ pc' = [pc EXCEPT ![u] = "notify"] /\ pc[u] = "push"
      /\ messageQueue' = Append(messageQueue, message[u])
      /\ pushed' = Append(pushed, message[u])
      /\ UNCHANGED <<creation, queueMutex, message, logged, writer, switch, minLevel,
                     crashed>>
  BY DEF PushMessage, Goto
<1>2. message[u] \in Message
  BY <1>1 DEF IInv, Told
<1>3. messageQueue' \in Seq(Message) /\ pushed' \in Seq(Message)
  BY <1>1, <1>2, AppendProperties DEF IInv, TypeOK
<1>4. TypeOK'
  BY <1>1, <1>3 DEF IInv, TypeOK, creation, writer, switch
<1>5. OneInstance' /\ Creation' /\ Told'
  BY <1>1 DEF IInv, TypeOK, OneInstance, Creation, Told, creation, writer
<1>. QED  BY <1>4, <1>5 DEF IInv

LEMMA NotifyKeeps ==
    ASSUME IInv, NEW u \in Users, Notify(u)
    PROVE  IInv'
<1>1. /\ pc' = [pc EXCEPT ![u] = "idle"] /\ pc[u] = "notify"
      /\ thread' = IF thread = "waiting" THEN "woken" ELSE thread
      /\ UNCHANGED <<creation, queue, message, logged, hand, file, spurious, switch,
                     minLevel, crashed>>
  BY DEF Notify, Wake, Goto
<1>2. TypeOK'
  BY <1>1 DEF IInv, TypeOK, creation, queue, switch
<1>3. OneInstance' /\ Creation' /\ Told'
  BY <1>1 DEF IInv, TypeOK, OneInstance, Creation, Told, creation
<1>. QED  BY <1>2, <1>3 DEF IInv

LEMMA UserKeeps ==
    ASSUME IInv, NEW u \in Users, UserStep(u)
    PROVE  IInv'
BY SecondCheckKeeps, ConstructKeeps, PublishKeeps, CheckLevelKeeps, PushMessageKeeps,
   NotifyKeeps DEF UserStep

-----------------------------------------------------------------------------
(* processLogQueue, stopAsyncLogging and startAsyncLogging *)

\* A step of the writer or of whoever stops and starts it leaves the object's
\* creation and the calls alone; the writer exists.
LEMMA ElsewhereKeeps ==
    ASSUME IInv, TypeOK', UNCHANGED <<creation, user>>,
           thread' = "none" \/ constructed # 0 \/ thread' = thread
    PROVE  IInv'
BY DEF IInv, OneInstance, Creation, Told, creation, user

LEMMA WorkerKeeps ==
    ASSUME IInv, Worker
    PROVE  IInv'
<1>. USE DEF IInv
<1>0. TypeOK /\ constructed # 0 /\ UNCHANGED <<creation, user>>
  BY DEF Worker, Loop, LockQueue, Predicate, Block, Pop, Write, Unlock, Creation
<1>1. CASE Loop
  <2>1. TypeOK'
    BY <1>0, <1>1 DEF Loop, TypeOK, creation, queue, user, switch
  <2>. QED  BY <1>0, <2>1, ElsewhereKeeps
<1>2. CASE LockQueue
  <2>1. TypeOK'
    BY <1>0, <1>2 DEF LockQueue, TypeOK, creation, user, switch, worker, nobody
  <2>. QED  BY <1>0, <2>1, ElsewhereKeeps
<1>3. CASE Predicate
  <2>1. TypeOK'
    BY <1>0, <1>3 DEF Predicate, TypeOK, creation, queue, user, switch
  <2>. QED  BY <1>0, <2>1, ElsewhereKeeps
<1>4. CASE Block
  <2>1. TypeOK'
    BY <1>0, <1>4 DEF Block, TypeOK, creation, user, switch, worker, nobody
  <2>. QED  BY <1>0, <2>1, ElsewhereKeeps
<1>5. CASE Pop
  <2>1. /\ Head(messageQueue) \in Message /\ Tail(messageQueue) \in Seq(Message)
    BY <1>0, <1>5, HeadTailProperties DEF Pop, TypeOK
  <2>2. hand' \in Seq(Message) /\ Len(hand') = 1
    BY <1>5, <2>1 DEF Pop
  <2>3. TypeOK'
    BY <1>0, <1>5, <2>1, <2>2 DEF Pop, TypeOK, creation, user, switch
  <2>. QED  BY <1>0, <2>3, ElsewhereKeeps
<1>6. CASE Write
  <2>1. file' \in Seq(Message)
    BY <1>0, <1>6, ConcatProperties DEF Write, TypeOK
  <2>2. hand' \in Seq(Message) /\ Len(hand') = 0
    BY <1>6 DEF Write
  <2>3. TypeOK'
    BY <1>0, <1>6, <2>1, <2>2 DEF Write, TypeOK, creation, queue, user, switch
  <2>. QED  BY <1>0, <2>3, ElsewhereKeeps
<1>7. CASE Unlock
  <2>1. TypeOK'
    BY <1>0, <1>7 DEF Unlock, TypeOK, creation, user, switch, worker, nobody
  <2>. QED  BY <1>0, <2>1, ElsewhereKeeps
<1>. QED  BY <1>1, <1>2, <1>3, <1>4, <1>5, <1>6, <1>7 DEF Worker

LEMMA SpuriousKeeps ==
    ASSUME IInv, SpuriousWakeUp
    PROVE  IInv'
<1>1. constructed # 0 /\ UNCHANGED <<creation, user>>
  BY DEF IInv, SpuriousWakeUp, Creation
<1>2. TypeOK'
  BY BoundsAssumption DEF IInv, SpuriousWakeUp, TypeOK, creation, queue, user, switch
<1>. QED  BY <1>1, <1>2, ElsewhereKeeps

LEMMA SwitchKeeps ==
    ASSUME IInv, StopCalled \/ Stopper \/ StartAgain
    PROVE  IInv'
<1>1. CASE StopCalled
  <2>1. TypeOK'
    BY <1>1 DEF IInv, StopCalled, TypeOK, creation, queue, user, writer
  <2>. QED  BY <1>1, <2>1, ElsewhereKeeps DEF StopCalled, writer
<1>2. CASE StopClear
  <2>1. TypeOK'
    BY <1>2 DEF IInv, StopClear, TypeOK, creation, queue, user, writer
  <2>. QED  BY <1>2, <2>1, ElsewhereKeeps DEF StopClear, writer
<1>3. CASE StopNotify
  <2>1. TypeOK'
    BY <1>3 DEF IInv, StopNotify, Wake, TypeOK, creation, queue, user
  <2>2. thread' = thread \/ constructed # 0
    BY <1>3 DEF IInv, StopNotify, Wake, Creation
  <2>. QED  BY <1>3, <2>1, <2>2, ElsewhereKeeps DEF StopNotify
<1>4. CASE StopJoined
  <2>1. TypeOK'
    BY <1>4 DEF IInv, StopJoined, TypeOK, creation, queue, user
  <2>. QED  BY <1>4, <2>1, ElsewhereKeeps DEF StopJoined
<1>5. CASE StartAgain
  <2>1. TypeOK'
    BY <1>5 DEF IInv, StartAgain, TypeOK, creation, queue, user
  <2>2. constructed # 0
    BY <1>5 DEF IInv, StartAgain, TypeOK
  <2>. QED  BY <1>5, <2>1, <2>2, ElsewhereKeeps DEF StartAgain
<1>. QED  BY <1>1, <1>2, <1>3, <1>4, <1>5 DEF Stopper

LEMMA SetMinLevelKeeps ==
    ASSUME IInv, NEW level \in Levels, SetMinLevel(level)
    PROVE  IInv'
<1>1. TypeOK'
  BY DEF IInv, SetMinLevel, TypeOK, creation, queue, user, writer, switch
<1>. QED  BY <1>1, ElsewhereKeeps DEF SetMinLevel, writer

LEMMA InvNext == IInv /\ [Next]_vars => IInv'
<1>. SUFFICES ASSUME IInv, [Next]_vars PROVE IInv'
  OBVIOUS
<1>1. CASE UNCHANGED vars
  BY <1>1 DEF vars, IInv, TypeOK, OneInstance, Creation, Told, creation, queue, user,
              writer, switch
<1>2. CASE Next
  BY <1>2, CallKeeps, UserKeeps, SeenEarlyKeeps, WorkerKeeps, SpuriousKeeps,
     SwitchKeeps, SetMinLevelKeeps DEF Next
<1>. QED  BY <1>1, <1>2

LEMMA Inductive == Spec => []IInv
BY InvInit, InvNext, PTL DEF Spec

\* Whoever is in a section that a mutex guards holds it, whatever the users, the
\* writer and whoever stops it do.
THEOREM TypeCorrect == Spec => []TypeOK
<1>1. IInv => TypeOK
  BY DEF IInv
<1>. QED  BY <1>1, Inductive, PTL

\* Double-checked locking constructs one object, even if the pointer is seen by
\* other threads before the object is complete.
THEOREM Singleton == Spec => []OneInstance
<1>1. IInv => OneInstance
  BY DEF IInv
<1>. QED  BY <1>1, Inductive, PTL

-----------------------------------------------------------------------------
(* The queue and the file *)

LEMMA QueueStep ==
    ASSUME IInv, IInv', NothingLostOrReordered, [Next]_vars
    PROVE  NothingLostOrReordered'
<1>. DEFINE M == Message
<1>0. file \in Seq(M) /\ hand \in Seq(M) /\ messageQueue \in Seq(M) /\ pushed \in Seq(M)
  BY DEF IInv, TypeOK
<1>1. ASSUME NEW u \in Users, PushMessage(u) PROVE NothingLostOrReordered'
  <2>1. message[u] \in M
    BY <1>1 DEF PushMessage, IInv, Told
  <2>2. /\ messageQueue' = messageQueue \o <<message[u]>>
        /\ pushed' = pushed \o <<message[u]>>
        /\ UNCHANGED <<file, hand>>
    BY <1>0, <1>1, <2>1, AppendIsConcat DEF PushMessage, writer
  <2>3. <<message[u]>> \in Seq(M) /\ file \o hand \in Seq(M)
    BY <1>0, <2>1, ConcatProperties
  <2>4. (file \o hand) \o (messageQueue \o <<message[u]>>)
          = ((file \o hand) \o messageQueue) \o <<message[u]>>
    BY <1>0, <2>3, ConcatAssociative
  <2>. QED  BY <2>2, <2>4 DEF NothingLostOrReordered
<1>2. CASE Pop
  <2>1. hand = <<>>
    BY <1>0, <1>2 DEF Pop, IInv, TypeOK
  <2>2. /\ Head(messageQueue) \in M /\ Tail(messageQueue) \in Seq(M)
        /\ messageQueue = <<Head(messageQueue)>> \o Tail(messageQueue)
    BY <1>0, <1>2, HeadTailProperties DEF Pop
  <2>3. <<Head(messageQueue)>> \in Seq(M)
    BY <2>2
  <2>4. (file \o <<Head(messageQueue)>>) \o Tail(messageQueue) = file \o messageQueue
    BY <1>0, <2>2, <2>3, ConcatAssociative
  <2>5. file \o <<>> = file
    BY <1>0, ConcatEmptySeq
  <2>. QED  BY <1>2, <2>1, <2>4, <2>5 DEF Pop, NothingLostOrReordered
<1>3. CASE Write
  <2>1. (file \o hand) \o <<>> = file \o hand
    BY <1>0, ConcatProperties, ConcatEmptySeq
  <2>. QED  BY <1>3, <2>1 DEF Write, NothingLostOrReordered, queue
<1>4. CASE UNCHANGED <<file, hand, messageQueue, pushed>>
  BY <1>4 DEF NothingLostOrReordered
<1>5. \/ \E u \in Users : PushMessage(u)
      \/ Pop
      \/ Write
      \/ UNCHANGED <<file, hand, messageQueue, pushed>>
  <2>1. CASE UNCHANGED vars
    BY <2>1 DEF vars, queue, writer
  <2>2. ASSUME NEW u \in Users, NEW level \in Levels, Call(u, level)
        PROVE  UNCHANGED <<file, hand, messageQueue, pushed>>
    BY <2>2 DEF Call, queue, writer
  <2>3. ASSUME NEW u \in Users, UserStep(u) \/ SeenEarly(u)
        PROVE  PushMessage(u) \/ UNCHANGED <<file, hand, messageQueue, pushed>>
    BY <2>3 DEF UserStep, SeenEarly, SecondCheck, Construct, Publish, CheckLevel, Notify,
                queue, writer
  <2>4. ASSUME NEW level \in Levels, SetMinLevel(level)
        PROVE  UNCHANGED <<file, hand, messageQueue, pushed>>
    BY <2>4 DEF SetMinLevel, queue, writer
  <2>5. CASE Worker
    BY <2>5 DEF Worker, Loop, LockQueue, Predicate, Block, Unlock, queue
  <2>6. CASE SpuriousWakeUp \/ StopCalled \/ Stopper \/ StartAgain
    BY <2>6 DEF SpuriousWakeUp, StopCalled, Stopper, StopClear, StopNotify, StopJoined,
                StartAgain, queue, writer
  <2>. QED  BY <2>1, <2>2, <2>3, <2>4, <2>5, <2>6 DEF Next
<1>. QED  BY <1>1, <1>2, <1>3, <1>4, <1>5

\* What was queued is in the file, in the writer's hand or in the queue, in order
\* and once, through any number of stops and starts.
THEOREM QueueKept == Spec => []NothingLostOrReordered
<1>1. Init => NothingLostOrReordered
  BY DEF Init, NothingLostOrReordered
<1>2. IInv /\ IInv' /\ NothingLostOrReordered /\ [Next]_vars => NothingLostOrReordered'
  BY QueueStep
<1>. QED  BY <1>1, <1>2, Inductive, PTL DEF Spec
=============================================================================
