-------------------------- MODULE P2PNetworkProofs --------------------------
(***************************************************************************)
(* Theorems about P2PNetwork, for any peers, any number of threads that    *)
(* broadcast, and queues of any length.                                    *)
(***************************************************************************)
EXTENDS P2PNetwork, SequenceTheorems, TLAPS

\* A broadcast that is not walking the peers holds nothing; one that is, and did
\* not fail, has every peer either behind it or ahead, as long as nobody touched
\* the peers without the mutex while somebody used them.
Walks ==
    \A b \in Broadcasters :
        IF Walking(b)
        THEN failed[b] \/ trespasses > 0 \/ delivered[b] \cup left[b] = peers
        ELSE left[b] = {} /\ delivered[b] = {} /\ ~failed[b]

IInv == TypeOK /\ Walks /\ CrashIsOwnOrUnlocked

LEMMA HoldersDiffer == loop \notin Broadcasters /\ nobody \notin Broadcasters /\ loop # nobody
BY NetworkAssumption DEF loop, nobody

\* While the loop holds the mutex nobody walks the peers.
LEMMA LoopIsAlone ==
    ASSUME TypeOK, networkMutex = loop
    PROVE  \A b \in Broadcasters : ~Walking(b)
BY HoldersDiffer DEF TypeOK

\* Whoever walks the peers holds the mutex, and nobody else walks them.
LEMMA WalkerIsAlone ==
    ASSUME TypeOK, NEW b \in Broadcasters, Walking(b)
    PROVE  /\ networkMutex = b
           /\ round \notin {"messages", "blocked", "replace"}
           /\ \A c \in Broadcasters : Walking(c) => c = b
BY HoldersDiffer DEF TypeOK

LEMMA InvInit == Init => IInv
<1>. SUFFICES ASSUME Init PROVE IInv
  OBVIOUS
<1>1. <<>> \in Seq(MessageType) /\ 0 \in 0..(CounterSize - 1) /\ 0 \in 0..MaxTrespasses
  BY NetworkAssumption
<1>2. \A b \in Broadcasters : ~Walking(b)
  BY DEF Init, Walking
<1>3. TypeOK
  BY <1>1, <1>2, HoldersDiffer DEF Init, TypeOK
<1>4. Walks /\ CrashIsOwnOrUnlocked
  BY <1>2 DEF Init, Walks, CrashIsOwnOrUnlocked
<1>. QED  BY <1>3, <1>4 DEF IInv

-----------------------------------------------------------------------------
(* The network thread *)

\* A step that leaves the broadcasts and the peers alone.
LEMMA ElsewhereKeeps ==
    ASSUME IInv, ~crashed, TypeOK', UNCHANGED <<broadcast, peers, trespasses, crashed>>
    PROVE  IInv'
BY DEF IInv, Walks, CrashIsOwnOrUnlocked, Walking, broadcast, outside

\* A change of the peers by the loop, which harms nobody.
LEMMA PeersChange ==
    ASSUME IInv, networkMutex = loop, UNCHANGED <<networkMutex, broadcast, trespasses>>,
           NEW newPeers \in SUBSET PeerIds, ChangePeers(newPeers, Broadcasters)
    PROVE  /\ peers' \subseteq PeerIds
           /\ crashed' = FALSE
           /\ Walks'
           /\ \A b \in Broadcasters : left'[b] = {} /\ ~Walking(b)'
<1>1. \A b \in Broadcasters : ~Walking(b)
  BY LoopIsAlone DEF IInv
<1>2. \A b \in Broadcasters : ~Walking(b)'
  BY <1>1 DEF Walking, broadcast, outside
<1>3. peers' = newPeers /\ crashed' = FALSE
  BY <1>1 DEF ChangePeers
<1>4. \A b \in Broadcasters : left[b] = {} /\ delivered[b] = {} /\ ~failed[b]
  BY <1>1 DEF IInv, Walks
<1>5. Walks' /\ \A b \in Broadcasters : left'[b] = {}
  BY <1>2, <1>4 DEF Walks, broadcast, outside
<1>. QED  BY <1>2, <1>3, <1>5

LEMMA SwitchKeeps ==
    ASSUME IInv, ~crashed, Start \/ Stop \/ Joined \/ TestRunning
    PROVE  IInv'
<1>1. TypeOK' /\ UNCHANGED <<broadcast, peers, trespasses, crashed>>
  BY DEF IInv, Start, Stop, Joined, TestRunning, TypeOK, Walking, broadcast, outside
<1>. QED  BY <1>1, ElsewhereKeeps

LEMMA LockRoundKeeps ==
    ASSUME IInv, ~crashed, LockRound
    PROVE  IInv'
<1>1. TypeOK'
  BY HoldersDiffer DEF IInv, LockRound, TypeOK, Walking, broadcast, outside
<1>. QED  BY <1>1, ElsewhereKeeps DEF LockRound, outside

LEMMA HandleMessageKeeps ==
    ASSUME IInv, ~crashed, HandleMessage
    PROVE  IInv'
<1>0. /\ networkMutex = loop
      /\ messageQueue' \in Seq(MessageType)
      /\ UNCHANGED <<networkMutex, messageCount, thread, broadcast, outside>>
  BY HeadTailProperties DEF HandleMessage, IInv, TypeOK
<1>1. CASE Head(messageQueue) = PEER_DISCOVERY
  <2>1. PICK found \in SUBSET PeerIds : ChangePeers(peers \cup found, Broadcasters)
    BY <1>1 DEF HandleMessage
  <2>2. peers \cup found \in SUBSET PeerIds
    BY DEF IInv, TypeOK
  <2>3. /\ peers' \subseteq PeerIds /\ crashed' = FALSE /\ Walks'
        /\ \A b \in Broadcasters : left'[b] = {} /\ ~Walking(b)'
    BY <1>0, <2>1, <2>2, PeersChange DEF outside
  <2>4. TypeOK'
    BY <1>0, <2>3, HoldersDiffer DEF IInv, TypeOK, thread, broadcast, outside
  <2>. QED  BY <2>3, <2>4 DEF IInv, CrashIsOwnOrUnlocked
<1>2. CASE Head(messageQueue) # PEER_DISCOVERY
  <2>1. UNCHANGED <<peers, crashed>>
    BY <1>2 DEF HandleMessage
  <2>2. TypeOK'
    BY <1>0, <2>1 DEF IInv, TypeOK, Walking, thread, broadcast, outside
  <2>. QED  BY <1>0, <2>1, <2>2, ElsewhereKeeps DEF outside
<1>. QED  BY <1>1, <1>2

LEMMA ReplacePeerKeeps ==
    ASSUME IInv, ~crashed, ReplacePeer
    PROVE  IInv'
<1>0. networkMutex = loop
  BY DEF ReplacePeer, IInv, TypeOK
<1>1. PICK p \in slowPeers, found \in SUBSET PeerIds :
        /\ slowPeers' = slowPeers \ {p}
        /\ ChangePeers((peers \ {p}) \cup found, Broadcasters)
  BY DEF ReplacePeer
<1>2. (peers \ {p}) \cup found \in SUBSET PeerIds
  BY DEF IInv, TypeOK
<1>3. UNCHANGED <<messageQueue, networkMutex, messageCount, isRunning, round, stop,
                  broadcast, outside>>
  BY DEF ReplacePeer
<1>4. /\ peers' \subseteq PeerIds /\ crashed' = FALSE /\ Walks'
      /\ \A b \in Broadcasters : left'[b] = {} /\ ~Walking(b)'
  BY <1>0, <1>1, <1>2, <1>3, PeersChange DEF outside
<1>5. slowPeers' \subseteq PeerIds
  BY <1>1 DEF IInv, TypeOK
<1>6. TypeOK'
  BY <1>0, <1>3, <1>4, <1>5, HoldersDiffer DEF IInv, TypeOK, broadcast, outside
<1>. QED  BY <1>4, <1>6 DEF IInv, CrashIsOwnOrUnlocked

LEMMA RestOfRoundKeeps ==
    ASSUME IInv, ~crashed, HandlerBroadcasts \/ CollectSlowPeers \/ EndRound
    PROVE  IInv'
<1>1. CASE HandlerBroadcasts
  <2>1. messageQueue' \in Seq(MessageType)
    BY <1>1, HeadTailProperties DEF HandlerBroadcasts, IInv, TypeOK
  <2>2. TypeOK'
    BY <1>1, <2>1 DEF HandlerBroadcasts, IInv, TypeOK, Walking, broadcast, outside
  <2>. QED  BY <1>1, <2>2, ElsewhereKeeps DEF HandlerBroadcasts, outside
<1>2. CASE CollectSlowPeers
  <2>1. slowPeers' \subseteq PeerIds
    BY <1>2 DEF CollectSlowPeers, IInv, TypeOK
  <2>2. TypeOK'
    BY <1>2, <2>1 DEF CollectSlowPeers, IInv, TypeOK, Walking, broadcast, outside
  <2>. QED  BY <1>2, <2>2, ElsewhereKeeps DEF CollectSlowPeers, outside
<1>3. CASE EndRound
  <2>1. TypeOK'
    BY <1>3, HoldersDiffer DEF EndRound, IInv, TypeOK, Walking, broadcast, outside
  <2>. QED  BY <1>3, <2>1, ElsewhereKeeps DEF EndRound, outside
<1>. QED  BY <1>1, <1>2, <1>3

LEMMA MessageArrivesKeeps ==
    ASSUME IInv, ~crashed, NEW type \in MessageType, MessageArrives(type)
    PROVE  IInv'
<1>1. messageQueue' \in Seq(MessageType)
  BY AppendProperties DEF MessageArrives, IInv, TypeOK
<1>2. TypeOK'
  BY <1>1 DEF MessageArrives, IInv, TypeOK, Walking, thread, broadcast, outside
<1>. QED  BY <1>2, ElsewhereKeeps DEF MessageArrives, outside

-----------------------------------------------------------------------------
(* broadcastMessage *)

LEMMA CallKeeps ==
    ASSUME IInv, ~crashed, NEW b \in Broadcasters, CallBroadcast(b)
    PROVE  IInv'
<1>1. pc' = [pc EXCEPT ![b] = "lock"] /\ pc[b] = "idle"
  BY DEF CallBroadcast, Goto
<1>2. \A c \in Broadcasters : Walking(c)' <=> Walking(c)
  BY <1>1 DEF IInv, TypeOK, Walking
<1>3. TypeOK'
  BY <1>1, <1>2 DEF CallBroadcast, IInv, TypeOK, thread, outside
<1>4. Walks'
  BY <1>2 DEF CallBroadcast, IInv, Walks, outside
<1>. QED  BY <1>3, <1>4 DEF CallBroadcast, IInv, CrashIsOwnOrUnlocked

LEMMA LockKeeps ==
    ASSUME IInv, ~crashed, NEW b \in Broadcasters, LockBroadcast(b)
    PROVE  IInv'
<1>1. /\ pc' = [pc EXCEPT ![b] = "walk"] /\ pc[b] = "lock"
      /\ left' = [left EXCEPT ![b] = peers]
      /\ networkMutex = nobody /\ networkMutex' = b
  BY DEF LockBroadcast, Goto
<1>2. \A c \in Broadcasters : ~Walking(c) /\ (Walking(c)' <=> c = b)
  BY <1>1, HoldersDiffer DEF IInv, TypeOK, Walking
<1>3. TypeOK'
  BY <1>1, <1>2, HoldersDiffer DEF LockBroadcast, IInv, TypeOK, thread, outside
<1>4. Walks'
  BY <1>1, <1>2 DEF LockBroadcast, IInv, TypeOK, Walks
<1>. QED  BY <1>3, <1>4 DEF LockBroadcast, IInv, CrashIsOwnOrUnlocked

LEMMA DeliverKeeps ==
    ASSUME IInv, ~crashed, NEW b \in Broadcasters, Deliver(b)
    PROVE  IInv'
<1>1. PICK p \in left[b] : /\ left' = [left EXCEPT ![b] = @ \ {p}]
                           /\ delivered' = [delivered EXCEPT ![b] = @ \cup {p}]
  BY DEF Deliver
<1>2. /\ Walking(b)
      /\ messageCount' = (messageCount + 1) % CounterSize
      /\ UNCHANGED <<peers, messageQueue, networkMutex, thread, pc, failed, outside, crashed>>
  BY DEF Deliver
<1>3. messageCount' \in 0..(CounterSize - 1)
  BY <1>2, NetworkAssumption DEF IInv, TypeOK
<1>4. \A c \in Broadcasters : Walking(c)' <=> Walking(c)
  BY <1>2 DEF Walking
<1>5. left[b] \subseteq PeerIds /\ p \in peers
  BY DEF IInv, TypeOK
<1>6. TypeOK'
  BY <1>1, <1>2, <1>3, <1>4, <1>5 DEF IInv, TypeOK, thread, outside
<1>7. Walks'
  <2>. SUFFICES ASSUME NEW c \in Broadcasters
                PROVE  IF Walking(c)'
                       THEN \/ failed'[c] \/ trespasses' > 0
                            \/ delivered'[c] \cup left'[c] = peers'
                       ELSE left'[c] = {} /\ delivered'[c] = {} /\ ~failed'[c]
    BY DEF Walks, Walking
  <2>1. CASE c = b
    <3>1. left'[b] = left[b] \ {p} /\ delivered'[b] = delivered[b] \cup {p}
      BY <1>1 DEF IInv, TypeOK
    <3>2. failed[b] \/ trespasses > 0 \/ delivered[b] \cup left[b] = peers
      BY <1>2 DEF IInv, Walks
    <3>. QED  BY <1>2, <1>4, <2>1, <3>1, <3>2 DEF outside
  <2>2. CASE c # b
    <3>1. left'[c] = left[c] /\ delivered'[c] = delivered[c]
      BY <1>1, <2>2 DEF IInv, TypeOK
    <3>. QED  BY <1>2, <1>4, <3>1 DEF IInv, Walks, outside
  <2>. QED  BY <2>1, <2>2
<1>. QED  BY <1>2, <1>6, <1>7 DEF IInv, CrashIsOwnOrUnlocked

LEMMA DeliveryFailsKeeps ==
    ASSUME IInv, ~crashed, NEW b \in Broadcasters, DeliveryFails(b)
    PROVE  IInv'
<1>1. PICK p \in left[b] :
        /\ peers' = peers \ {p}
        /\ left' \in {[left EXCEPT ![b] = @ \ {p}], [left EXCEPT ![b] = {}]}
        /\ crashed' \in BOOLEAN
  BY DEF DeliveryFails
<1>2. /\ Walking(b)
      /\ failed' = [failed EXCEPT ![b] = TRUE]
      /\ UNCHANGED <<messageQueue, networkMutex, messageCount, thread, pc, delivered, outside>>
  BY DEF DeliveryFails
<1>3. \A c \in Broadcasters : Walking(c)' <=> Walking(c)
  BY <1>2 DEF Walking
<1>4. \A c \in Broadcasters : c # b => ~Walking(c)
  BY <1>2, WalkerIsAlone DEF IInv
<1>5. /\ left' \in [Broadcasters -> SUBSET PeerIds]
      /\ left'[b] \subseteq left[b] \ {p}
      /\ \A c \in Broadcasters : c # b => left'[c] = left[c]
  <2>1. CASE left' = [left EXCEPT ![b] = @ \ {p}]
    BY <2>1 DEF IInv, TypeOK
  <2>2. CASE left' = [left EXCEPT ![b] = {}]
    BY <2>2 DEF IInv, TypeOK
  <2>. QED  BY <1>1, <2>1, <2>2
<1>6. \A c \in Broadcasters : left'[c] \subseteq peers'
  <2>1. left[b] \subseteq peers
    BY DEF IInv, TypeOK
  <2>2. \A c \in Broadcasters : c # b => left'[c] = {}
    BY <1>4, <1>5 DEF IInv, Walks
  <2>. QED  BY <1>1, <1>5, <2>1, <2>2
<1>7. failed' \in [Broadcasters -> BOOLEAN] /\ failed'[b]
      /\ \A c \in Broadcasters : c # b => failed'[c] = failed[c]
  BY <1>2 DEF IInv, TypeOK
<1>8. TypeOK'
  BY <1>1, <1>2, <1>3, <1>5, <1>6, <1>7 DEF IInv, TypeOK, thread, outside
<1>9. Walks'
  BY <1>2, <1>3, <1>4, <1>5, <1>7 DEF IInv, Walks
<1>10. CrashIsOwnOrUnlocked'
  BY <1>2, <1>3, <1>7 DEF CrashIsOwnOrUnlocked
<1>. QED  BY <1>8, <1>9, <1>10 DEF IInv

LEMMA EndKeeps ==
    ASSUME IInv, ~crashed, NEW b \in Broadcasters, EndBroadcast(b)
    PROVE  IInv'
<1>1. /\ pc' = [pc EXCEPT ![b] = "idle"]
      /\ delivered' = [delivered EXCEPT ![b] = {}]
      /\ failed' = [failed EXCEPT ![b] = FALSE]
      /\ left[b] = {} /\ networkMutex' = nobody /\ Walking(b)
      /\ UNCHANGED <<peers, messageQueue, messageCount, thread, left, outside, crashed>>
  BY DEF EndBroadcast, Goto
<1>2. \A c \in Broadcasters : ~Walking(c)'
  BY <1>1, WalkerIsAlone DEF IInv, TypeOK, Walking
<1>3. round \notin {"messages", "blocked", "replace"}
  BY <1>1, WalkerIsAlone DEF IInv
<1>4. \A c \in Broadcasters : c # b => left[c] = {} /\ delivered[c] = {} /\ ~failed[c]
  BY <1>1, WalkerIsAlone DEF IInv, Walks
<1>5. TypeOK'
  BY <1>1, <1>2, <1>3, HoldersDiffer DEF IInv, TypeOK, thread, outside
<1>6. Walks'
  BY <1>1, <1>2, <1>4 DEF IInv, TypeOK, Walks
<1>. QED  BY <1>1, <1>5, <1>6 DEF IInv, CrashIsOwnOrUnlocked

-----------------------------------------------------------------------------
(* The accesses without the mutex *)

LEMMA UnlockedKeeps ==
    ASSUME IInv, ~crashed, NEW overlaps \in BOOLEAN, Unlocked(overlaps)
    PROVE  /\ trespasses' \in 0..MaxTrespasses
           /\ crashed' \in BOOLEAN
           /\ overlaps => trespasses' > 0
           /\ ~overlaps => networkMutex = nobody /\ crashed' = FALSE
           /\ trespasses > 0 => trespasses' > 0
<1>1. trespasses \in Nat /\ trespasses <= MaxTrespasses /\ MaxTrespasses \in Nat
  BY NetworkAssumption DEF IInv, TypeOK
<1>2. CASE overlaps
  <2>1. trespasses' = trespasses + 1 /\ trespasses < MaxTrespasses /\ crashed' \in BOOLEAN
    BY <1>2 DEF Unlocked
  <2>2. trespasses' \in 0..MaxTrespasses /\ trespasses' > 0
    BY <1>1, <2>1
  <2>. QED  BY <1>2, <2>1, <2>2
<1>3. CASE ~overlaps
  <2>1. trespasses' = trespasses /\ crashed' = FALSE /\ networkMutex = nobody
    BY <1>3 DEF Unlocked
  <2>2. trespasses' \in 0..MaxTrespasses
    BY <1>1, <2>1
  <2>. QED  BY <1>3, <2>1, <2>2
<1>. QED  BY <1>2, <1>3

LEMMA ChangeUnlockedKeeps ==
    ASSUME IInv, ~crashed, NEW newPeers \in SUBSET PeerIds, ChangeUnlocked(newPeers),
           starting' \in {"no", "synchronize", "measure"},
           UNCHANGED <<messageQueue, networkMutex, messageCount, thread, pc, delivered,
                       failed>>
    PROVE  IInv'
<1>1. PICK overlaps \in BOOLEAN :
        /\ Unlocked(overlaps)
        /\ peers' \in IF overlaps THEN SUBSET PeerIds ELSE {newPeers}
        /\ left' \in [Broadcasters -> SUBSET peers']
        /\ \A b \in Broadcasters : ~Walking(b) => left'[b] = {}
  BY DEF ChangeUnlocked
<1>2. /\ trespasses' \in 0..MaxTrespasses
      /\ crashed' \in BOOLEAN
      /\ overlaps => trespasses' > 0
      /\ ~overlaps => networkMutex = nobody /\ crashed' = FALSE
      /\ trespasses > 0 => trespasses' > 0
  BY <1>1, UnlockedKeeps
<1>3. peers' \subseteq PeerIds
  BY <1>1
<1>4. \A b \in Broadcasters : Walking(b)' <=> Walking(b)
  BY DEF Walking
<1>5. left' \in [Broadcasters -> SUBSET PeerIds] /\ \A b \in Broadcasters : left'[b] \subseteq peers'
  BY <1>1, <1>3
<1>6. TypeOK'
  BY <1>2, <1>3, <1>4, <1>5 DEF IInv, TypeOK, thread
<1>7. Walks'
  <2>1. \A b \in Broadcasters : Walking(b) => trespasses' > 0
    BY <1>2, HoldersDiffer DEF IInv, TypeOK
  <2>. QED  BY <1>1, <1>4, <2>1 DEF IInv, Walks
<1>8. CrashIsOwnOrUnlocked'
  BY <1>2 DEF CrashIsOwnOrUnlocked
<1>. QED  BY <1>6, <1>7, <1>8 DEF IInv

LEMMA OutsideKeeps ==
    ASSUME IInv, ~crashed, Synchronize \/ AddPeer \/ RemovePeer
    PROVE  IInv'
<1>1. CASE Synchronize
  <2>1. PICK found \in SUBSET PeerIds : ChangeUnlocked(found)
    BY <1>1 DEF Synchronize
  <2>. QED  BY <1>1, <2>1, ChangeUnlockedKeeps DEF Synchronize
<1>2. CASE AddPeer
  <2>1. PICK found \in SUBSET PeerIds : ChangeUnlocked(peers \cup found)
    BY <1>2 DEF AddPeer
  <2>2. peers \cup found \in SUBSET PeerIds /\ starting \in {"no", "synchronize", "measure"}
    BY DEF IInv, TypeOK
  <2>. QED  BY <1>2, <2>1, <2>2, ChangeUnlockedKeeps DEF AddPeer
<1>3. CASE RemovePeer
  <2>1. PICK p \in PeerIds : ChangeUnlocked(peers \ {p})
    BY <1>3 DEF RemovePeer
  <2>2. peers \ {p} \in SUBSET PeerIds /\ starting \in {"no", "synchronize", "measure"}
    BY DEF IInv, TypeOK
  <2>. QED  BY <1>3, <2>1, <2>2, ChangeUnlockedKeeps DEF RemovePeer
<1>. QED  BY <1>1, <1>2, <1>3

LEMMA MeasureKeeps ==
    ASSUME IInv, ~crashed, MeasureLatency
    PROVE  IInv'
<1>1. PICK overlaps \in BOOLEAN : Unlocked(overlaps)
  BY DEF MeasureLatency
<1>2. /\ trespasses' \in 0..MaxTrespasses
      /\ crashed' \in BOOLEAN
      /\ overlaps => trespasses' > 0
      /\ ~overlaps => crashed' = FALSE
      /\ trespasses > 0 => trespasses' > 0
  BY <1>1, UnlockedKeeps
<1>3. /\ starting' \in {"no", "synchronize", "measure"}
      /\ UNCHANGED <<peers, messageQueue, networkMutex, messageCount, thread, broadcast>>
  BY DEF MeasureLatency
<1>4. TypeOK'
  BY <1>2, <1>3 DEF IInv, TypeOK, Walking, thread, broadcast
<1>5. Walks'
  BY <1>2, <1>3 DEF IInv, Walks, Walking, broadcast
<1>6. CrashIsOwnOrUnlocked'
  BY <1>2 DEF CrashIsOwnOrUnlocked
<1>. QED  BY <1>4, <1>5, <1>6 DEF IInv

LEMMA InvNext == IInv /\ [Next]_vars => IInv'
<1>. SUFFICES ASSUME IInv, [Next]_vars PROVE IInv'
  OBVIOUS
<1>1. CASE UNCHANGED vars
  BY <1>1 DEF vars, IInv, TypeOK, Walks, CrashIsOwnOrUnlocked, Walking, thread,
              broadcast, outside
<1>2. CASE Next
  BY <1>2, SwitchKeeps, LockRoundKeeps, HandleMessageKeeps, RestOfRoundKeeps,
     ReplacePeerKeeps, MessageArrivesKeeps, CallKeeps, LockKeeps, DeliverKeeps,
     DeliveryFailsKeeps, EndKeeps, OutsideKeeps, MeasureKeeps DEF Next, Round, Walk
<1>. QED  BY <1>1, <1>2

LEMMA Inductive == Spec => []IInv
BY InvInit, InvNext, PTL DEF Spec

\* The mutex keeps the loop and the broadcasts apart, and a broadcast has only
\* peers ahead of it.
THEOREM TypeCorrect == Spec => []TypeOK
<1>1. IInv => TypeOK
  BY DEF IInv
<1>. QED  BY <1>1, Inductive, PTL

\* A broadcast without a failed delivery reaches whoever is a peer at its end, as
\* long as nobody touches the peers without the mutex while it is in use.
THEOREM Reaches == Spec => []DeliveredToAll
<1>1. IInv => DeliveredToAll
  <2>. SUFFICES ASSUME IInv, NEW b \in Broadcasters, Walking(b), left[b] = {}, ~failed[b],
                       trespasses = 0
                PROVE  delivered[b] = peers
    BY DEF DeliveredToAll
  <2>1. ~(trespasses > 0)
    OBVIOUS
  <2>. QED  BY <2>1 DEF IInv, Walks
<1>. QED  BY <1>1, Inductive, PTL

\* Under the mutex, only the removal of a peer by a broadcast harms a loop that
\* walks the map; the rest comes from the accesses without it.
THEOREM CrashIsExplained == Spec => []CrashIsOwnOrUnlocked
<1>1. IInv => CrashIsOwnOrUnlocked
  BY DEF IInv
<1>. QED  BY <1>1, Inductive, PTL
=============================================================================
