----------------------------- MODULE P2PNetwork -----------------------------
(***************************************************************************)
(* class P2PNetwork (src/network/p2p_network.cpp): a loop that serves the  *)
(* queue of messages and looks after the peers, and threads that broadcast. *)
(* Both take one mutex; the loop holds it for a whole round, sleep         *)
(* included.  start, addPeer and removePeer do not: start goes on to       *)
(* synchronizeWithPeers and measureNetworkLatency when the loop runs       *)
(* already, and removePeer is called with the mutex held, so that a        *)
(* program that calls it from outside calls it without.  What those two,   *)
(* the handlers and findNewPeer do is not in the repository: they may      *)
(* change the peers, and the handlers of transactions and blocks may pass  *)
(* on what they got, which is a broadcast.                                 *)
(***************************************************************************)
EXTENDS Naturals, Sequences, FiniteSets

CONSTANTS
    PeerIds,       \* who may be a peer
    Broadcasters,  \* threads that call broadcastMessage
    CounterSize,   \* the numbers of a messageCount: 2^32 in the code
    MaxQueue,      \* bound: length of the message queue
    MaxTrespasses  \* bound: unlocked accesses to the peers that overlap another

TRANSACTION == "TRANSACTION"
BLOCK == "BLOCK"
PEER_DISCOVERY == "PEER_DISCOVERY"
VALIDATION_REQUEST == "VALIDATION_REQUEST"
MessageType == {TRANSACTION, BLOCK, PEER_DISCOVERY, VALIDATION_REQUEST}

\* Who may hold the mutex, besides a broadcaster.
loop == "loop"
nobody == "nobody"

ASSUME NetworkAssumption ==
    /\ IsFiniteSet(PeerIds)
    /\ {loop, nobody} \cap Broadcasters = {}
    /\ CounterSize \in Nat \ {0}
    /\ MaxQueue \in Nat
    /\ MaxTrespasses \in Nat

VARIABLES
    peers,
    messageQueue,
    networkMutex,  \* the holder
    isRunning,
    messageCount,
    round,         \* where the network thread is
    slowPeers,     \* the peers that optimizeConnections has still to replace
    stop,          \* where the call of stop is
    pc,            \* broadcaster -> where its broadcastMessage is
    left,          \* broadcaster -> peers that its loop has not reached yet
    delivered,     \* broadcaster -> peers that got its message
    failed,        \* broadcaster -> whether a delivery of the call failed
    starting,      \* what start has still to do, besides the thread
    trespasses,    \* history: unlocked accesses to the peers that overlapped another
    crashed        \* two accesses to the peers overlapped, and it showed

thread == <<isRunning, round, slowPeers, stop>>
broadcast == <<pc, left, delivered, failed>>
outside == <<starting, trespasses>>
vars == <<peers, messageQueue, networkMutex, messageCount, thread, broadcast, outside,
          crashed>>

Init ==
    /\ peers \in SUBSET PeerIds
    /\ messageQueue = <<>>
    /\ networkMutex = nobody
    /\ isRunning = FALSE
    /\ messageCount = 0
    /\ round = "none"
    /\ slowPeers = {}
    /\ stop = "none"
    /\ pc = [b \in Broadcasters |-> "idle"]
    /\ left = [b \in Broadcasters |-> {}]
    /\ delivered = [b \in Broadcasters |-> {}]
    /\ failed = [b \in Broadcasters |-> FALSE]
    /\ starting = "no"
    /\ trespasses = 0
    /\ crashed = FALSE

\* Operators called ...Defect are variants of the definition that follows them,
\* each with a mistake that a property has to notice; nothing uses them.

Goto(b, label) == pc' = [pc EXCEPT ![b] = label]

Walking(b) == pc[b] = "walk"

\* The peers change under the mutex.  A loop of another thread that is walking the
\* map then may or may not survive it.
ChangePeers(newPeers, others) ==
    /\ peers' = newPeers
    /\ crashed' \in IF \E b \in others : Walking(b) /\ newPeers # peers
                    THEN BOOLEAN
                    ELSE {FALSE}

\* An access to the peers without the mutex.  It overlaps whatever the holder of
\* the mutex does; it may also overlap a section that begins or ends meanwhile, or
\* another such access.  The program may or may not survive that.
Unlocked(overlaps) ==
    /\ networkMutex # nobody => overlaps
    /\ overlaps => trespasses < MaxTrespasses
    /\ trespasses' = IF overlaps THEN trespasses + 1 ELSE trespasses
    /\ crashed' \in IF overlaps THEN BOOLEAN ELSE {FALSE}

\* The peers change without the mutex: to what the change makes of them or, if it
\* overlaps another access, to anything.  A loop that walks them then may come
\* past any of them.
ChangeUnlocked(newPeers) ==
    \E overlaps \in BOOLEAN :
        /\ Unlocked(overlaps)
        /\ peers' \in IF overlaps THEN SUBSET PeerIds ELSE {newPeers}
        /\ left' \in [Broadcasters -> SUBSET peers']
        /\ \A b \in Broadcasters : ~Walking(b) => left'[b] = {}

-----------------------------------------------------------------------------
(* start, and stop, which is declared only: it clears the flag and joins *)

Start ==
    /\ ~isRunning
    /\ round = "none"
    /\ stop = "none"
    /\ starting = "no"
    /\ isRunning' = TRUE
    /\ round' = "test"
    /\ starting' = "synchronize"
    /\ UNCHANGED <<peers, messageQueue, networkMutex, messageCount, slowPeers, stop,
                   broadcast, trespasses, crashed>>

\* The rest of start runs beside the thread that it started.
Synchronize ==
    /\ starting = "synchronize"
    /\ starting' = "measure"
    /\ \E found \in SUBSET PeerIds : ChangeUnlocked(found)
    /\ UNCHANGED <<messageQueue, networkMutex, messageCount, thread, pc, delivered,
                   failed>>

MeasureLatency ==
    /\ starting = "measure"
    /\ starting' = "no"
    /\ \E overlaps \in BOOLEAN : Unlocked(overlaps)
    /\ UNCHANGED <<peers, messageQueue, networkMutex, messageCount, thread, broadcast>>

Stop ==
    /\ isRunning
    /\ stop = "none"
    /\ isRunning' = FALSE
    /\ stop' = "join"
    /\ UNCHANGED <<peers, messageQueue, networkMutex, messageCount, round, slowPeers,
                   broadcast, outside, crashed>>

Joined ==
    /\ stop = "join"
    /\ round = "ended"
    /\ stop' = "none"
    /\ round' = "none"
    /\ UNCHANGED <<peers, messageQueue, networkMutex, messageCount, isRunning, slowPeers,
                   broadcast, outside, crashed>>

\* addPeer and removePeer, called from outside.
AddPeer ==
    /\ \E found \in SUBSET PeerIds :
         Cardinality(found) <= 1 /\ ChangeUnlocked(peers \cup found)
    /\ UNCHANGED <<messageQueue, networkMutex, messageCount, thread, starting, pc,
                   delivered, failed>>

RemovePeer ==
    /\ \E p \in PeerIds : ChangeUnlocked(peers \ {p})
    /\ UNCHANGED <<messageQueue, networkMutex, messageCount, thread, starting, pc,
                   delivered, failed>>

-----------------------------------------------------------------------------
(* runNetworkLoop *)

TestRunning ==
    /\ round = "test"
    /\ round' = IF isRunning THEN "lock" ELSE "ended"
    /\ UNCHANGED <<peers, messageQueue, networkMutex, messageCount, isRunning, slowPeers,
                   stop, broadcast, outside, crashed>>

\* No lock.
LockRoundDefect ==
    /\ round = "lock"
    /\ networkMutex' = loop
    /\ round' = "messages"
    /\ UNCHANGED <<peers, messageQueue, messageCount, isRunning, slowPeers, stop,
                   broadcast, outside, crashed>>

LockRound ==
    /\ round = "lock"
    /\ networkMutex = nobody
    /\ networkMutex' = loop
    /\ round' = "messages"
    /\ UNCHANGED <<peers, messageQueue, messageCount, isRunning, slowPeers, stop,
                   broadcast, outside, crashed>>

\* handleIncomingMessages: one message.  A discovery may add a peer.
HandleMessage ==
    /\ round = "messages"
    /\ messageQueue # <<>>
    /\ messageQueue' = Tail(messageQueue)
    /\ IF Head(messageQueue) = PEER_DISCOVERY
       THEN \E found \in SUBSET PeerIds :
              /\ Cardinality(found) <= 1
              /\ ChangePeers(peers \cup found, Broadcasters)
       ELSE UNCHANGED <<peers, crashed>>
    /\ UNCHANGED <<networkMutex, messageCount, thread, broadcast, outside>>

\* The handler broadcasts: its thread asks for a mutex that it holds.
HandlerBroadcasts ==
    /\ round = "messages"
    /\ messageQueue # <<>>
    /\ Head(messageQueue) \in {TRANSACTION, BLOCK}
    /\ messageQueue' = Tail(messageQueue)
    /\ round' = "blocked"
    /\ UNCHANGED <<peers, networkMutex, messageCount, isRunning, slowPeers, stop,
                   broadcast, outside, crashed>>

\* The first half of optimizeConnections; latencies are what they are.
CollectSlowPeers ==
    /\ round = "messages"
    /\ messageQueue = <<>>
    /\ slowPeers' \in SUBSET peers
    /\ round' = "replace"
    /\ UNCHANGED <<peers, messageQueue, networkMutex, messageCount, isRunning, stop,
                   broadcast, outside, crashed>>

\* The second half: removePeer, and findNewPeer, which may find one or not.
ReplacePeer ==
    /\ round = "replace"
    /\ \E p \in slowPeers :
         /\ slowPeers' = slowPeers \ {p}
         /\ \E found \in SUBSET PeerIds :
              /\ Cardinality(found) <= 1
              /\ ChangePeers((peers \ {p}) \cup found, Broadcasters)
    /\ UNCHANGED <<messageQueue, networkMutex, messageCount, isRunning, round, stop,
                   broadcast, outside>>

\* handleNetworkPartition, the sleep and the end of the guard's scope.
EndRound ==
    /\ round = "replace"
    /\ slowPeers = {}
    /\ networkMutex' = nobody
    /\ round' = "test"
    /\ UNCHANGED <<peers, messageQueue, messageCount, isRunning, slowPeers, stop,
                   broadcast, outside, crashed>>

\* processMessage is declared only; it is taken to put the message into the
\* queue under the mutex.
MessageArrives(type) ==
    /\ networkMutex = nobody
    /\ Len(messageQueue) < MaxQueue
    /\ messageQueue' = Append(messageQueue, type)
    /\ UNCHANGED <<peers, networkMutex, messageCount, thread, broadcast, outside,
                   crashed>>

-----------------------------------------------------------------------------
(* broadcastMessage *)

CallBroadcast(b) ==
    /\ pc[b] = "idle"
    /\ Goto(b, "lock")
    /\ UNCHANGED <<peers, messageQueue, networkMutex, messageCount, thread, left,
                   delivered, failed, outside, crashed>>

\* No lock.
LockBroadcastDefect(b) ==
    /\ pc[b] = "lock"
    /\ Goto(b, "walk")
    /\ left' = [left EXCEPT ![b] = peers]
    /\ UNCHANGED <<peers, messageQueue, networkMutex, messageCount, thread, delivered,
                   failed, outside, crashed>>

LockBroadcast(b) ==
    /\ pc[b] = "lock"
    /\ networkMutex = nobody
    /\ networkMutex' = b
    /\ Goto(b, "walk")
    /\ left' = [left EXCEPT ![b] = peers]
    /\ UNCHANGED <<peers, messageQueue, messageCount, thread, delivered, failed, outside,
                   crashed>>

\* The map is unordered: any peer may be next.
Deliver(b) ==
    /\ Walking(b)
    /\ \E p \in left[b] :
         /\ left' = [left EXCEPT ![b] = @ \ {p}]
         /\ delivered' = [delivered EXCEPT ![b] = @ \cup {p}]
    /\ messageCount' = (messageCount + 1) % CounterSize
    /\ UNCHANGED <<peers, messageQueue, networkMutex, thread, pc, failed, outside,
                   crashed>>

\* The walk goes on at the peer that was removed.
DeliveryFailsDefect(b) ==
    /\ Walking(b)
    /\ \E p \in left[b] : peers' = peers \ {p}
    /\ failed' = [failed EXCEPT ![b] = TRUE]
    /\ UNCHANGED <<messageQueue, networkMutex, messageCount, thread, pc, left, delivered,
                   outside, crashed>>

\* removePeer(peerId) in the catch block erases the element that the loop is at,
\* and peerId is a reference into it.  What follows is undefined: the loop may go
\* on, end, or bring the program down.
DeliveryFails(b) ==
    /\ Walking(b)
    /\ \E p \in left[b] :
         /\ peers' = peers \ {p}
         /\ \/ left' = [left EXCEPT ![b] = @ \ {p}] /\ crashed' = FALSE
            \/ left' = [left EXCEPT ![b] = {}] /\ crashed' = FALSE
            \/ left' = [left EXCEPT ![b] = {}] /\ crashed' = TRUE
    /\ failed' = [failed EXCEPT ![b] = TRUE]
    /\ UNCHANGED <<messageQueue, networkMutex, messageCount, thread, pc, delivered,
                   outside>>

\* The mutex is kept when a delivery failed.
EndBroadcastDefect(b) ==
    /\ Walking(b)
    /\ left[b] = {}
    /\ networkMutex' = IF failed[b] THEN b ELSE nobody
    /\ Goto(b, "idle")
    /\ delivered' = [delivered EXCEPT ![b] = {}]
    /\ failed' = [failed EXCEPT ![b] = FALSE]
    /\ UNCHANGED <<peers, messageQueue, messageCount, thread, left, outside, crashed>>

EndBroadcast(b) ==
    /\ Walking(b)
    /\ left[b] = {}
    /\ networkMutex' = nobody
    /\ Goto(b, "idle")
    /\ delivered' = [delivered EXCEPT ![b] = {}]
    /\ failed' = [failed EXCEPT ![b] = FALSE]
    /\ UNCHANGED <<peers, messageQueue, messageCount, thread, left, outside, crashed>>

-----------------------------------------------------------------------------
Round ==
    \/ TestRunning
    \/ LockRound
    \/ HandleMessage
    \/ HandlerBroadcasts
    \/ CollectSlowPeers
    \/ ReplacePeer
    \/ EndRound

Walk(b) == Deliver(b) \/ DeliveryFails(b) \/ EndBroadcast(b)

Next ==
    /\ ~crashed
    /\ \/ Start
       \/ Synchronize
       \/ MeasureLatency
       \/ Stop
       \/ Joined
       \/ AddPeer
       \/ RemovePeer
       \/ Round
       \/ \E type \in MessageType : MessageArrives(type)
       \/ \E b \in Broadcasters : CallBroadcast(b) \/ LockBroadcast(b) \/ Walk(b)

Spec == Init /\ [][Next]_vars

\* A thread that runs goes on.  Nothing is assumed of who gets the mutex next.
FairSpec ==
    /\ Spec
    /\ WF_vars(~crashed /\ Round)
    /\ \A b \in Broadcasters : WF_vars(~crashed /\ Walk(b))
-----------------------------------------------------------------------------
(* Properties *)

\* The type invariant.  Whoever is in a section that the mutex guards holds it,
\* and a broadcast has only peers ahead of it.
TypeOK ==
    /\ peers \subseteq PeerIds
    /\ messageQueue \in Seq(MessageType)
    /\ networkMutex \in Broadcasters \cup {loop, nobody}
    /\ isRunning \in BOOLEAN
    /\ messageCount \in 0..(CounterSize - 1)
    /\ round \in {"none", "test", "lock", "messages", "blocked", "replace", "ended"}
    /\ round \in {"messages", "blocked", "replace"} <=> networkMutex = loop
    /\ slowPeers \subseteq PeerIds
    /\ stop \in {"none", "join"}
    /\ pc \in [Broadcasters -> {"idle", "lock", "walk"}]
    /\ left \in [Broadcasters -> SUBSET PeerIds]
    /\ delivered \in [Broadcasters -> SUBSET PeerIds]
    /\ failed \in [Broadcasters -> BOOLEAN]
    /\ \A b \in Broadcasters :
         /\ Walking(b) <=> networkMutex = b
         /\ left[b] \subseteq peers
    /\ starting \in {"no", "synchronize", "measure"}
    /\ trespasses \in 0..MaxTrespasses
    /\ crashed \in BOOLEAN

\* A broadcast without a failed delivery reaches everybody who is a peer when it
\* ends, whatever the loop, the messages and the other broadcasts do, and whatever
\* start, addPeer and removePeer do to the peers, as long as none of these three
\* touches them during a section that the mutex guards.
DeliveredToAll ==
    \A b \in Broadcasters :
        Walking(b) /\ left[b] = {} /\ ~failed[b] /\ trespasses = 0
            => delivered[b] = peers

\* What is done under the mutex harms a walk over the peers in one way only: a
\* broadcast removes the peer that it could not reach.  Any other crash comes from
\* the accesses without the mutex: the rest of start, addPeer or removePeer.
CrashIsOwnOrUnlocked ==
    crashed => trespasses > 0 \/ \E b \in Broadcasters : Walking(b) /\ failed[b]

\* Whoever holds the mutex lets go of it some time, failed deliveries included,
\* unless the program crashed or a handler of the loop broadcast: then nobody
\* ever gets it again.
HolderReleases ==
    \A h \in Broadcasters \cup {loop} :
        networkMutex = h ~> (networkMutex # h \/ crashed \/ round = "blocked")
=============================================================================
