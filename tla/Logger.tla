------------------------------- MODULE Logger -------------------------------
(***************************************************************************)
(* class Logger (src/utils/logger.cpp): a singleton that is created on its *)
(* first use with double-checked locking, a queue of messages guarded by   *)
(* queueMutex, and a thread that writes the queue to a file.               *)
(*                                                                         *)
(* A step is a section of code between two points where another thread     *)
(* can come in: the lock operations, and the reads and writes of instance, *)
(* running and minLevel, which no mutex guards.                            *)
(***************************************************************************)
EXTENDS Naturals, Sequences

CONSTANTS
    Users,        \* threads that log
    Levels,       \* the levels in use, as numbers (LogLevel is an enumeration)
    MaxMessages,  \* bound: messages logged by all users together
    MaxSpurious,  \* bound: spurious wake-ups of the condition variable
    MaxStarts     \* bound: calls of startAsyncLogging

ASSUME BoundsAssumption ==
    /\ MaxMessages \in Nat /\ MaxSpurious \in Nat /\ MaxStarts \in Nat
    /\ Levels \subseteq Nat

INFO == 1

\* Who may hold a mutex.
worker == "worker"
stopper == "stopper"
nobody == "nobody"
ASSUME ThreadsAssumption == {worker, stopper, nobody} \cap Users = {}

VARIABLES
    instance,       \* whether the static pointer is set
    constructed,    \* how many constructors have run to their end
    instanceMutex,  \* the holder
    queueMutex,     \* the holder
    messageQueue,
    minLevel,
    running,
    pc,             \* user -> where its LOG macro is
    message,        \* user -> what it is logging
    logged,         \* calls of log so far
    thread,         \* where loggingThread is
    hand,           \* the message it has popped, as a sequence of length 0 or 1
    file,           \* the lines of logFile
    stop,           \* where the call of stopAsyncLogging is
    starts,         \* calls of startAsyncLogging
    spurious,       \* spurious wake-ups so far
    crashed,        \* an object was used that is not constructed yet
    pushed          \* history: all that was ever put into the queue

creation == <<instance, constructed, instanceMutex>>
queue == <<queueMutex, messageQueue, pushed>>
user == <<pc, message, logged>>
writer == <<thread, hand, file, spurious>>
switch == <<running, stop, starts>>
vars == <<creation, queue, user, writer, switch, minLevel, crashed>>

NoMessage == [number |-> 0, level |-> 0]

Init ==
    /\ instance = FALSE
    /\ constructed = 0
    /\ instanceMutex = nobody
    /\ queueMutex = nobody
    /\ messageQueue = <<>>
    /\ minLevel = INFO
    /\ running = FALSE
    /\ pc = [u \in Users |-> "idle"]
    /\ message = [u \in Users |-> NoMessage]
    /\ logged = 0
    /\ thread = "none"
    /\ hand = <<>>
    /\ file = <<>>
    /\ stop = "none"
    /\ starts = 0
    /\ spurious = 0
    /\ crashed = FALSE
    /\ pushed = <<>>

Goto(u, label) == pc' = [pc EXCEPT ![u] = label]

\* Operators called ...Defect are variants of the definition that follows them,
\* each with a mistake that a property has to notice; nothing uses them.

-----------------------------------------------------------------------------
(* getInstance *)

\* The macro, and the first check, which takes no lock.
Call(u, level) ==
    /\ pc[u] = "idle"
    /\ logged < MaxMessages
    /\ message' = [message EXCEPT ![u] = [number |-> logged + 1, level |-> level]]
    /\ logged' = logged + 1
    /\ Goto(u, IF instance THEN "log" ELSE "lock")
    /\ UNCHANGED <<creation, queue, writer, switch, minLevel, crashed>>

\* The lock, without the second check.
SecondCheckDefect(u) ==
    /\ pc[u] = "lock"
    /\ instanceMutex = nobody
    /\ Goto(u, "construct")
    /\ instanceMutex' = u
    /\ UNCHANGED <<instance, constructed, queue, message, logged, writer, switch,
                   minLevel, crashed>>

\* The lock and the second check; the lock is released at once if it fails.
SecondCheck(u) ==
    /\ pc[u] = "lock"
    /\ instanceMutex = nobody
    /\ IF instance
       THEN Goto(u, "log") /\ UNCHANGED instanceMutex
       ELSE Goto(u, "construct") /\ instanceMutex' = u
    /\ UNCHANGED <<instance, constructed, queue, message, logged, writer, switch,
                   minLevel, crashed>>

\* The constructor; startAsyncLogging, declared only, sets running and starts
\* the thread.
Construct(u) ==
    /\ pc[u] = "construct"
    /\ constructed' = constructed + 1
    /\ minLevel' = INFO
    /\ running' = TRUE
    /\ thread' = "loop"
    /\ starts' = starts + 1
    /\ Goto(u, "publish")
    /\ UNCHANGED <<instance, instanceMutex, queue, message, logged, hand, file,
                   spurious, stop, crashed>>

\* The pointer is not atomic: the other threads may see it set before they see
\* the object that it points to complete.
SeenEarly(u) ==
    /\ pc[u] = "construct"
    /\ instance' = TRUE
    /\ UNCHANGED <<constructed, instanceMutex, queue, user, writer, switch,
                   minLevel, crashed>>

Publish(u) ==
    /\ pc[u] = "publish"
    /\ instance' = TRUE
    /\ instanceMutex' = nobody
    /\ Goto(u, "log")
    /\ UNCHANGED <<constructed, queue, message, logged, writer, switch, minLevel,
                   crashed>>

-----------------------------------------------------------------------------
(* log *)

CheckLevel(u) ==
    /\ pc[u] = "log"
    /\ crashed' = (constructed = 0)
    /\ Goto(u, IF message[u].level < minLevel THEN "idle" ELSE "push")
    /\ UNCHANGED <<creation, queue, message, logged, writer, switch, minLevel>>

\* The critical section: lock, push, unlock.
PushMessage(u) ==
    /\ pc[u] = "push"
    /\ queueMutex = nobody
    /\ messageQueue' = Append(messageQueue, message[u])
    /\ pushed' = Append(pushed, message[u])
    /\ Goto(u, "notify")
    /\ UNCHANGED <<creation, queueMutex, message, logged, writer, switch, minLevel,
                   crashed>>

\* notify_one wakes the thread if it waits and is lost if it does not; the
\* line on the console ends the call.
Wake == thread' = IF thread = "waiting" THEN "woken" ELSE thread

\* The thread is not told.
NotifyDefect(u) ==
    /\ pc[u] = "notify"
    /\ Goto(u, "idle")
    /\ UNCHANGED <<creation, queue, message, logged, writer, switch, minLevel, crashed>>

Notify(u) ==
    /\ pc[u] = "notify"
    /\ Wake
    /\ Goto(u, "idle")
    /\ UNCHANGED <<creation, queue, message, logged, hand, file, spurious, switch,
                   minLevel, crashed>>

SetMinLevel(level) ==
    /\ constructed > 0
    /\ minLevel' = level
    /\ UNCHANGED <<creation, queue, user, writer, switch, crashed>>

-----------------------------------------------------------------------------
(* processLogQueue *)

Loop ==
    /\ thread = "loop"
    /\ thread' = IF running THEN "lock" ELSE "ended"
    /\ UNCHANGED <<creation, queue, user, hand, file, spurious, switch, minLevel, crashed>>

\* The lock of the loop, and the one that wait takes again when it is woken.
LockQueue ==
    /\ thread \in {"lock", "woken"}
    /\ queueMutex = nobody
    /\ queueMutex' = worker
    /\ thread' = "predicate"
    /\ UNCHANGED <<creation, messageQueue, pushed, user, hand, file, spurious, switch,
                   minLevel, crashed>>

\* Only a message ends the wait.
PredicateDefect ==
    /\ thread = "predicate"
    /\ thread' = IF messageQueue # <<>> THEN "drain" ELSE "block"
    /\ UNCHANGED <<creation, queue, user, hand, file, spurious, switch, minLevel, crashed>>

Predicate ==
    /\ thread = "predicate"
    /\ thread' = IF messageQueue # <<>> \/ ~running THEN "drain" ELSE "block"
    /\ UNCHANGED <<creation, queue, user, hand, file, spurious, switch, minLevel, crashed>>

\* It goes to sleep with the mutex.
BlockDefect ==
    /\ thread = "block"
    /\ thread' = "waiting"
    /\ UNCHANGED <<creation, queue, user, hand, file, spurious, switch, minLevel, crashed>>

\* The thread lets go of the mutex and sleeps, as one step; running may have
\* changed since the predicate was evaluated.
Block ==
    /\ thread = "block"
    /\ queueMutex' = nobody
    /\ thread' = "waiting"
    /\ UNCHANGED <<creation, messageQueue, pushed, user, hand, file, spurious, switch,
                   minLevel, crashed>>

SpuriousWakeUp ==
    /\ thread = "waiting"
    /\ spurious < MaxSpurious
    /\ thread' = "woken"
    /\ spurious' = spurious + 1
    /\ UNCHANGED <<creation, queue, user, hand, file, switch, minLevel, crashed>>

\* pop before front.
PopDefect ==
    /\ thread = "drain"
    /\ messageQueue # <<>>
    /\ hand' = IF Len(messageQueue) > 1 THEN <<messageQueue[2]>> ELSE <<messageQueue[1]>>
    /\ messageQueue' = Tail(messageQueue)
    /\ thread' = "write"
    /\ UNCHANGED <<creation, queueMutex, pushed, user, file, spurious, switch,
                   minLevel, crashed>>

Pop ==
    /\ thread = "drain"
    /\ messageQueue # <<>>
    /\ hand' = <<Head(messageQueue)>>
    /\ messageQueue' = Tail(messageQueue)
    /\ thread' = "write"
    /\ UNCHANGED <<creation, queueMutex, pushed, user, file, spurious, switch,
                   minLevel, crashed>>

\* Under logMutex, which nobody else takes, and with queueMutex still held.
Write ==
    /\ thread = "write"
    /\ file' = file \o hand
    /\ hand' = <<>>
    /\ thread' = "drain"
    /\ UNCHANGED <<creation, queue, user, spurious, switch, minLevel, crashed>>

Unlock ==
    /\ thread = "drain"
    /\ messageQueue = <<>>
    /\ queueMutex' = nobody
    /\ thread' = "loop"
    /\ UNCHANGED <<creation, messageQueue, pushed, user, hand, file, spurious, switch,
                   minLevel, crashed>>

-----------------------------------------------------------------------------
(* stopAsyncLogging and startAsyncLogging are declared only.  They are modelled  *)
(* as the loop demands them: the flag is cleared under the mutex of the        *)
(* condition, the thread is woken and joined; a start undoes that.             *)

StopCalled ==
    /\ stop = "none"
    /\ constructed > 0
    /\ running
    /\ stop' = "clear"
    /\ UNCHANGED <<creation, queue, user, writer, running, starts, minLevel, crashed>>

StopClear ==
    /\ stop = "clear"
    /\ queueMutex = nobody
    /\ running' = FALSE
    /\ stop' = "notify"
    /\ UNCHANGED <<creation, queue, user, writer, starts, minLevel, crashed>>

StopNotify ==
    /\ stop = "notify"
    /\ Wake
    /\ stop' = "join"
    /\ UNCHANGED <<creation, queue, user, hand, file, spurious, running, starts,
                   minLevel, crashed>>

StopJoined ==
    /\ stop = "join"
    /\ thread = "ended"
    /\ thread' = "none"
    /\ stop' = "none"
    /\ UNCHANGED <<creation, queue, user, hand, file, spurious, running, starts,
                   minLevel, crashed>>

StartAgain ==
    /\ stop = "none"
    /\ thread = "none"
    /\ constructed > 0
    /\ starts < MaxStarts
    /\ running' = TRUE
    /\ thread' = "loop"
    /\ starts' = starts + 1
    /\ UNCHANGED <<creation, queue, user, hand, file, spurious, stop, minLevel, crashed>>

-----------------------------------------------------------------------------
UserStep(u) ==
    \/ SecondCheck(u)
    \/ Construct(u)
    \/ Publish(u)
    \/ CheckLevel(u)
    \/ PushMessage(u)
    \/ Notify(u)

Worker == Loop \/ LockQueue \/ Predicate \/ Block \/ Pop \/ Write \/ Unlock

Stopper == StopClear \/ StopNotify \/ StopJoined

Next ==
    /\ ~crashed
    /\ \/ \E u \in Users :
            \/ \E level \in Levels : Call(u, level)
            \/ UserStep(u)
            \/ SeenEarly(u)
       \/ \E level \in Levels : SetMinLevel(level)
       \/ Worker
       \/ SpuriousWakeUp
       \/ StopCalled
       \/ Stopper
       \/ StartAgain

Spec == Init /\ [][Next]_vars

\* Threads that can go on do.  Nobody has to log, to stop or to start.
FairSpec ==
    /\ Spec
    /\ \A u \in Users : WF_vars(~crashed /\ UserStep(u))
    /\ WF_vars(~crashed /\ Worker)
    /\ WF_vars(~crashed /\ Stopper)
-----------------------------------------------------------------------------
(* Properties *)

Message == [number : 1..MaxMessages, level : Levels]

\* The type invariant, with the thread that holds each mutex.
TypeOK ==
    /\ instance \in BOOLEAN
    /\ constructed \in Nat
    /\ instanceMutex \in Users \cup {nobody}
    /\ \A u \in Users : pc[u] \in {"construct", "publish"} => instanceMutex = u
    /\ queueMutex \in {worker, nobody}
    /\ queueMutex = worker <=> thread \in {"predicate", "block", "drain", "write"}
    /\ messageQueue \in Seq(Message)
    /\ minLevel \in Levels \cup {INFO}
    /\ running \in BOOLEAN
    /\ pc \in [Users -> {"idle", "lock", "construct", "publish", "log", "push", "notify"}]
    /\ message \in [Users -> Message \cup {NoMessage}]
    /\ logged \in 0..MaxMessages
    /\ thread \in {"none", "loop", "lock", "predicate", "block", "waiting", "woken",
                   "drain", "write", "ended"}
    /\ hand \in Seq(Message)
    /\ Len(hand) = IF thread = "write" THEN 1 ELSE 0
    /\ file \in Seq(Message)
    /\ stop \in {"none", "clear", "notify", "join"}
    /\ starts \in Nat
    /\ spurious \in 0..MaxSpurious
    /\ crashed \in BOOLEAN
    /\ pushed \in Seq(Message)

\* Whatever the interleaving and however often logging is stopped and started,
\* what was queued is in the file, in the writer's hand or still in the queue:
\* in the order of the calls, no line lost and none twice.
NothingLostOrReordered == file \o hand \o messageQueue = pushed

\* The second check under the lock makes up for the first one without: only one
\* object is ever constructed, and one at a time is being constructed.
OneInstance ==
    /\ constructed <= 1
    /\ \A u, v \in Users :
         pc[u] = "construct" => constructed = 0 /\ (pc[v] = "construct" => u = v)

\* No wake-up of a message is lost: a queued message is written unless logging
\* is stopped first (the loop ends on running alone and leaves the queue as it
\* is) or the program fell over an object that was not complete.
EveryMessageWritten ==
    \A n \in 1..MaxMessages :
        (\E i \in DOMAIN pushed : pushed[i].number = n)
        ~> (\/ \E i \in DOMAIN file : file[i].number = n
            \/ ~running
            \/ crashed)

\* A stop that clears the flag under queueMutex always gets to join the thread.
\* Without the mutex the flag may change between the predicate and the sleep,
\* and the thread sleeps for ever.
StopReturns == stop = "clear" ~> (stop = "none" \/ crashed)
=============================================================================
