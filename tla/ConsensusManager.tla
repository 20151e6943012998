-------------------------- MODULE ConsensusManager --------------------------
(***************************************************************************)
(* class ConsensusManager (src/validation/consensus.cpp): rounds in which  *)
(* the active validators judge a block in parallel, one std::async task    *)
(* each, and the history of the rounds.  One thread uses the object.       *)
(***************************************************************************)
EXTENDS Validation

CONSTANTS
    MaxRequired,  \* bound: the constructor's requiredValidators
    MaxActive,    \* bound: registrations
    MaxRounds     \* bound: calls start only below this many rounds

ASSUME BoundsAssumption ==
    MaxRequired \in Nat /\ MaxActive \in Nat /\ MaxRounds \in Nat

VARIABLES
    requiredValidators,
    activeValidators,  \* a vector: the order is that of registration
    consensusHistory,  \* the rounds held
    pc,                \* where the thread is, "crashed" after undefined behaviour
    round,             \* the local round of achieveConsensus
    block,             \* the block being judged, Genesis when idle
    running,           \* indices of the validators whose task has not ended
    next,              \* the index whose future is waited for
    answer             \* what the last call gave back

call == <<pc, round, block, running, next>>
vars == <<requiredValidators, activeValidators, consensusHistory, call, answer>>

consensusThreshold == 75

Addresses == {v.address : v \in Validators}

\* Operators called ...Defect are variants of the definition that follows them,
\* each with a mistake that a property has to notice; nothing uses them.

\* A vote does not replace an earlier one (emplace instead of operator[]).
RecordDefect(votesMap, address, vote) ==
    [a \in DOMAIN votesMap \cup {address} |->
        IF a \in DOMAIN votesMap THEN votesMap[a] ELSE vote]

\* A map from addresses to votes is a function on some of the addresses.
NoVotes == [a \in {} |-> FALSE]
Record(votesMap, address, vote) ==
    [a \in DOMAIN votesMap \cup {address} |->
        IF a = address THEN vote ELSE votesMap[a]]

NoRound == [roundNumber |-> 0, blockHash |-> NoHash, validatorVotes |-> NoVotes,
            isComplete |-> FALSE]

Init ==
    /\ requiredValidators \in 0..MaxRequired
    /\ activeValidators = <<>>
    /\ consensusHistory = <<>>
    /\ pc = "idle"
    /\ round = NoRound
    /\ block = Genesis
    /\ running = {}
    /\ next = 1
    /\ answer = "none"

-----------------------------------------------------------------------------
(* Validator management: declared in consensus.hpp, defined nowhere *)

RegisterValidator(v) ==
    /\ pc = "idle"
    /\ Len(activeValidators) < MaxActive
    /\ activeValidators' = Append(activeValidators, v)
    /\ UNCHANGED <<requiredValidators, consensusHistory, call, answer>>

\* One registration of an address goes; a call that erases all of them is several
\* of these steps.
RemoveValidator(i) ==
    /\ pc = "idle"
    /\ i \in DOMAIN activeValidators
    /\ activeValidators' = SubSeq(activeValidators, 1, i - 1)
                             \o SubSeq(activeValidators, i + 1, Len(activeValidators))
    /\ UNCHANGED <<requiredValidators, consensusHistory, call, answer>>

-----------------------------------------------------------------------------
(* achieveConsensus *)

Return(result) ==
    /\ pc' = "idle"
    /\ answer' = result
    /\ round' = NoRound
    /\ block' = Genesis
    /\ running' = {}
    /\ next' = 1

\* Starting the tasks: one per validator, all running before the first wait.
Launch(b) ==
    /\ pc' = "collect"
    /\ block' = b
    /\ running' = DOMAIN activeValidators
    /\ next' = 1
    /\ answer' = "none"

\* The number of validators is not checked.
AchieveConsensusDefect(b) ==
    /\ pc = "idle"
    /\ Len(consensusHistory) < MaxRounds
    /\ round' = [roundNumber    |-> Len(consensusHistory),
                  blockHash      |-> b.hash,
                  validatorVotes |-> NoVotes,
                  isComplete     |-> FALSE]
    /\ Launch(b)
    /\ UNCHANGED <<requiredValidators, activeValidators, consensusHistory>>

AchieveConsensus(b) ==
    /\ pc = "idle"
    /\ Len(consensusHistory) < MaxRounds
    /\ IF Len(activeValidators) < requiredValidators
       THEN Return("false")
       ELSE /\ round' = [roundNumber    |-> Len(consensusHistory),
                         blockHash      |-> b.hash,
                         validatorVotes |-> NoVotes,
                         isComplete     |-> FALSE]
            /\ Launch(b)
    /\ UNCHANGED <<requiredValidators, activeValidators, consensusHistory>>

\* collectValidatorVotes is public as well; NoRound tells such a call apart.
CollectValidatorVotes(b) ==
    /\ pc = "idle"
    /\ Launch(b)
    /\ UNCHANGED <<requiredValidators, activeValidators, consensusHistory, round>>

\* The tasks end in any order.
EndTask(i) ==
    /\ i \in running
    /\ running' = running \ {i}
    /\ UNCHANGED <<requiredValidators, activeValidators, consensusHistory, pc,
                   round, block, next, answer>>

\* std::async throws when no thread can be started; the futures of the tasks
\* that were started wait for them on the way out.
LaunchFails ==
    /\ pc = "collect"
    /\ next = 1
    /\ activeValidators # <<>>
    /\ running = {}
    /\ Return("exception")
    /\ UNCHANGED <<requiredValidators, activeValidators, consensusHistory>>

\* The result is taken without waiting for the task.
CollectVoteEarlyDefect ==
    /\ pc = "collect"
    /\ next \in DOMAIN activeValidators
    /\ consensusHistory # <<>>
    /\ consensusHistory' =
         [consensusHistory EXCEPT ![Len(consensusHistory)].validatorVotes =
             Record(@, activeValidators[next].address,
                    Approves(activeValidators[next], block))]
    /\ next' = next + 1
    /\ UNCHANGED <<requiredValidators, activeValidators, pc, round, block, running, answer>>

\* The vote goes where it is counted, into the round under way.
CollectVoteRoundDefect ==
    /\ pc = "collect"
    /\ next \in DOMAIN activeValidators
    /\ next \notin running
    /\ round' = [round EXCEPT !.validatorVotes =
                     Record(@, activeValidators[next].address,
                            Approves(activeValidators[next], block))]
    /\ next' = next + 1
    /\ UNCHANGED <<requiredValidators, activeValidators, consensusHistory, pc,
                   block, running, answer>>

\* The vote goes into consensusHistory.back(), the previous round, since this
\* one is pushed only later; back() of an empty vector is undefined and the
\* write through it lands outside any object.
CollectVote ==
    /\ pc = "collect"
    /\ next \in DOMAIN activeValidators
    /\ next \notin running
    /\ IF consensusHistory = <<>>
       THEN /\ pc' = "crashed"
            /\ UNCHANGED <<consensusHistory, next>>
       ELSE LET v == activeValidators[next]
            IN  /\ consensusHistory' =
                     [consensusHistory EXCEPT ![Len(consensusHistory)].validatorVotes =
                         Record(@, v.address, Approves(v, block))]
                /\ next' = next + 1
                /\ UNCHANGED pc
    /\ UNCHANGED <<requiredValidators, activeValidators, round, block, running, answer>>

\* positiveVotes * 100.0 / activeValidators.size() >= threshold; 0/0 is a NaN.
Achieved(votesMap) ==
    /\ activeValidators # <<>>
    /\ Cardinality({a \in DOMAIN votesMap : votesMap[a]}) * 100
         >= consensusThreshold * Len(activeValidators)

\* The loop goes on for one future more than there are.
CompleteRoundDefect ==
    /\ pc = "collect"
    /\ next > Len(activeValidators) + 1
    /\ Return("false")
    /\ UNCHANGED <<requiredValidators, activeValidators, consensusHistory>>

CompleteRound ==
    /\ pc = "collect"
    /\ next > Len(activeValidators)
    /\ IF round = NoRound
       THEN Return("none") /\ UNCHANGED consensusHistory
       ELSE /\ consensusHistory' =
                 Append(consensusHistory, [round EXCEPT !.isComplete = TRUE])
            /\ Return(IF Achieved(round.validatorVotes) THEN "true" ELSE "false")
    /\ UNCHANGED <<requiredValidators, activeValidators>>

-----------------------------------------------------------------------------
Proposals == {Block(s, txs, Genesis.hash) : s \in Stamps, txs \in BlockBodies}

Caller == CollectVote \/ CompleteRound

Next ==
    \/ \E v \in Validators : RegisterValidator(v)
    \/ \E i \in DOMAIN activeValidators : RemoveValidator(i)
    \/ \E b \in Proposals : AchieveConsensus(b) \/ CollectValidatorVotes(b)
    \/ \E i \in running : EndTask(i)
    \/ LaunchFails
    \/ Caller

Spec == Init /\ [][Next]_vars

\* A started task runs to its end, and the thread that waits for it goes on.
FairSpec ==
    /\ Spec
    /\ WF_vars(Caller)
    /\ \A i \in 1..MaxActive : WF_vars(EndTask(i))
-----------------------------------------------------------------------------
(* Properties *)

VoteMaps == UNION {[A -> BOOLEAN] : A \in SUBSET Addresses}

ConsensusRound ==
    [roundNumber    : Nat,
     blockHash      : {b.hash : b \in Proposals \cup {Genesis}} \cup {NoHash},
     validatorVotes : VoteMaps,
     isComplete     : BOOLEAN]

\* The type invariant.  The futures that were already read belong to tasks that
\* have ended, and an idle object holds nothing of an earlier call.
TypeOK ==
    /\ requiredValidators \in Nat
    /\ activeValidators \in Seq(Validators)
    /\ consensusHistory \in Seq(ConsensusRound)
    /\ pc \in {"idle", "collect", "crashed"}
    /\ round \in ConsensusRound
    /\ block \in Proposals \cup {Genesis}
    /\ next \in 1..(Len(activeValidators) + 1)
    /\ running \subseteq next..Len(activeValidators)
    /\ answer \in {"none", "true", "false", "exception"}
    /\ pc = "idle" => round = NoRound /\ block = Genesis /\ running = {} /\ next = 1

\* Consensus is never reached: the votes that decide a round are looked up in the
\* round itself, which no vote is ever written to.
NeverAchieved == answer # "true"

\* Since the first vote of an object without history is undefined behaviour, a
\* history can only begin with a round that nobody had to vote in.
HistoryBeginsWithoutVotes == consensusHistory # <<>> => requiredValidators = 0

\* When all futures were read, the last entry of the history holds the votes on
\* the block that is judged now, whatever the order in which the tasks ended: of
\* two registrations with one address, the later one, and nothing stale of an
\* earlier block for any active validator.
VotesAreOnThisBlock ==
    pc = "collect" /\ next > Len(activeValidators) =>
        \A i \in DOMAIN activeValidators :
            \/ \E j \in i + 1..Len(activeValidators) :
                 activeValidators[j].address = activeValidators[i].address
            \/ LET cast == consensusHistory[Len(consensusHistory)].validatorVotes
                    v == activeValidators[i]
                IN  /\ v.address \in DOMAIN cast
                    /\ cast[v.address] = Approves(v, block)

\* A call does not wait for ever: it returns, or it crashes.
CallEnds == pc = "collect" ~> pc # "collect"

\* The comments "Collect votes from validators" and "Calculate consensus" say
\* what achieveConsensus is for: when at least the required number of validators
\* is active and all of them approve, the answer is yes.
UnanimityAchieves ==
    [][(/\ pc = "collect"
        /\ round # NoRound
        /\ activeValidators # <<>>
        /\ \A i \in DOMAIN activeValidators : Approves(activeValidators[i], block)
        /\ pc' = "idle")
       => answer' \in {"true", "exception"}]_vars
=============================================================================
