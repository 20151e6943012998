--------------------------- MODULE ConsensusProofs --------------------------
(***************************************************************************)
(* Theorems about ConsensusManager, for any validators, any required       *)
(* number of them, any blocks and histories of any length.                 *)
(***************************************************************************)
EXTENDS ConsensusManager, FiniteSetTheorems, SequenceTheorems, TLAPS

\* Recording a vote keeps a map of votes one.
LEMMA RecordType ==
    ASSUME NEW votesMap \in VoteMaps, NEW a \in Addresses, NEW vote \in BOOLEAN
    PROVE  Record(votesMap, a, vote) \in VoteMaps
<1>1. PICK A \in SUBSET Addresses : votesMap \in [A -> BOOLEAN]
  BY DEF VoteMaps
<1>2. Record(votesMap, a, vote) \in [A \cup {a} -> BOOLEAN]
  BY <1>1 DEF Record
<1>. QED  BY <1>1, <1>2 DEF VoteMaps

LEMMA NoRoundType == NoRound \in ConsensusRound
<1>1. NoVotes \in [{} -> BOOLEAN]
  BY DEF NoVotes
<1>2. NoVotes \in VoteMaps
  BY <1>1 DEF VoteMaps
<1>. QED  BY <1>2 DEF NoRound, ConsensusRound

\* A vote is a truth value.
LEMMA ApprovesType == \A v, b : Approves(v, b) \in BOOLEAN
BY DEF Approves

LEMMA ReturnType ==
    ASSUME TypeOK, NEW result \in {"none", "true", "false", "exception"},
           Return(result), UNCHANGED <<requiredValidators, activeValidators>>,
           consensusHistory' \in Seq(ConsensusRound)
    PROVE  TypeOK'
<1>1. Len(activeValidators) \in Nat
  BY EmptySeq, LenProperties DEF TypeOK
<1>. QED  BY <1>1, NoRoundType DEF TypeOK, Return

LEMMA TypeInit == Init => TypeOK
<1>. SUFFICES ASSUME Init PROVE TypeOK
  OBVIOUS
<1>1. /\ <<>> \in Seq(Validators) /\ Len(<<>>) = 0
      /\ <<>> \in Seq(ConsensusRound)
  OBVIOUS
<1>. QED  BY <1>1, NoRoundType, BoundsAssumption DEF Init, TypeOK

LEMMA TypeNext == TypeOK /\ [Next]_vars => TypeOK'
<1>. SUFFICES ASSUME TypeOK, [Next]_vars PROVE TypeOK'
  OBVIOUS
<1>0. Len(activeValidators) \in Nat /\ DOMAIN activeValidators = 1..Len(activeValidators)
  BY LenProperties DEF TypeOK
<1>1. ASSUME NEW v \in Validators, RegisterValidator(v) PROVE TypeOK'
  <2>1. /\ activeValidators' \in Seq(Validators)
        /\ Len(activeValidators') = Len(activeValidators) + 1
    BY <1>1, AppendProperties DEF RegisterValidator, TypeOK
  <2>. QED  BY <1>0, <1>1, <2>1 DEF RegisterValidator, call, TypeOK
<1>2. ASSUME NEW i \in DOMAIN activeValidators, RemoveValidator(i) PROVE TypeOK'
  <2>. DEFINE front == SubSeq(activeValidators, 1, i - 1)
              back == SubSeq(activeValidators, i + 1, Len(activeValidators))
  <2>1. front \in Seq(Validators) /\ back \in Seq(Validators)
    BY <1>0, SubSeqProperties DEF TypeOK
  <2>2. activeValidators' = front \o back
    BY <1>2 DEF RemoveValidator
  <2>. HIDE DEF front, back
  <2>3. activeValidators' \in Seq(Validators) /\ Len(activeValidators') \in Nat
    BY <2>1, <2>2, ConcatProperties, LenProperties
  <2>. QED  BY <1>2, <2>3 DEF RemoveValidator, call, TypeOK
<1>3. ASSUME NEW b \in Proposals, AchieveConsensus(b) PROVE TypeOK'
  <2>1. CASE Len(activeValidators) < requiredValidators
    BY <1>3, <2>1, ReturnType DEF AchieveConsensus, TypeOK
  <2>2. CASE ~(Len(activeValidators) < requiredValidators)
    <3>1. NoVotes \in VoteMaps
      BY NoRoundType DEF NoRound, ConsensusRound
    <3>2. Len(consensusHistory) \in Nat
      BY LenProperties DEF TypeOK
    <3>3. round' \in ConsensusRound
      <4>. DEFINE hashes == {p.hash : p \in Proposals \cup {Genesis}} \cup {NoHash}
      <4>1. b.hash \in hashes
        OBVIOUS
      <4>2. round' = [roundNumber |-> Len(consensusHistory), blockHash |-> b.hash,
                      validatorVotes |-> NoVotes, isComplete |-> FALSE]
        BY <1>3, <2>2 DEF AchieveConsensus
      <4>3. ConsensusRound = [roundNumber : Nat, blockHash : hashes,
                              validatorVotes : VoteMaps, isComplete : BOOLEAN]
        BY DEF ConsensusRound
      <4>. HIDE DEF hashes
      <4>. QED  BY <3>1, <3>2, <4>1, <4>2, <4>3
    <3>. QED  BY <1>0, <1>3, <2>2, <3>3 DEF AchieveConsensus, Launch, TypeOK
  <2>. QED  BY <2>1, <2>2
<1>4. ASSUME NEW b \in Proposals, CollectValidatorVotes(b) PROVE TypeOK'
  BY <1>0, <1>4 DEF CollectValidatorVotes, Launch, TypeOK
<1>5. ASSUME NEW i \in running, EndTask(i) PROVE TypeOK'
  BY <1>5 DEF EndTask, TypeOK
<1>6. CASE LaunchFails
  BY <1>6, ReturnType DEF LaunchFails, TypeOK
<1>7. CASE CollectVote
  <2>1. CASE consensusHistory = <<>>
    BY <1>7, <2>1 DEF CollectVote, TypeOK
  <2>2. CASE consensusHistory # <<>>
    <3>. DEFINE v == activeValidators[next]
                last == Len(consensusHistory)
                cast == Record(consensusHistory[last].validatorVotes,
                               v.address, Approves(v, block))
    <3>1. v \in Validators /\ v.address \in Addresses
      BY <1>0, <1>7, ElementOfSeq DEF CollectVote, TypeOK, Addresses
    <3>2. last \in 1..last /\ consensusHistory[last] \in ConsensusRound
      BY <2>2, EmptySeq, ElementOfSeq DEF TypeOK
    <3>3. cast \in VoteMaps
      BY <3>1, <3>2, RecordType, ApprovesType DEF ConsensusRound
    <3>4. consensusHistory' =
            [consensusHistory EXCEPT ![last] = [consensusHistory[last] EXCEPT !.validatorVotes = cast]]
      BY <1>7, <2>2 DEF CollectVote
    <3>. HIDE DEF v, last, cast
    <3>5. [consensusHistory[last] EXCEPT !.validatorVotes = cast] \in ConsensusRound
      BY <3>2, <3>3 DEF ConsensusRound
    <3>6. consensusHistory' \in Seq(ConsensusRound)
      BY <3>2, <3>4, <3>5, ExceptSeq DEF TypeOK, last
    <3>7. next' \in 1..(Len(activeValidators) + 1)
          /\ running \subseteq next'..Len(activeValidators)
      BY <1>0, <1>7, <2>2 DEF CollectVote, TypeOK
    <3>. QED  BY <1>7, <2>2, <3>6, <3>7 DEF CollectVote, TypeOK
  <2>. QED  BY <2>1, <2>2
<1>8. CASE CompleteRound
  <2>1. consensusHistory' \in Seq(ConsensusRound)
    <3>1. [round EXCEPT !.isComplete = TRUE] \in ConsensusRound
      BY DEF TypeOK, ConsensusRound
    <3>. QED  BY <1>8, <3>1, AppendProperties DEF CompleteRound, TypeOK
  <2>. QED  BY <1>8, <2>1, ReturnType DEF CompleteRound
<1>9. CASE UNCHANGED vars
  BY <1>9 DEF vars, call, TypeOK
<1>. QED
  BY <1>1, <1>2, <1>3, <1>4, <1>5, <1>6, <1>7, <1>8, <1>9 DEF Next, Caller

\* In particular the collector never reads a future twice or out of its range.
THEOREM TypeCorrect == Spec => []TypeOK
BY TypeInit, TypeNext, PTL DEF Spec

-----------------------------------------------------------------------------
\* The round under way holds no votes, and a round is under way only when enough
\* validators are active; a history that began at all began without a wait.
RoundInv ==
    /\ NeverAchieved
    /\ HistoryBeginsWithoutVotes
    /\ round.validatorVotes = NoVotes
    /\ round # NoRound /\ pc # "crashed" =>
         Len(activeValidators) >= requiredValidators
    /\ pc = "collect" /\ next # 1 => consensusHistory # <<>>

\* A round without votes does not achieve anything.
LEMMA NothingAchieved == TypeOK => ~Achieved(NoVotes)
<1>. SUFFICES ASSUME TypeOK, activeValidators # <<>>
              PROVE  ~(Cardinality({}) * 100 >= consensusThreshold * Len(activeValidators))
  <2>1. {a \in DOMAIN NoVotes : NoVotes[a]} = {}
    BY DEF NoVotes
  <2>. QED  BY <2>1 DEF Achieved
<1>1. Len(activeValidators) \in Nat \ {0}
  BY EmptySeq DEF TypeOK
<1>. QED  BY <1>1, FS_EmptySet DEF consensusThreshold

LEMMA RoundNext == TypeOK /\ RoundInv /\ [Next]_vars => RoundInv'
<1>. SUFFICES ASSUME TypeOK, RoundInv, [Next]_vars PROVE RoundInv'
  OBVIOUS
<1>. USE DEF RoundInv, NeverAchieved, HistoryBeginsWithoutVotes
<1>0. Len(activeValidators) \in Nat /\ DOMAIN activeValidators = 1..Len(activeValidators)
      /\ requiredValidators \in Nat /\ NoRound.validatorVotes = NoVotes
  BY LenProperties DEF TypeOK, NoRound
<1>1. ASSUME NEW v \in Validators, RegisterValidator(v) PROVE RoundInv'
  BY <1>1 DEF RegisterValidator, call, TypeOK
<1>2. ASSUME NEW i \in DOMAIN activeValidators, RemoveValidator(i) PROVE RoundInv'
  BY <1>2 DEF RemoveValidator, call, TypeOK
<1>3. ASSUME NEW b \in Proposals, AchieveConsensus(b) PROVE RoundInv'
  BY <1>0, <1>3 DEF AchieveConsensus, Launch, Return, TypeOK
<1>4. ASSUME NEW b \in Proposals, CollectValidatorVotes(b) PROVE RoundInv'
  BY <1>4 DEF CollectValidatorVotes, Launch, TypeOK
<1>5. ASSUME NEW i \in running, EndTask(i) PROVE RoundInv'
  BY <1>5 DEF EndTask
<1>6. CASE LaunchFails
  BY <1>0, <1>6 DEF LaunchFails, Return
<1>7. CASE CollectVote
  BY <1>7, ExceptSeq DEF CollectVote, TypeOK
<1>8. CASE CompleteRound
  <2>1. answer' # "true"
    BY <1>8, NothingAchieved DEF CompleteRound, Return
  <2>2. CASE round = NoRound
    BY <1>0, <1>8, <2>1, <2>2 DEF CompleteRound, Return
  <2>3. CASE round # NoRound /\ consensusHistory # <<>>
    BY <1>0, <1>8, <2>1, <2>3 DEF CompleteRound, Return
  <2>4. CASE round # NoRound /\ consensusHistory = <<>>
    <3>1. next = 1 /\ next > Len(activeValidators)
      BY <1>8, <2>4 DEF CompleteRound
    <3>2. requiredValidators = 0
      BY <1>0, <1>8, <2>4, <3>1 DEF CompleteRound
    <3>. QED  BY <1>0, <1>8, <2>1, <2>4, <3>2 DEF CompleteRound, Return
  <2>. QED  BY <2>2, <2>3, <2>4
<1>9. CASE UNCHANGED vars
  BY <1>9 DEF vars, call
<1>. QED
  BY <1>1, <1>2, <1>3, <1>4, <1>5, <1>6, <1>7, <1>8, <1>9 DEF Next, Caller

LEMMA RoundSafe == Spec => []RoundInv
<1>1. Init => RoundInv
  BY DEF Init, RoundInv, NoRound, NeverAchieved, HistoryBeginsWithoutVotes
<1>. QED  BY <1>1, TypeCorrect, RoundNext, PTL DEF Spec

\* However many validators there are and however they vote, achieveConsensus
\* never says yes.
THEOREM ConsensusNever == Spec => []NeverAchieved
<1>1. RoundInv => NeverAchieved
  BY DEF RoundInv
<1>. QED  BY <1>1, RoundSafe, PTL

\* An object that requires at least one validator never completes a round: its
\* first vote is undefined behaviour.
THEOREM NoHistory == Spec => []HistoryBeginsWithoutVotes
<1>1. RoundInv => HistoryBeginsWithoutVotes
  BY DEF RoundInv
<1>. QED  BY <1>1, RoundSafe, PTL

-----------------------------------------------------------------------------
\* Of the validators whose future was read, each one that has no later
\* registration among them has its vote on this block in the last round.
Cast == consensusHistory[Len(consensusHistory)].validatorVotes

Voted(i) ==
    \/ \E j \in i + 1..next - 1 :
         activeValidators[j].address = activeValidators[i].address
    \/ /\ activeValidators[i].address \in DOMAIN Cast
       /\ Cast[activeValidators[i].address] = Approves(activeValidators[i], block)

VotesInv == pc = "collect" => \A i \in 1..next - 1 : Voted(i)

\* A vote enters the last round and leaves the votes of other addresses alone.
LEMMA CastVote ==
    ASSUME TypeOK, CollectVote, consensusHistory # <<>>,
           NEW v, v = activeValidators[next]
    PROVE  /\ v.address \in DOMAIN Cast'
           /\ Cast'[v.address] = Approves(v, block)
           /\ \A a \in DOMAIN Cast : a \in DOMAIN Cast' /\ (a # v.address => Cast'[a] = Cast[a])
<1>. DEFINE last == Len(consensusHistory)
            recorded == Record(Cast, v.address, Approves(v, block))
<1>1. last \in 1..last /\ consensusHistory[last] \in ConsensusRound
  BY EmptySeq, ElementOfSeq DEF TypeOK
<1>2. consensusHistory' =
        [consensusHistory EXCEPT ![last] =
            [consensusHistory[last] EXCEPT !.validatorVotes = recorded]]
  BY DEF CollectVote, Cast
<1>. HIDE DEF last, recorded
<1>3. [consensusHistory[last] EXCEPT !.validatorVotes = recorded].validatorVotes = recorded
  BY <1>1 DEF ConsensusRound
<1>4. /\ Len(consensusHistory') = last
      /\ consensusHistory'[last] =
           [consensusHistory[last] EXCEPT !.validatorVotes = recorded]
  <2>1. DOMAIN consensusHistory = 1..last /\ last \in Nat
    BY LenProperties DEF TypeOK, last
  <2>2. DOMAIN consensusHistory' = 1..last
    BY <1>2, <2>1
  <2>3. consensusHistory' \in Seq(ConsensusRound)
    BY TypeNext DEF Next, Caller, TypeOK
  <2>4. Len(consensusHistory') = last
    BY <2>1, <2>2, <2>3, LenProperties
  <2>. QED  BY <1>1, <1>2, <2>1, <2>4
<1>5. Cast' = recorded
  BY <1>3, <1>4 DEF Cast
<1>. QED  BY <1>5 DEF recorded, Record

LEMMA VotesNext == TypeOK /\ RoundInv /\ VotesInv /\ [Next]_vars => VotesInv'
<1>. SUFFICES ASSUME TypeOK, RoundInv, VotesInv, [Next]_vars PROVE VotesInv'
  OBVIOUS
<1>1. CASE CollectVote /\ consensusHistory # <<>>
  <2>. DEFINE v == activeValidators[next]
  <2>1. /\ v.address \in DOMAIN Cast'
        /\ Cast'[v.address] = Approves(v, block)
        /\ \A a \in DOMAIN Cast : a \in DOMAIN Cast' /\ (a # v.address => Cast'[a] = Cast[a])
    BY <1>1, CastVote
  <2>2. /\ next' = next + 1 /\ next \in Nat
        /\ UNCHANGED <<activeValidators, block>>
        /\ pc = "collect"
    BY <1>1 DEF CollectVote, TypeOK
  <2>3. ASSUME NEW i \in 1..next' - 1 PROVE Voted(i)'
    <3>1. CASE i = next
      BY <2>1, <2>2, <3>1 DEF Voted
    <3>2. CASE i \in 1..next - 1
      <4>1. Voted(i)
        BY <2>2, <3>2 DEF VotesInv
      <4>2. CASE activeValidators[i].address = v.address
        <5>1. next \in i + 1..next' - 1
          BY <2>2, <3>2
        <5>. QED  BY <2>2, <4>2, <5>1 DEF Voted
      <4>3. CASE activeValidators[i].address # v.address
        BY <2>1, <2>2, <3>2, <4>1, <4>3 DEF Voted
      <4>. QED  BY <4>2, <4>3
    <3>. QED  BY <2>2, <2>3, <3>1, <3>2
  <2>. QED  BY <2>3 DEF VotesInv
<1>2. CASE CollectVote /\ consensusHistory = <<>>
  BY <1>2 DEF CollectVote, VotesInv
<1>3. ASSUME NEW b \in Proposals, AchieveConsensus(b) \/ CollectValidatorVotes(b)
      PROVE  VotesInv'
  BY <1>3 DEF AchieveConsensus, CollectValidatorVotes, Launch, Return, VotesInv
<1>4. CASE LaunchFails \/ CompleteRound
  BY <1>4 DEF LaunchFails, CompleteRound, Return, VotesInv
<1>5. CASE \/ \E v \in Validators : RegisterValidator(v)
           \/ \E i \in DOMAIN activeValidators : RemoveValidator(i)
  BY <1>5 DEF RegisterValidator, RemoveValidator, call, VotesInv
<1>6. CASE UNCHANGED vars \/ \E i \in running : EndTask(i)
  BY <1>6 DEF vars, call, EndTask, VotesInv, Voted, Cast
<1>. QED  BY <1>1, <1>2, <1>3, <1>4, <1>5, <1>6 DEF Next, Caller

\* Whatever the order in which the tasks end, when all futures were read the last
\* entry of the history holds the votes on the block that is judged now.
THEOREM VotesOnThisBlock == Spec => []VotesAreOnThisBlock
<1>1. Init => VotesInv
  BY DEF Init, VotesInv
<1>2. TypeOK /\ VotesInv => VotesAreOnThisBlock
  <2>. SUFFICES ASSUME TypeOK, VotesInv, pc = "collect", next > Len(activeValidators),
                       NEW i \in DOMAIN activeValidators
                PROVE  \/ \E j \in i + 1..Len(activeValidators) :
                            activeValidators[j].address = activeValidators[i].address
                       \/ /\ activeValidators[i].address \in DOMAIN Cast
                          /\ Cast[activeValidators[i].address]
                               = Approves(activeValidators[i], block)
    BY DEF VotesAreOnThisBlock, Cast
  <2>1. /\ DOMAIN activeValidators = 1..Len(activeValidators)
        /\ Len(activeValidators) \in Nat /\ next = Len(activeValidators) + 1
    BY LenProperties DEF TypeOK
  <2>. QED  BY <2>1 DEF VotesInv, Voted
<1>. QED  BY <1>1, <1>2, TypeCorrect, RoundSafe, VotesNext, PTL DEF Spec
=============================================================================
