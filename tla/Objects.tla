------------------------------ MODULE Objects ------------------------------
(***************************************************************************)
(* The objects that one thread uses at a time.  They do not touch each     *)
(* other, so a behaviour is about one of them, the focus, and the others   *)
(* stay as they began.                                                     *)
(***************************************************************************)
EXTENDS Integers, Sequences

\* The constants of the modules below, under the same names.
CONSTANTS
    Pieces, Amounts, Keys, Texts, Vectors, InputHash, OutputHash, Nothing,
    Coins, Calls, MaxSteps,
    Wallets, WalletKeys, WalletVectors, MaxMade, MaxReceived,
    Hashes, Priorities, Ages, Counts, MaxSize, MaxAge, MaxClock,
    Bytecodes, Owners, Methods, StateKeys, StateValues, MaxCalls,
    NonceSize, DigestLength,
    Leaves, MaxLeaves,
    WordSize, StakeAmounts, MaxStake,
    Senders, Payloads, Strays, Times, MaxMessages, MaxSigned

\* The reputation, 100 at most, fits its word.
ASSUME WordSizeAssumption == WordSize \in Nat /\ WordSize > 101

\* Sizes and counts are unsigned; the clock counts from the epoch.
ASSUME PoolAssumption == MaxSize \in Nat /\ Counts \subseteq Nat /\ MaxClock \in Nat

\* Every string of a list is a text.
ASSUME LeafAssumption ==
    /\ MaxLeaves \in Nat
    /\ \A leaf \in Leaves : /\ Len(leaf) \in Nat
                              /\ leaf = [i \in 1..Len(leaf) |-> leaf[i]]

\* What goes into a transaction's digest is a text, and what goes into a text as
\* one piece is a piece.
ASSUME TextAssumption ==
    /\ {"0", "1", "2", "3"} \cup Keys \cup Texts \cup Vectors \subseteq Pieces
    /\ \A coin \in Coins : InputHash[coin] \in Seq(Pieces)
    /\ \A output \in [recipient : Keys, amount : Amounts] : OutputHash[output] \in Seq(Pieces)
    /\ Calls \subseteq [address : Seq(Pieces), method : Seq(Pieces),
                         parameters : Seq(Seq(Pieces))]

\* The parts of a message's text: a payload of a factory is a JSON object and a
\* line feed, so it begins with no digit, and a timestamp has digits only.
ASSUME ProtocolAssumption ==
    /\ {"0", "1", "2", "3", "4", "5", "6", "7", "8", "9"} \subseteq Pieces
    /\ Senders \cup Payloads \cup Strays \cup Times \subseteq Seq(Pieces)
    /\ \A payload \in Payloads :
         payload # <<>> /\ payload[1] # "0" /\ payload[Len(payload)] = "\n"
    /\ \A numeral \in Times : \A i \in 1..Len(numeral) : numeral[i] # "\n"

VARIABLES
    focus,
    draft, signed, steps,
    key, balance, pending, sentMessages, receivedMessages, made,
    pool, time, result,
    contracts, returned, log,
    zeros, nonce, hashed, target,
    transactions, tree,
    stakingAmount, reputation,
    message, wire, received, signings

Draft == INSTANCE TransactionDraft
Purse == INSTANCE Wallet WITH Keys <- WalletKeys, Vectors <- WalletVectors
Pool == INSTANCE MemoryPool
Engine == INSTANCE SmartContractEngine
Miner == INSTANCE Mining
Root == INSTANCE MerkleRoot
Record == INSTANCE ValidatorRecord
Wire == INSTANCE Protocol

Objects == {"draft", "wallet", "pool", "engine", "miner", "root", "record", "wire"}

Init ==
    /\ focus \in Objects
    /\ IF focus = "draft" THEN Draft!Init
                          ELSE draft = Nothing /\ signed = Nothing /\ steps = 0
    /\ IF focus = "wallet" THEN Purse!Init
                           ELSE key = Nothing /\ balance = Nothing /\ pending = Nothing
                                 /\ sentMessages = Nothing /\ receivedMessages = Nothing
                                 /\ made = 0
    /\ Pool!Init /\ (focus # "pool" => time = 0)
    /\ Engine!Init
    /\ IF focus = "miner" THEN Miner!Init
                          ELSE zeros = [n \in Miner!Nonces |-> 0] /\ nonce = 0
                                /\ hashed = 0 /\ target = 0
    /\ IF focus = "root" THEN Root!Init ELSE transactions = <<>> /\ tree = <<>>
    /\ Record!Init
    /\ Wire!Init

draftVars == <<draft, signed, steps>>
walletVars == <<key, balance, pending, sentMessages, receivedMessages, made>>
poolVars == <<pool, time, result>>
engineVars == <<contracts, returned, log>>
miningVars == <<zeros, nonce, hashed, target>>
merkleVars == <<transactions, tree>>
validatorVars == <<stakingAmount, reputation>>
protocolVars == <<message, wire, received, signings>>
vars == <<focus, draftVars, walletVars, poolVars, engineVars, miningVars, merkleVars,
          validatorVars, protocolVars>>

Next ==
    \/ /\ focus = "draft" /\ Draft!Next
       /\ UNCHANGED <<focus, walletVars, poolVars, engineVars,
                      miningVars, merkleVars, validatorVars, protocolVars>>
    \/ /\ focus = "wallet" /\ Purse!Next
       /\ UNCHANGED <<focus, draftVars, poolVars, engineVars,
                      miningVars, merkleVars, validatorVars, protocolVars>>
    \/ /\ focus = "pool" /\ Pool!Next
       /\ UNCHANGED <<focus, draftVars, walletVars, engineVars,
                      miningVars, merkleVars, validatorVars, protocolVars>>
    \/ /\ focus = "engine" /\ Engine!Next
       /\ UNCHANGED <<focus, draftVars, walletVars, poolVars,
                      miningVars, merkleVars, validatorVars, protocolVars>>
    \/ /\ focus = "miner" /\ Miner!Next
       /\ UNCHANGED <<focus, draftVars, walletVars, poolVars,
                      engineVars, merkleVars, validatorVars, protocolVars>>
    \/ /\ focus = "root" /\ Root!Next
       /\ UNCHANGED <<focus, draftVars, walletVars, poolVars,
                      engineVars, miningVars, validatorVars, protocolVars>>
    \/ /\ focus = "record" /\ Record!Next
       /\ UNCHANGED <<focus, draftVars, walletVars, poolVars,
                      engineVars, miningVars, merkleVars, protocolVars>>
    \/ /\ focus = "wire" /\ Wire!Next
       /\ UNCHANGED <<focus, draftVars, walletVars, poolVars,
                      engineVars, miningVars, merkleVars, validatorVars>>

\* The thread that mines goes on.
Mine ==
    /\ focus = "miner" /\ Miner!Mine
    /\ UNCHANGED <<focus, draftVars, walletVars, poolVars,
                   engineVars, merkleVars, validatorVars, protocolVars>>

Spec == Init /\ [][Next]_vars /\ WF_vars(Mine)
-----------------------------------------------------------------------------
(* The properties, under the names of their modules *)

\* A transaction verifies only as it was last signed, or if its text runs together
\* to the text that was signed.
VerifiesOnlyAsSigned == focus = "draft" => Draft!VerifiesOnlyAsSigned

\* Wallets keep their keys apart and what they made and keep well formed.
WalletTypeOK == focus = "wallet" => Purse!TypeOK

\* The sorted vector of MemoryPool implements a bounded bag served by priority.
PoolSpec == Pool!PoolSpec

\* A contract stores what was last written since it was last deployed.
StorageIsLastWritten == Engine!StorageIsLastWritten

\* mineBlock finds a nonce if there is one.
SolvableIsMined == Miner!SolvableIsMined

\* The loop of calculateMerkleRoot ends at the root of the full tree.
RootTellsLists == focus = "root" => Root!RootTellsLists

\* The reputation of a validator never wraps around.
ReputationStaysInRange == Record!ReputationStaysInRange

\* A protocol message that is read and verifies was signed as it reads.
VerifiedAsSigned == Wire!VerifiedAsSigned
=============================================================================
