-------------------------- MODULE TransactionDraft --------------------------
(***************************************************************************)
(* The life of one object of class Transaction                             *)
(* (src/core/transaction.cpp): the public operations in any order.         *)
(***************************************************************************)
EXTENDS Transaction

CONSTANTS
    Coins,     \* what inputs spend
    Calls,     \* calls of contracts
    MaxSteps   \* bound: operations

VARIABLES
    draft,   \* the transaction
    signed,  \* history: the draft when it was last signed, or Nothing
    steps    \* operations so far

draftVars == <<draft, signed, steps>>

Init ==
    /\ \E second \in {"1", "2"} :
         draft \in {Empty(second)} \cup UNION {Made(second, to) : to \in Keys}
    /\ signed = Nothing
    /\ steps = 0

Operation(tx) ==
    /\ steps < MaxSteps
    /\ steps' = steps + 1
    /\ draft' = tx

Build(tx) == Operation(tx) /\ UNCHANGED signed

AddInput == \E coin \in Coins : Build(addInput(draft, coin))

AddOutput == \E to \in Keys, amount \in Amounts : Build(addOutput(draft, to, amount))

SetMessage == \E text \in Texts, to \in Keys, vector \in Vectors :
    Build(setMessage(draft, text, to, vector))

SetContractCall == \E call \in Calls : Build(setContractCall(draft, call))

Sign == \E k \in Keys :
    /\ Operation(sign(draft, k))
    /\ signed' = draft'

Next ==
    \/ AddInput
    \/ AddOutput
    \/ SetMessage
    \/ SetContractCall
    \/ Sign

-----------------------------------------------------------------------------
\* Whatever the order of the operations, a draft verifies only with the inputs
\* that it had when it was last signed, signatures included, and if what follows
\* them reads as it did then.  An output, a message or a contract call that came
\* later makes verify fail, unless the texts, which nothing separates, run
\* together to what was signed.
VerifiesOnlyAsSigned ==
    verify(draft) =>
        /\ signed # Nothing
        /\ draft.timestamp = signed.timestamp
        /\ draft.inputs = signed.inputs
        /\ TextBehindInputs(draft) = TextBehindInputs(signed)
=============================================================================
