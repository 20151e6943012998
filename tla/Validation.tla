----------------------------- MODULE Validation -----------------------------
(***************************************************************************)
(* How a validator (src/validation/validator.cpp) votes on a block.  A vote  *)
(* depends on the block and on the validator's type alone: validateBlock   *)
(* is const and reads no other member.                                     *)
(***************************************************************************)
EXTENDS Blocks

CONSTANT Validators \* registrations: one element is one slot of a validator vector

ValidatorType == {"MESSAGE", "FINANCIAL", "HYBRID"}

\* Two registrations may name the same validator, that is, share an address.
ASSUME ValidatorsAssumption ==
    /\ IsFiniteSet(Validators)
    /\ \A v \in Validators : v.type \in ValidatorType

-----------------------------------------------------------------------------
\* A variant with a mistake that EveryBlockEndorsed has to notice: the type of
\* the validator is not looked at.
validateTransactionDefect(v, tx) == tx.valid

\* Validator::validateTransaction
validateTransaction(v, tx) ==
    /\ tx.valid
    /\ tx.type = "FINANCIAL" => v.type # "MESSAGE"

\* Validator::validateBlock; the branch for FINANCIAL and HYBRID validators at
\* its end is empty in the code.
Approves(v, b) ==
    /\ isValid(b)
    /\ \A i \in DOMAIN b.transactions : validateTransaction(v, b.transactions[i])
=============================================================================
