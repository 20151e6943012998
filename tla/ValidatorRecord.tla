-------------------------- MODULE ValidatorRecord --------------------------
(***************************************************************************)
(* The numbers that a validator keeps about itself                         *)
(* (src/validation/validator.cpp): its stake and its reputation.           *)
(***************************************************************************)
EXTENDS Integers

CONSTANTS
    WordSize,      \* the numbers of the unsigned reputation, 2^32 in the code
    StakeAmounts,  \* what stake is called with
    MaxStake       \* bound: the staking amount

VARIABLES stakingAmount, reputation

validatorVars == <<stakingAmount, reputation>>

Init ==
    /\ stakingAmount = 0
    /\ reputation = 100

\* A lower amount throws.
stake(amount) ==
    /\ amount > 0
    /\ stakingAmount + amount <= MaxStake
    /\ stakingAmount' = stakingAmount + amount
    /\ UNCHANGED reputation

\* The comparison is left out.
loweredDefect(r) == (r + WordSize - 5) % WordSize

\* Arithmetic on the unsigned word.
lowered(r) == IF r > 5 THEN (r + WordSize - 5) % WordSize ELSE 0

raised(r) == IF (r + 1) % WordSize < 100 THEN (r + 1) % WordSize ELSE 100

updateReputation(successfulValidation) ==
    /\ reputation' = IF successfulValidation THEN raised(reputation) ELSE lowered(reputation)
    /\ UNCHANGED stakingAmount

Next ==
    \/ \E amount \in StakeAmounts : stake(amount)
    \/ \E successfulValidation \in BOOLEAN : updateReputation(successfulValidation)

-----------------------------------------------------------------------------
\* Through any sequence of validations the reputation stays between 0 and 100:
\* a failure at the bottom does not wrap around to a huge number, nor does a
\* success at the top go beyond 100.  One step never moves it by more than 5.
ReputationStaysInRange ==
    [][/\ reputation' \in 0..100
       /\ reputation' \in (reputation - 5)..(reputation + 1)]_validatorVars
=============================================================================
