------------------------------- MODULE Mining -------------------------------
(***************************************************************************)
(* Block::mineBlock (src/core/block.cpp): the search for a nonce, by calls *)
(* on one block with one difficulty after the other.                       *)
(***************************************************************************)
EXTENDS Naturals

CONSTANTS
    NonceSize,    \* the numbers of nonces, 2^32 in the code
    DigestLength  \* the characters of a digest, 64 in the code

VARIABLES
    zeros,   \* nonce -> how many zeros its digest begins with
    nonce,
    hashed,  \* the nonce that the block's hash was computed with
    target   \* the difficulty of the call, or 0 between calls

miningVars == <<zeros, nonce, hashed, target>>

Nonces == 0..(NonceSize - 1)

\* Digests are what they are.
Init ==
    /\ zeros \in [Nonces -> 0..DigestLength]
    /\ nonce = 0
    /\ hashed = 0
    /\ target = 0

MineBlock(difficulty) ==
    /\ target = 0
    /\ target' = difficulty
    /\ UNCHANGED <<zeros, nonce, hashed>>

\* substr returns the whole digest when it is shorter than the difficulty, and
\* that never equals the longer target.
Solves(n) == zeros[n] >= target

\* The hash is not computed again.
TryNextDefect ==
    /\ target # 0
    /\ ~Solves(hashed)
    /\ nonce' = (nonce + 1) % NonceSize
    /\ UNCHANGED <<zeros, hashed, target>>

\* nonce++, which wraps around, and the digest with the new nonce.
TryNext ==
    /\ target # 0
    /\ ~Solves(hashed)
    /\ nonce' = (nonce + 1) % NonceSize
    /\ hashed' = nonce'
    /\ UNCHANGED <<zeros, target>>

Mined ==
    /\ target # 0
    /\ Solves(hashed)
    /\ target' = 0
    /\ UNCHANGED <<zeros, nonce, hashed>>

Mine == TryNext \/ Mined

Next == (\E difficulty \in 1..(DigestLength + 1) : MineBlock(difficulty)) \/ Mine

-----------------------------------------------------------------------------
\* A call ends if any nonce at all solves the block, whatever calls, easier or
\* harder, came before.  If none does, as with a difficulty beyond the
\* length of a digest, the nonce wraps around and the search never ends.
SolvableIsMined ==
    \A difficulty \in 1..(DigestLength + 1) :
        (target = difficulty /\ \E n \in Nonces : zeros[n] >= difficulty) ~> target = 0
=============================================================================
