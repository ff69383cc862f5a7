--------------------------- MODULE MCMiningRound ---------------------------
(***************************************************************************)
(* A small instance of MiningRound: two RPC threads, proofs of work of     *)
(* different sizes, and loops long enough to fill a block, to better it,   *)
(* to pass INNER_LOOP_COUNT and to run out of tries.                       *)
(***************************************************************************)
EXTENDS MiningRound, FiniteSetsExt, TLC

\* Threads are interchangeable.
MCSymmetry == Permutations(Miners)

\* The least sum of M of the hashes found.
BestSum(bag) ==
    LET Sum(c) == MapThenSumSet(LAMBDA h : h * c[h], Proofs)
        Size(c) == MapThenSumSet(LAMBDA h : c[h], Proofs)
    IN  Min({Sum(c) : c \in {b \in [Proofs -> 0..M] : Size(b) = M /\ \A h \in Proofs : b[h] <= bag[h]}})

\* Where no other thread was mining at the same time, the hashGPoW of a block that is submitted is
\* the average of its M best hashes, whichever mode NextGPoW ran in and however it ended; the one
\* exception is a loop that ended just when the nonce was INNER_LOOP_COUNT.
AverageIsOfTheBest ==
    \A t \in Miners :
        pc[t] = "submit" /\ hashGPoW[t] # Raced /\ (nonce[t] # InnerLoop \/ Len(q[t]) = M)
        => hashGPoW[t] = BestSum(found[t]) \div M
=============================================================================
