---------------------------- MODULE MiningRound ----------------------------
(***************************************************************************)
(* Mining by rounds: the timer thread of OurChain/gpowserver.cpp, which    *)
(* opens and closes each round, and the RPC threads in generateBlocks,     *)
(* which collect m proof-of-work hashes for a block (NextGPoW) and average *)
(* them in global variables.  The rounds themselves are not numbered: all  *)
(* that the code tests is whether THIS_ROUND_START has changed since a     *)
(* thread copied it.  A hash is a number; those up to Target are proofs of *)
(* work.                                                                   *)
(***************************************************************************)
EXTENDS Integers, Sequences

CONSTANTS
    Miners,        \* the RPC threads that may be in generateBlocks
    M,             \* GPOW_M: the hashes a block needs
    Target,        \* the largest hash that is a proof of work
    InnerLoop,     \* INNER_LOOP_COUNT
    GMaxTries      \* GPOW_MaxTries; a T holds the values 0..GMaxTries

\* With a single hash its nonce could be 0, which setn takes for "none".
ASSUME MAssumption == M \in Nat /\ M > 1
ASSUME BoundAssumption == {Target, InnerLoop, GMaxTries} \subseteq Nat \ {0}

VARIABLES
    fAllowedMining,
    stopPending,   \* eventStopMining is scheduled
    notifying,     \* the timer thread has left the mutex and not yet called notify_all
    rpcRunning,    \* IsRPCRunning()
    conservative, nMaxTries, Avg,    \* the globals of gpow.cpp
    pc,            \* "idle", "loop", "gate", "mine", "average", "submit", "interrupt" or a wait
    thisRound,     \* this_round_time = THIS_ROUND_START
    asleep,        \* the threads blocked on cond_roundchange
    nonce,         \* block.nNonce, counted up to InnerLoop + 1
    q,             \* the hashes in theQ, or in thePq once that is filled
    hashGPoW,
    found,         \* history: how often, up to M, each proof of work was found for the block
    blocks         \* history: the blocks a thread had accepted since the round began

timer == <<fAllowedMining, stopPending, notifying>>
globals == <<conservative, nMaxTries, Avg>>
block == <<nonce, q, hashGPoW, found>>
miningVars == <<timer, rpcRunning, globals, pc, thisRound, asleep, block, blocks>>

Proofs == 1..Target
Empty == [h \in Proofs |-> 0]
UpTo(cap, n) == IF n > cap THEN cap ELSE n
\* What a data race leaves in Avg: any number, and nothing is said of it.
Raced == -1

Waits == {"waitContinue", "waitNext", "waitReturn"}

\* What StartGPoWServer leaves when the RPC server starts.
MiningInit ==
    /\ fAllowedMining = FALSE /\ stopPending = FALSE /\ notifying = FALSE
    /\ rpcRunning = TRUE
    /\ conservative = TRUE /\ nMaxTries = 0 /\ Avg = 0
    /\ pc = [t \in Miners |-> "idle"]
    /\ thisRound = [t \in Miners |-> FALSE]
    /\ asleep = {}
    /\ nonce = [t \in Miners |-> 0]
    /\ q = [t \in Miners |-> <<>>]
    /\ hashGPoW = [t \in Miners |-> 0]
    /\ found = [t \in Miners |-> Empty]
    /\ blocks = [t \in Miners |-> 0]

Go(t, from, to) == pc[t] = from /\ pc' = [pc EXCEPT ![t] = to]
\* Back to the head of the loop or out of it: the copy of THIS_ROUND_START is not used again.
GoBack(t, from, to) ==
    /\ Go(t, from, to)
    /\ thisRound' = [thisRound EXCEPT ![t] = FALSE]
-----------------------------------------------------------------------------
\* The timer thread.

timeoutCallback ==
    /\ ~notifying
    /\ stopPending' = TRUE
    /\ thisRound' = [t \in Miners |-> FALSE]
    /\ fAllowedMining' = TRUE
    /\ notifying' = TRUE
    /\ blocks' = [t \in Miners |-> 0]
    /\ UNCHANGED <<rpcRunning, globals, pc, asleep, block>>

NoMiningCallback ==
    /\ ~notifying /\ stopPending
    /\ stopPending' = FALSE
    /\ fAllowedMining' = FALSE
    /\ notifying' = TRUE
    /\ UNCHANGED <<rpcRunning, globals, pc, thisRound, asleep, block, blocks>>

\* cond_roundchange.notify_all, at the end of either callback.
NotifyOfNobody ==
    /\ notifying /\ notifying' = FALSE
    /\ UNCHANGED <<fAllowedMining, stopPending, rpcRunning, globals, pc, thisRound, asleep, block, blocks>>
NotifyAll ==
    /\ notifying /\ notifying' = FALSE
    /\ asleep' = {}
    /\ UNCHANGED <<fAllowedMining, stopPending, rpcRunning, globals, pc, thisRound, block, blocks>>

\* ProcessNewBlock for the block of a peer ends the round for everybody.
PeerBlock ==
    /\ fAllowedMining' = FALSE
    /\ UNCHANGED <<stopPending, notifying, rpcRunning, globals, pc, thisRound, asleep, block, blocks>>

InterruptRPC ==
    /\ rpcRunning' = FALSE
    /\ UNCHANGED <<timer, globals, pc, thisRound, asleep, block, blocks>>
-----------------------------------------------------------------------------
\* generateBlocks.

Generate(t) ==
    /\ Go(t, "idle", "loop")
    /\ UNCHANGED <<timer, rpcRunning, globals, thisRound, asleep, block, blocks>>

ReadRound(t) ==
    /\ Go(t, "loop", "gate")
    /\ thisRound' = [thisRound EXCEPT ![t] = TRUE]
    /\ UNCHANGED <<timer, rpcRunning, globals, asleep, block, blocks>>

\* The demo rule: with an empty mempool wait for the next round and return.
NothingToMine(t) ==
    /\ Go(t, "gate", "waitReturn")
    /\ thisRound' = [thisRound EXCEPT ![t] = TRUE]
    /\ UNCHANGED <<timer, rpcRunning, globals, asleep, block, blocks>>

SecondHalf(t) ==
    /\ ~fAllowedMining
    /\ Go(t, "gate", "waitContinue")
    /\ UNCHANGED <<timer, rpcRunning, globals, thisRound, asleep, block, blocks>>

CreateFails(t) ==
    /\ fAllowedMining
    /\ GoBack(t, "gate", "idle")
    /\ UNCHANGED <<timer, rpcRunning, globals, asleep, block, blocks>>
-----------------------------------------------------------------------------
\* NextGPoW.

\* Another thread uses the globals at the same time.
InNextGPoW(t) == pc[t] \in {"mine", "average"}
Racing(t) == \E u \in Miners \ {t} : InNextGPoW(u)

\* Once the sum is lost to a race, only the number of the hashes matters.
Alike(s) == [i \in 1..Len(s) |-> 1]

\* The block template, InitGPoW, SetArith, and NextGPoW up to its loop.
Create(t, cons) ==
    /\ fAllowedMining
    /\ Go(t, "gate", "mine")
    /\ conservative' = cons /\ nMaxTries' = GMaxTries
    /\ Avg' = IF Racing(t) THEN Raced ELSE 0
    /\ q' = [u \in Miners |-> IF InNextGPoW(u) THEN Alike(q[u]) ELSE q[u]]
    /\ found' = [u \in Miners |-> IF InNextGPoW(u) THEN Empty ELSE found[u]]
    /\ UNCHANGED <<timer, rpcRunning, thisRound, asleep, nonce, hashGPoW, blocks>>

\* thePq.top(): the place of the worst of the hashes.
Worst(s) == CHOOSE i \in 1..Len(s) : \A j \in 1..Len(s) : s[j] <= s[i]

\* AddHash, after MinusHash for the hash that h replaces.
AddOnly(s, h) == h
AddMinus(s, h) == IF Len(s) < M THEN h ELSE h - s[Worst(s)]

\* One iteration of the loop: the hash of the next nonce is h.  Of a counter that two threads
\* decrement at the same time, and that may wrap around, it matters whether it is 0.
Hash(t, h) ==
    LET pushes == h \in Proofs /\ Len(q[t]) < M
        replaces == h \in Proofs /\ Len(q[t]) = M /\ h < q[t][Worst(q[t])]
        full == Len(q[t]) = M \/ (pushes /\ Len(q[t]) + 1 = M)
        breaks == pushes /\ full /\ conservative
        next == UpTo(InnerLoop + 1, nonce[t] + 1)
        isDone == next = InnerLoop \/ (full /\ conservative)
    IN
    /\ pc[t] = "mine" /\ nMaxTries > 0 /\ fAllowedMining
    /\ q' = [q EXCEPT ![t] = IF pushes THEN Append(@, h)
                             ELSE IF replaces THEN [@ EXCEPT ![Worst(@)] = h] ELSE @]
    /\ Avg' = CASE ~pushes /\ ~replaces -> Avg
                [] Racing(t) \/ Avg = Raced -> Raced
                [] OTHER -> Avg + AddMinus(q[t], h)
    /\ nonce' = [nonce EXCEPT ![t] = IF breaks THEN @ ELSE next]
    /\ pc' = [pc EXCEPT ![t] = IF breaks \/ (isDone /\ full) THEN "average" ELSE "mine"]
    /\ nMaxTries' \in IF breaks \/ isDone THEN {nMaxTries}
                     ELSE IF Racing(t) THEN {0, GMaxTries} ELSE {nMaxTries - 1}
    /\ found' = [found EXCEPT ![t] = IF Avg' = Raced THEN Empty
                                     ELSE IF h \in Proofs THEN [@ EXCEPT ![h] = UpTo(M, @ + 1)] ELSE @]
    /\ UNCHANGED <<timer, rpcRunning, conservative, thisRound, asleep, hashGPoW, blocks>>

Stop(t) ==
    /\ Go(t, "mine", "average")
    /\ nMaxTries = 0 \/ ~fAllowedMining
    /\ UNCHANGED <<timer, rpcRunning, globals, thisRound, asleep, block, blocks>>

\* AvgHash.
Averaged(t) == IF Racing(t) \/ Avg = Raced THEN Raced ELSE Avg \div M

\* What a lone thread leaves in the globals is not read again: InitGPoW and InitArith set them.
LeaveGlobals(t) ==
    /\ conservative' = (Racing(t) => conservative)
    /\ nMaxTries' = IF Racing(t) THEN nMaxTries ELSE 0
    /\ Avg' = IF Racing(t) THEN Raced ELSE 0

\* The block is gone from the thread.
Forget(t) ==
    /\ nonce' = [nonce EXCEPT ![t] = 0]
    /\ q' = [q EXCEPT ![t] = <<>>]
    /\ hashGPoW' = [hashGPoW EXCEPT ![t] = 0]
    /\ found' = [found EXCEPT ![t] = Empty]

\* setn and AvgHash, and then ismDone for generateBlocks.  The nonce of the last success is the
\* thread's own, and so not above the nonce it has reached, unless another thread was writing
\* LastSuccess too.
AverageDone(t) ==
    /\ nonce[t] = InnerLoop \/ Len(q[t]) = M
    /\ Go(t, "average", "submit")
    /\ hashGPoW' = [hashGPoW EXCEPT ![t] = Averaged(t)]
    /\ LeaveGlobals(t)
    /\ UNCHANGED <<timer, rpcRunning, thisRound, asleep, nonce, q, found, blocks>>
AverageNotDone(t) ==
    /\ nonce[t] # InnerLoop
    /\ Len(q[t]) < M \/ (~conservative /\ Averaged(t) = Raced)
    /\ Go(t, "average", "waitContinue")
    /\ LeaveGlobals(t)
    /\ Forget(t)
    /\ UNCHANGED <<timer, rpcRunning, thisRound, asleep, blocks>>
-----------------------------------------------------------------------------
\* ProcessNewBlock: CheckBlock and AcceptBlock, InterruptMining, ActivateBestChain.
Rejected(t) ==
    /\ GoBack(t, "submit", "idle")
    /\ Forget(t)
    /\ UNCHANGED <<timer, rpcRunning, globals, asleep, blocks>>
Accepted(t) ==
    /\ Go(t, "submit", "interrupt")
    /\ hashGPoW[t] <= Target
    /\ blocks' = [blocks EXCEPT ![t] = @ + 1]
    /\ Forget(t)
    /\ UNCHANGED <<timer, rpcRunning, globals, thisRound, asleep>>
InterruptNothing(t) ==
    /\ Go(t, "interrupt", "waitNext")
    /\ UNCHANGED <<timer, rpcRunning, globals, thisRound, asleep, block, blocks>>
InterruptMining(t) ==
    /\ \/ Go(t, "interrupt", "waitNext") /\ UNCHANGED thisRound
       \/ GoBack(t, "interrupt", "idle")
    /\ fAllowedMining' = FALSE
    /\ UNCHANGED <<stopPending, notifying, rpcRunning, globals, asleep, block, blocks>>

\* cond_roundchange.wait: the predicate is tested with the mutex held.
Resume(t) ==
    /\ t \notin asleep
    /\ ~thisRound[t] \/ ~rpcRunning
    /\ \/ GoBack(t, "waitContinue", "loop") \/ GoBack(t, "waitReturn", "idle")
       \/ GoBack(t, "waitNext", "loop") \/ GoBack(t, "waitNext", "idle")
    /\ UNCHANGED <<timer, rpcRunning, globals, asleep, block, blocks>>
Sleep(t) ==
    /\ pc[t] \in Waits /\ t \notin asleep
    /\ thisRound[t] /\ rpcRunning
    /\ asleep' = asleep \cup {t}
    /\ UNCHANGED <<timer, rpcRunning, globals, pc, thisRound, block, blocks>>
SpuriousWakeup(t) ==
    /\ t \in asleep
    /\ asleep' = asleep \ {t}
    /\ UNCHANGED <<timer, rpcRunning, globals, pc, thisRound, block, blocks>>
-----------------------------------------------------------------------------
\* The proofs of work and one other hash.  When the sum is lost to a race all proofs are alike.
Hashes == (IF Avg = Raced THEN {1} ELSE Proofs) \cup {Target + 1}

\* The steps a thread in generateBlocks takes by itself.
Step(t) ==
    \/ ReadRound(t) \/ NothingToMine(t) \/ SecondHalf(t) \/ CreateFails(t)
    \/ \E cons \in BOOLEAN : Create(t, cons)
    \/ \E h \in Hashes : Hash(t, h)
    \/ Stop(t) \/ AverageDone(t) \/ AverageNotDone(t)
    \/ Rejected(t) \/ Accepted(t) \/ InterruptMining(t)
    \/ Resume(t) \/ Sleep(t)

MiningNext ==
    \/ timeoutCallback \/ NoMiningCallback \/ NotifyAll
    \/ PeerBlock \/ InterruptRPC
    \/ \E t \in Miners : Generate(t) \/ SpuriousWakeup(t) \/ Step(t)

MiningSpec == MiningInit /\ [][MiningNext]_miningVars
-----------------------------------------------------------------------------

\* A thread in generateBlocks has at most one block accepted in a round, although it may have read
\* THIS_ROUND_START before the round began and then passes the wait after its block at once: the
\* InterruptMining of ProcessNewBlock keeps it from mining until the next round.
OneBlockPerRound == \A t \in Miners : blocks[t] <= 1

\* Only a waiting thread is asleep, and none sleeps through the change of the round it waits for:
\* the predicate of the wait is tested, and THIS_ROUND_START changed, with cs_roundchange held, and
\* a notify_all follows.
NoLostWakeup == \A t \in asleep : pc[t] \in Waits /\ (thisRound[t] \/ notifying)
=============================================================================
