--------------------------- MODULE ChainActivation ---------------------------
(***************************************************************************)
(* The block index of validation.cpp and the activation of the best chain. *)
(*                                                                         *)
(* Headers and blocks arrive in any order.  A block whose data has come    *)
(* before an ancestor's waits in mapBlocksUnlinked; a block whose whole    *)
(* ancestry has come is linked (nChainTx # 0), gets a sequence id and is a *)
(* candidate for the tip while it does not sort worse than the tip.        *)
(* ActivateBestChain moves the tip towards the best candidate, in steps    *)
(* between which cs_main is released and pindexMostWork is kept.  The RPCs *)
(* invalidateblock, reconsiderblock and preciousblock change flags and     *)
(* candidates.  What FlushStateToDisk has written survives a crash.        *)
(*                                                                         *)
(* Everything that happens under one hold of cs_main is one action.        *)
(* Left out: pruning (fHavePruned stays false), pindexBestInvalid and      *)
(* pindexBestHeader (they feed warnings and getheaders only), and system   *)
(* errors, which end the process.                                          *)
(***************************************************************************)
EXTENDS WorkOrder

CONSTANTS
    Threads,           \* the threads that process blocks and RPCs
    NoBlock,           \* nullptr
    Malformed,         \* the blocks that ContextualCheckBlock rejects
    Invalid,           \* the blocks that ConnectBlock rejects
    MinBlocksToKeep,   \* MIN_BLOCKS_TO_KEEP
    MinSequenceId,     \* numeric_limits<int32_t>::min()
    MaxInvalidations, MaxReconsiders, MaxPreciouses, MaxFlushes, MaxRestarts  \* bounds

ASSUME ChainAssumption ==
    /\ \A S \in SUBSET Block : Cardinality(S) \in Nat  \* Block is finite
    /\ NoBlock \notin Block
    /\ Malformed \subseteq Block \ {Genesis}
    /\ Invalid \subseteq Block \ {Genesis}
    /\ MinBlocksToKeep \in Nat
    /\ MinSequenceId \in Int /\ MinSequenceId < 0

VARIABLES
    known,         \* mapBlockIndex
    data,          \* BLOCK_HAVE_DATA: without pruning the same as nTx > 0
    undo,          \* BLOCK_HAVE_UNDO, and BLOCK_VALID_SCRIPTS, which is set with it
    failedValid,   \* BLOCK_FAILED_VALID
    failedChild,   \* BLOCK_FAILED_CHILD
    linked,        \* the blocks with nChainTx # 0
    unlinked,      \* mapBlocksUnlinked: B stands for the pair of its parent and B
    candidates,    \* setBlockIndexCandidates
    seqId,         \* nSequenceId
    bare,          \* the blocks whose nPrecisionTime and hashGPoW were lost in a restart
    nextSeq,       \* nBlockSequenceId
    reverseSeq,    \* nBlockReverseSequenceId
    lastPrecious,  \* nLastPreciousChainwork
    tip,           \* chainActive.Tip()
    dirty,         \* setDirtyBlockIndex
    disk,          \* the block index on disk and the best block of the coins database
    pc,            \* whether a thread is in the loop of ActivateBestChain
    goal,          \* its pindexMostWork
    count          \* how often each bounded operation has happened

flags == <<failedValid, failedChild>>
links == <<known, data, linked, unlinked>>
order == <<seqId, bare, nextSeq, reverseSeq, lastPrecious>>
threads == <<pc, goal>>
vars == <<flags, links, undo, candidates, order, tip, dirty, disk, threads, count>>

-----------------------------------------------------------------------------
(* Helpers.                                                                *)

Failed == failedValid \cup failedChild

\* What CBlockIndexWorkComparator looks at.
Order == [seq |-> seqId, bare |-> bare]

\* PruneBlockIndexCandidates
PruneTip(cands, ord, t) == {c \in cands : Worse(ord, t, c)}
Prune(cands, ord, t) == {c \in cands : ~Worse(ord, c, t)}

\* The entries of the block index that a batch with the dirty entries d overwrites.
Merge(old, new, d) == (old \ d) \cup (new \cap d)
Written(d, und, fv, fc, coins) ==
    [known |-> disk.known \cup d,
     data |-> Merge(disk.data, data, d),
     undo |-> Merge(disk.undo, und, d),
     failedValid |-> Merge(disk.failedValid, fv, d),
     failedChild |-> Merge(disk.failedChild, fc, d),
     bare |-> Merge(disk.bare, bare, d),
     tip |-> coins]

Bounded(op, max) == count[op] < max /\ count' = [count EXCEPT ![op] = @ + 1]

\* The thread calls ActivateBestChain, where pindexMostWork starts as nullptr.
CallActivateBestChain(t) ==
    pc' = [pc EXCEPT ![t] = "loop"] /\ goal' = [goal EXCEPT ![t] = NoBlock]
Return(t) ==
    pc' = [pc EXCEPT ![t] = "idle"] /\ goal' = [goal EXCEPT ![t] = NoBlock]

-----------------------------------------------------------------------------
(* Headers and blocks arrive.                                              *)

\* AcceptBlockHeader returns true.
KnownHeader(b) == b \in known /\ b \notin Failed
NewHeader(b) ==
    b \notin known /\ b # Genesis /\ Pprev(b) \in known /\ Pprev(b) \notin Failed

\* ProcessNewBlockHeaders, AddToBlockIndex
AcceptBlockHeader(b) ==
    /\ NewHeader(b)
    /\ known' = known \cup {b}
    /\ dirty' = dirty \cup {b}
    /\ UNCHANGED <<flags, data, undo, linked, unlinked, candidates, order, tip, disk, threads, count>>

\* The blocks that become linked with b: those below which everything waits for b.
LinkOne(b) == {b}
LinkedWith(b) ==
    {b} \cup {x \in unlinked : /\ b \in Path(x)
                               /\ \A y \in Path(x) : Height(y) > Height(b) => y \in unlinked}

\* The orders in which the queue of ReceivedBlockTransactions can hand out sequence ids:
\* level by level (the order among blocks of one height is left open).
QueueOrders(new) ==
    {rank \in [new -> 1..Cardinality(new)] :
        \A x, y \in new : x # y => rank[x] # rank[y] /\ (Height(x) < Height(y) => rank[x] < rank[y])}

\* Where a block waits whose parent is not linked.
Wait(b) == IF Pprev(b) \in Failed THEN unlinked ELSE unlinked \cup {b}

ReceivedBlockTransactions(b) ==
    /\ data' = data \cup {b}
    /\ \/ /\ Pprev(b) \in linked
          /\ linked' = linked \cup LinkedWith(b)
          /\ unlinked' = unlinked \ LinkedWith(b)
          /\ \E rank \in QueueOrders(LinkedWith(b)) :
              seqId' = [x \in Block |-> IF x \in LinkedWith(b) THEN nextSeq + rank[x] - 1
                                       ELSE seqId[x]]
          /\ nextSeq' = nextSeq + Cardinality(LinkedWith(b))
          /\ candidates' = candidates \cup {x \in LinkedWith(b) : ~Worse([Order EXCEPT !.seq = seqId'], x, tip)}
       \/ /\ Pprev(b) \notin linked
          /\ unlinked' = Wait(b)
          /\ UNCHANGED <<linked, seqId, nextSeq, candidates>>
    /\ UNCHANGED <<bare, reverseSeq, lastPrecious>>

\* Whether AcceptBlock goes on with a block that it has not got.
Wanted(b, requested) ==
    \/ requested
    \/ Work[b] > Work[tip] /\ Height(b) <= Height(tip) + MinBlocksToKeep

\* ProcessNewBlock: AcceptBlock and, unless it fails, ActivateBestChain.
ProcessNewBlock(t, b, requested) ==
    /\ pc[t] = "idle"
    /\ KnownHeader(b) \/ NewHeader(b)
    /\ known' = known \cup {b}
    /\ \/ /\ b \notin data /\ Wanted(b, requested) /\ b \notin Malformed
          /\ ReceivedBlockTransactions(b)
          /\ dirty' = dirty \cup {b}
          /\ CallActivateBestChain(t)
          /\ UNCHANGED flags
       \/ /\ b \notin data /\ Wanted(b, requested) /\ b \in Malformed
          /\ failedValid' = failedValid \cup {b}
          /\ dirty' = dirty \cup {b}
          /\ UNCHANGED <<failedChild, data, linked, unlinked, candidates, order, threads>>
       \/ /\ b \in data \/ ~Wanted(b, requested)
          /\ dirty' = IF b \in known THEN dirty ELSE dirty \cup {b}
          /\ CallActivateBestChain(t)
          /\ UNCHANGED <<flags, data, linked, unlinked, candidates, order>>
    /\ UNCHANGED <<undo, tip, disk, count>>

-----------------------------------------------------------------------------
(* ActivateBestChain.                                                      *)

\* The blocks of b's chain above its fork with the active chain, and the failed ones of them.
OffChain(b) == {x \in Path(b) : ~Contains(tip, x)}
Broken(b) == OffChain(b) \cap Failed

\* FindMostWorkChain: the best candidate without a failed block on its way.
AnyCandidate(c) == TRUE
Usable(c) == Broken(c) = {}
IsMostWork(c) ==
    c \in candidates /\ Usable(c) /\ \A d \in candidates : Usable(d) => ~Worse(Order, c, d)

\* What its loop does to a candidate that it passes over: it erases the chain down to the
\* failed block that is nearest and marks what is above that block.
EraseFrom(c) == {x \in OffChain(c) : \A y \in Broken(c) : Height(x) >= Height(y)}
MarkChain(c) == OffChain(c)
MarkFrom(c) == {x \in OffChain(c) : \A y \in Broken(c) : Height(x) > Height(y)}
BetterThan(most) == {c \in candidates : ~Usable(c) /\ Worse(Order, most, c)}
Erase(passed) == candidates \ UNION {EraseFrom(c) : c \in passed}
Mark(passed) == failedChild \cup UNION {MarkFrom(c) : c \in passed}

\* ActivateBestChainStep connects blocks from the fork towards most until one is rejected,
\* the chain has more work than before, or most is reached.
StopAtOnce(most, x) == TRUE
Stops(most, x) == x \in Invalid \/ Work[x] > Work[tip] \/ x = most
IsLast(most, x) ==
    IF Contains(tip, most) THEN x = most
    ELSE /\ x \in OffChain(most) /\ Stops(most, x)
         /\ \A y \in OffChain(most) : Stops(most, y) => Height(x) <= Height(y)

\* The coins databases that a flush in DisconnectTip or ConnectTip (FLUSH_STATE_IF_NEEDED)
\* can leave on disk on the way to new.
Waypoints(new) ==
    {x \in Path(tip) \ {tip} : \A y \in Path(new) : Contains(tip, y) => Height(x) >= Height(y)}
        \cup {x \in Path(new) : ~Contains(tip, x)}

\* The blocks on the way to new that ConnectBlock makes dirty.
Fresh(new, fc) == {x \in OffChain(new) : x \notin undo \/ x \in failedValid \cup fc}

\* Such a flush happens or not.  It writes what is dirty by then, and then the coins.
FlushNoIndex(new, fc, rejected) ==
    \E coins \in Waypoints(new) :
        /\ Bounded("flush", MaxFlushes)
        /\ disk' = [disk EXCEPT !.tip = coins]
        /\ dirty' = dirty \cup Fresh(new, fc) \cup rejected
FlushIfNeeded(new, fc, rejected) ==
    \/ /\ dirty' = dirty \cup Fresh(new, fc) \cup rejected
       /\ UNCHANGED <<disk, count>>
    \/ \E coins \in Waypoints(new) :
        LET done == Fresh(new, fc) \cap Path(coins) IN
        /\ Bounded("flush", MaxFlushes)
        /\ disk' = Written(dirty \cup done, undo \cup done, failedValid, fc, coins)
        /\ dirty' = (Fresh(new, fc) \ done) \cup rejected

\* fInvalidFound makes the thread forget pindexMostWork.
KeepGoal(most, rejected) == most
NextGoal(most, rejected) == IF rejected = {} THEN most ELSE NoBlock

\* One step towards most.
Step(t, most, cands, fc) ==
    \E last \in Path(most) :
        LET rejected == {last} \cap Invalid \cap OffChain(most)
            new == IF rejected = {} THEN last ELSE Pprev(last)
            next == NextGoal(most, rejected)
        IN  /\ most # tip
            /\ IsLast(most, last)
            /\ tip' = new
            /\ candidates' = (IF Contains(tip, new) THEN cands ELSE Prune(cands, Order, new))
                                 \ rejected
            /\ undo' = undo \cup OffChain(new)
            /\ failedValid' = failedValid \cup rejected
            /\ failedChild' = fc
            /\ FlushIfNeeded(new, fc, rejected)
            /\ IF new = next
               THEN Return(t)
               ELSE goal' = [goal EXCEPT ![t] = next] /\ UNCHANGED pc
            /\ UNCHANGED <<links, order>>

\* An iteration of the loop that has to find the best chain.
FindAndStep(t) ==
    /\ pc[t] = "loop" /\ goal[t] = NoBlock
    /\ \E most \in candidates :
        /\ IsMostWork(most)
        /\ Step(t, most, Erase(BetterThan(most)), Mark(BetterThan(most)))

\* An iteration that goes on towards the chain found before.
StepAgain(t) ==
    /\ pc[t] = "loop" /\ goal[t] # NoBlock
    /\ Step(t, goal[t], candidates, failedChild)

\* The early return: the tip is the best candidate, there is none, or another thread has
\* reached the chain found before.
NothingToDo(t) ==
    /\ pc[t] = "loop"
    /\ \/ /\ goal[t] = NoBlock /\ IsMostWork(tip)
          /\ candidates' = Erase(BetterThan(tip))
          /\ failedChild' = Mark(BetterThan(tip))
       \/ /\ goal[t] = NoBlock /\ \A c \in candidates : ~Usable(c)
          /\ candidates' = Erase(candidates)
          /\ failedChild' = Mark(candidates)
       \/ /\ goal[t] = tip
          /\ UNCHANGED <<candidates, failedChild>>
    /\ Return(t)
    /\ UNCHANGED <<failedValid, links, undo, order, tip, dirty, disk, count>>

-----------------------------------------------------------------------------
(* The RPCs; each goes on with ActivateBestChain.                          *)

\* InvalidateBlock puts the blocks back that are as good as the new tip.
ReinsertNothing(fv, fc, new) == {}
Reinserted(fv, fc, new) == {x \in linked \ (fv \cup fc) : ~Worse(Order, x, new)}

InvalidateBlock(t, b) ==
    LET active == Contains(tip, b)
        walked == IF active THEN Branch(tip, Height(b)) ELSE {}
        new == IF active THEN Pprev(b) ELSE tip
        fv == failedValid \cup {b}
        fc == failedChild \cup walked
    IN  /\ pc[t] = "idle"
        /\ b \in known \ {Genesis}
        /\ count.invalidate < MaxInvalidations
        /\ failedValid' = fv
        /\ failedChild' = fc
        /\ tip' = new
        /\ candidates' = (candidates \ ({b} \cup walked)) \cup Reinserted(fv, fc, new)
        /\ \/ /\ dirty' = dirty \cup {b} \cup walked
              /\ count' = [count EXCEPT !.invalidate = @ + 1]
              /\ UNCHANGED disk
           \/ \E coins \in Waypoints(new) :
               LET left == {x \in walked : Height(x) > Height(coins)} IN
               /\ count.flush < MaxFlushes
               /\ count' = [count EXCEPT !.invalidate = @ + 1, !.flush = @ + 1]
               /\ disk' = Written(dirty \cup {b} \cup left, undo, fv, failedChild \cup left, coins)
               /\ dirty' = walked \ left
        /\ CallActivateBestChain(t)
        /\ UNCHANGED <<links, undo, order>>

ResetBlockFailureFlags(t, b) ==
    LET below == {x \in known : b \in Path(x)}
        reset == below \cup Path(b)
    IN  /\ pc[t] = "idle"
        /\ b \in known
        /\ Bounded("reconsider", MaxReconsiders)
        /\ failedValid' = failedValid \ reset
        /\ failedChild' = failedChild \ reset
        /\ candidates' = candidates \cup
               {x \in below \cap Failed \cap linked : Worse(Order, tip, x)}
        /\ dirty' = dirty \cup {x \in below : x \in Failed \/ x \notin data}
                          \cup (Path(b) \cap Failed)
        /\ CallActivateBestChain(t)
        /\ UNCHANGED <<links, undo, order, tip, disk>>

\* nBlockReverseSequenceId starts anew when the chain has grown since the last call, and
\* stays at the smallest value that an int32_t has.
StartAnew == -1
ReverseId == IF Work[tip] > lastPrecious THEN -1 ELSE reverseSeq
DecrementId(seq) == IF seq > MinSequenceId THEN seq - 1 ELSE seq

PreciousBlock(t, b) ==
    LET seq == ReverseId
    IN  /\ pc[t] = "idle"
        /\ b \in known
        /\ Work[b] >= Work[tip]
        /\ Bounded("precious", MaxPreciouses)
        /\ lastPrecious' = Work[tip]
        /\ seqId' = [seqId EXCEPT ![b] = seq]
        /\ reverseSeq' = DecrementId(seq)
        /\ candidates' = IF b \in linked \ Failed
                         THEN Prune(candidates \cup {b}, [Order EXCEPT !.seq = seqId'], tip)
                         ELSE candidates \ {b}
        /\ CallActivateBestChain(t)
        /\ UNCHANGED <<flags, links, undo, bare, nextSeq, tip, dirty, disk>>

-----------------------------------------------------------------------------
(* Writing to disk, and starting from what is there.                       *)

\* FlushStateToDisk (FLUSH_STATE_PERIODIC): the block index, and sometimes the coins.
FlushStateToDisk ==
    /\ dirty # {} \/ disk.tip # tip
    /\ Bounded("flush", MaxFlushes)
    /\ \E coins \in {disk.tip, tip} :
        disk' = Written(dirty, undo, failedValid, failedChild, coins)
    /\ dirty' = {}
    /\ UNCHANGED <<flags, links, undo, candidates, order, tip, threads>>

\* LoadBlockIndexDB: what is linked, what waits, what is a candidate.
LoadReceived(dat) == dat
LoadLinked(dat) == {b \in dat : Path(b) \subseteq dat}
LoadUnlinked(dat) == {b \in dat \ {Genesis} : Pprev(b) \notin LoadLinked(dat)}
LoadGenesis(dat, bad) == {Genesis}
LoadCandidates(dat, bad) == LoadLinked(dat) \ bad

\* LoadBlockIndexGuts restores neither nPrecisionTime nor hashGPoW.
LoadBare == IF GPoWEnabled THEN disk.known ELSE {}

\* The process ends at any moment and starts again: LoadBlockIndexDB, LoadChainTip, and
\* ActivateBestChain in the import thread.  An entry that was written without those fields
\* has another hash, which fails CheckProofOfWork, and the node does not start.
Restart(t) ==
    /\ disk.bare = {}
    /\ Bounded("restart", MaxRestarts)
    /\ known' = disk.known
    /\ data' = disk.data
    /\ undo' = disk.undo
    /\ bare' = LoadBare
    /\ failedValid' = disk.failedValid
    /\ failedChild' = disk.failedChild
    /\ linked' = LoadLinked(disk.data)
    /\ unlinked' = LoadUnlinked(disk.data)
    /\ seqId' = [b \in Block |-> 0]
    /\ nextSeq' = 1
    /\ reverseSeq' = -1
    /\ lastPrecious' = 0
    /\ tip' = disk.tip
    /\ candidates' = Prune(LoadCandidates(disk.data, disk.failedValid \cup disk.failedChild),
                           [seq |-> seqId', bare |-> bare'], disk.tip)
    /\ dirty' = {}
    /\ pc' = [x \in Threads |-> IF x = t THEN "loop" ELSE "idle"]
    /\ goal' = [x \in Threads |-> NoBlock]
    /\ UNCHANGED disk

-----------------------------------------------------------------------------
(* The specification.                                                      *)

\* The genesis block has been received and connected.
Init ==
    /\ known = {Genesis} /\ data = {Genesis} /\ linked = {Genesis} /\ unlinked = {}
    /\ undo = {} /\ failedValid = {} /\ failedChild = {} /\ bare = {}
    /\ candidates = {Genesis}
    /\ seqId = [b \in Block |-> IF b = Genesis THEN 1 ELSE 0]
    /\ nextSeq = 2 /\ reverseSeq = -1 /\ lastPrecious = 0
    /\ tip = Genesis
    /\ dirty = {}
    /\ disk = [known |-> {Genesis}, data |-> {Genesis}, undo |-> {},
               failedValid |-> {}, failedChild |-> {}, bare |-> {}, tip |-> Genesis]
    /\ pc = [t \in Threads |-> "idle"]
    /\ goal = [t \in Threads |-> NoBlock]
    /\ count = [invalidate |-> 0, reconsider |-> 0, precious |-> 0, flush |-> 0, restart |-> 0]

Loop(t) == FindAndStep(t) \/ StepAgain(t) \/ NothingToDo(t)

Next ==
    \/ \E b \in Block : AcceptBlockHeader(b)
    \/ \E t \in Threads, b \in Block, requested \in BOOLEAN : ProcessNewBlock(t, b, requested)
    \/ \E t \in Threads : FindAndStep(t)
    \/ \E t \in Threads : StepAgain(t)
    \/ \E t \in Threads : NothingToDo(t)
    \/ \E t \in Threads, b \in Block : InvalidateBlock(t, b)
    \/ \E t \in Threads, b \in Block : ResetBlockFailureFlags(t, b)
    \/ \E t \in Threads, b \in Block : PreciousBlock(t, b)
    \/ FlushStateToDisk
    \/ \E t \in Threads : Restart(t)

Spec == Init /\ [][Next]_vars

\* A thread in the loop of ActivateBestChain keeps running: nothing in it waits for input.
FairSpec == Spec /\ \A t \in Threads : WF_vars(Loop(t))

-----------------------------------------------------------------------------
(* Properties.                                                             *)

\* Every variable keeps its type; sequence ids stay within an int32_t.
TypeOK ==
    /\ known \subseteq Block /\ data \subseteq Block /\ linked \subseteq Block
    /\ unlinked \subseteq Block /\ failedValid \subseteq Block /\ failedChild \subseteq Block
    /\ undo \subseteq Block /\ bare \subseteq Block
    /\ candidates \subseteq Block /\ dirty \subseteq Block
    /\ seqId \in [Block -> Int] /\ \A b \in Block : seqId[b] >= MinSequenceId
    /\ nextSeq \in Nat \ {0} /\ reverseSeq \in MinSequenceId..(-1) /\ lastPrecious \in Nat
    /\ tip \in Block
    /\ disk \in [known : SUBSET Block, data : SUBSET Block, undo : SUBSET Block,
                 failedValid : SUBSET Block, failedChild : SUBSET Block,
                 bare : SUBSET Block, tip : Block]
    /\ pc \in [Threads -> {"idle", "loop"}]
    /\ goal \in [Threads -> Block \cup {NoBlock}]
    /\ count \in [{"invalidate", "reconsider", "precious", "flush", "restart"} -> Nat]

\* No thread is in ActivateBestChain.
Quiet == \A t \in Threads : pc[t] = "idle"

\* CheckBlockIndex, on links: nChainTx is set exactly for the blocks whose whole ancestry has
\* been received, mapBlocksUnlinked holds exactly the other received blocks (unless an
\* ancestor is invalid), and only linked blocks have a positive sequence id.
LinksConsistent ==
    \A b \in known :
        /\ b \in linked <=> Path(b) \subseteq data
        /\ b \in unlinked => b \in data \ linked
        /\ b \in data \ linked /\ Path(b) \cap failedValid = {} => b \in unlinked
        /\ seqId[b] > 0 => b \in linked

\* CheckBlockIndex: a block is marked as failed only below a block found invalid.
FailedHaveCause == \A b \in Failed : Path(b) \cap failedValid # {}

\* CheckBlockIndex, on setBlockIndexCandidates: it holds every linked block that is as good as
\* the tip and has no invalid ancestor, and no block that is worse or not linked.
CandidatesExact ==
    Quiet => \A b \in known :
        /\ b \in candidates => b \in linked /\ ~Worse(Order, b, tip)
        /\ b \in linked /\ ~Worse(Order, b, tip) /\ Path(b) \cap failedValid = {} => b \in candidates

\* PruneBlockIndexCandidates: either the tip or a successor that is worked towards is left.
CandidatesLeft == candidates # {}

\* FindMostWorkChain relies on it: every block of the active chain is valid.
ActiveChainValid == Path(tip) \cap Failed = {}

\* ActivateBestChain: the result is the activated best chain.  When no thread is in it, no
\* linked block without a failed ancestor sorts better than the tip.
TipIsBest ==
    Quiet => \A b \in linked : Path(b) \cap Failed = {} => ~Worse(Order, tip, b)

\* ActivateBestChainStep: as long as no block turns out to be invalid, the tip moves only to
\* a block that sorts better, so cs_main is never released on the way through a worse chain.
TipImproves ==
    [][tip' # tip /\ failedValid' = failedValid /\ count'.restart = count.restart
        => Worse(Order, tip, tip')]_vars

\* FlushStateToDisk writes undo data and the block index before the coins that need them: a
\* node that starts from what is on disk can disconnect every block of its active chain.
CoinsHaveUndo == Path(disk.tip) \ {Genesis} \subseteq disk.undo

\* The RPC preciousblock treats a block as if it were received before others with the same
\* work, whatever calls came before (until the counter is at its limit).
PreciousWins ==
    [][\A t \in Threads, b \in linked \ Failed :
        PreciousBlock(t, b) /\ seqId'[b] > MinSequenceId
            => \A x \in candidates' \ {b} : Work[x] = Work[b] => Worse(Order', x, b)]_vars

\* The invariant behind ActiveChainValid.  Until a block is invalidated by RPC, whatever is
\* marked as failed descends from a block that breaks the rules, in memory and on disk, and
\* neither the active chain nor the coins on disk contain such a block.  That needs that
\* candidates and the chains that threads work towards are linked, and linked blocks complete.
Unsound == Invalid \cup Malformed
SoundInv ==
    /\ TypeOK
    /\ data \cap Malformed = {} /\ disk.data \cap Malformed = {}
    /\ unlinked \subseteq data /\ \A b \in linked : Path(b) \subseteq data
    /\ candidates \subseteq linked
    /\ \A t \in Threads : goal[t] # NoBlock => goal[t] \in linked
    /\ Path(tip) \cap Unsound = {} /\ Path(disk.tip) \cap Unsound = {}
    /\ count.invalidate = 0 =>
        \A b \in Failed \cup disk.failedValid \cup disk.failedChild : Path(b) \cap Unsound # {}

\* The invariant behind LinksConsistent, until a block is invalidated or reconsidered by RPC.
\* Only linked blocks fail when they are connected, so a block that was not put into
\* mapBlocksUnlinked waits for a parent that is malformed and never comes.  A restart computes
\* the links from what is on disk, where the blocks that are not dirty are as in memory.
LinkInv ==
    /\ Genesis \in disk.data
    /\ data \subseteq known /\ disk.data \subseteq data /\ data \subseteq disk.data \cup dirty
    /\ disk.data \subseteq disk.known
    /\ unlinked \subseteq data \ linked
    /\ \A b \in Block : seqId[b] > 0 => b \in linked
    /\ count.invalidate = 0 /\ count.reconsider = 0 =>
        /\ \A b \in data : Path(b) \subseteq data => b \in linked
        /\ \A b \in data \ linked : b \in unlinked \/ Pprev(b) \in failedValid \cap Malformed
        /\ failedChild \subseteq linked
        /\ failedValid \subseteq linked \cup Malformed
        /\ disk.failedChild \subseteq LoadLinked(disk.data)
        /\ disk.failedValid \subseteq LoadLinked(disk.data) \cup Malformed

\* Every call of ActivateBestChain returns, whatever other threads do meanwhile.
ActivationEnds == \A t \in Threads : pc[t] = "loop" ~> pc[t] = "idle"
=============================================================================
