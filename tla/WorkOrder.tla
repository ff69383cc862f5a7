------------------------------ MODULE WorkOrder ------------------------------
(***************************************************************************)
(* CBlockIndexWorkComparator of validation.cpp: when a block sorts before, *)
(* that is worse than, another one in setBlockIndexCandidates.  The        *)
(* comparator depends on how the node is configured: by default            *)
(* (ENABLE_GPoW) blocks of equal work are ordered by the times and the     *)
(* hash in their headers, without GPoW by the order they were received in. *)
(***************************************************************************)
EXTENDS BlockTree, FiniteSets

CONSTANTS
    GPoWEnabled,    \* whether ENABLE_GPoW is defined
    Work,           \* nChainWork of each block
    Time,           \* nTime
    PrecisionTime,  \* nPrecisionTime
    HashGPoW,       \* hashGPoW, as a number
    TimeError,      \* TIME_ERROR
    Address         \* the address of each block's CBlockIndex: the last tie-breaker

ASSUME OrderAssumption ==
    /\ GPoWEnabled \in BOOLEAN
    /\ Work \in [Block -> Nat]
    /\ \A b \in Block \ {Genesis} : Work[Pprev(b)] < Work[b]
    /\ Time \in [Block -> Nat] /\ PrecisionTime \in [Block -> Nat] /\ HashGPoW \in [Block -> Nat]
    /\ TimeError \in Nat
    /\ Address \in [Block -> Nat]
    /\ \A a, b \in Block : Address[a] = Address[b] => a = b

\* The parts of the order that change: ord.seq is nSequenceId, ord.bare the blocks whose
\* nPrecisionTime and hashGPoW are zero because they were loaded from disk.
PrecisionTimeOf(ord, b) == IF b \in ord.bare THEN 0 ELSE PrecisionTime[b]
HashGPoWOf(ord, b) == IF b \in ord.bare THEN 0 ELSE HashGPoW[b]

\* Among blocks of equal work without GPoW.
ReceivedLater(ord, a, b) ==
    \/ ord.seq[a] > ord.seq[b]
    \/ ord.seq[a] = ord.seq[b] /\ Address[a] > Address[b]

\* Among blocks of equal work with GPoW: precise times within TimeError of each other count as
\* equal, and the hash decides.
MinedLater(ord, a, b) ==
    \/ Time[a] > Time[b]
    \/ /\ Time[a] = Time[b]
       /\ \/ PrecisionTimeOf(ord, a) > PrecisionTimeOf(ord, b) + TimeError
          \/ /\ PrecisionTimeOf(ord, b) <= PrecisionTimeOf(ord, a) + TimeError
             /\ \/ HashGPoWOf(ord, a) > HashGPoWOf(ord, b)
                \/ HashGPoWOf(ord, a) = HashGPoWOf(ord, b) /\ Address[a] > Address[b]

\* a sorts before b.
Worse(ord, a, b) ==
    \/ Work[a] < Work[b]
    \/ Work[a] = Work[b] /\ IF GPoWEnabled THEN MinedLater(ord, a, b) ELSE ReceivedLater(ord, a, b)
=============================================================================
