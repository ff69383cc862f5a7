---------------------------- MODULE CandidateSet ----------------------------
(***************************************************************************)
(* setBlockIndexCandidates as the std::set that it is: an ordered tree     *)
(* that compares blocks with CBlockIndexWorkComparator and is read in      *)
(* order.  ChainActivation takes it for a set from which the best block    *)
(* can be taken and all worse ones deleted.  That is what a std::set does  *)
(* if the comparator is an order.                                          *)
(*                                                                         *)
(* Blocks are complete when they arrive and are valid, and nothing has     *)
(* been loaded from disk.                                                  *)
(***************************************************************************)
EXTENDS WorkOrder

S == INSTANCE SequencesExt

VARIABLES
    received,  \* the blocks received so far, in this order
    set,       \* setBlockIndexCandidates, in the order of the tree, worst first
    tip        \* chainActive.Tip()

vars == <<received, set, tip>>

\* nSequenceId of a received block is its place in the order of arrival.
Order(rec) ==
    [seq |-> [b \in Block |-> IF b \in S!ToSet(rec) THEN CHOOSE i \in DOMAIN rec : rec[i] = b ELSE 0],
     bare |-> {}]

\* std::set::insert walks down the tree and ends between two neighbours that it has compared
\* the block with.  Which ones depends on the shape of the tree.
Places(s, ord, b) ==
    {i \in 1..(Len(s) + 1) : /\ i > 1 => Worse(ord, s[i - 1], b)
                             /\ i <= Len(s) => Worse(ord, b, s[i])}

\* PruneBlockIndexCandidates erases from the beginning until a block is not worse than the tip.
Prune(s, ord, t) ==
    LET kept == {i \in DOMAIN s : \E j \in 1..i : ~Worse(ord, s[j], t)}
    IN  SubSeq(s, Len(s) - Cardinality(kept) + 1, Len(s))

\* ReceivedBlockTransactions for a block whose parent is linked.
ReceivedBlockTransactions(b) ==
    LET ord == Order(Append(received, b)) IN
    /\ b \notin S!ToSet(received) /\ b # Genesis /\ Pprev(b) \in S!ToSet(received)
    /\ received' = Append(received, b)
    /\ \/ /\ ~Worse(ord, b, tip)
          /\ \E i \in Places(set, ord, b) : set' = S!InsertAt(set, i, b)
       \/ /\ Worse(ord, b, tip)
          /\ UNCHANGED set
    /\ UNCHANGED tip

\* ActivateBestChain: FindMostWorkChain takes the last block of the set, which becomes the tip,
\* and what is worse is pruned.
ActivateBestChain ==
    /\ S!Last(set) # tip
    /\ tip' = S!Last(set)
    /\ set' = Prune(set, Order(received), tip')
    /\ UNCHANGED received

Init == received = <<Genesis>> /\ set = <<Genesis>> /\ tip = Genesis

Next == (\E b \in Block : ReceivedBlockTransactions(b)) \/ ActivateBestChain

Spec == Init /\ [][Next]_vars

-----------------------------------------------------------------------------
(* Properties.                                                             *)

\* PruneBlockIndexCandidates deletes all entries that are worse than the current tip.
PruneDeletesWorse ==
    [][ActivateBestChain => \A b \in S!ToSet(set') : ~Worse(Order(received), b, tip')]_vars
=============================================================================
