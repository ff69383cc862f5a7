------------------------------ MODULE BlockTree ------------------------------
(***************************************************************************)
(* The tree of blocks (chain.h, chain.cpp).                                *)
(*                                                                         *)
(* A block's hash commits to its parent's hash and so to its whole         *)
(* ancestry.  A block is therefore modelled by the path of payloads from   *)
(* the genesis block to it: the parent is the path without its last        *)
(* payload, the height is the length less one, and two blocks are the same *)
(* block exactly when their paths are equal.                               *)
(***************************************************************************)
EXTENDS Integers, Sequences

CONSTANTS
    Payload,  \* what one block contributes (its transactions)
    Block,    \* the blocks that can exist: a prefix-closed set of paths
    Genesis   \* the root

\* nHeight: the genesis block has height 0.
Height(b) == Len(b) - 1

\* CBlockIndex::GetAncestor, for a height between 0 and b's own.
Ancestor(b, h) == SubSeq(b, 1, h + 1)

\* pprev, for a block other than the genesis block.
Pprev(b) == Ancestor(b, Height(b) - 1)

\* CChain::Contains for the chain that ends in tip.
Contains(tip, b) == Height(b) <= Height(tip) /\ Ancestor(tip, Height(b)) = b

\* The blocks from height lo up to b on the chain that ends in b.
Branch(b, lo) == {Ancestor(b, h) : h \in lo..Height(b)}

\* A block's ancestors and itself.
Path(b) == Branch(b, 0)

ASSUME BlockAssumption ==
    /\ Block \subseteq Seq(Payload)
    /\ Genesis \in Block
    /\ Len(Genesis) = 1
    /\ \A b \in Block :
        /\ Len(b) >= 1
        /\ Ancestor(b, 0) = Genesis
        /\ \A h \in 0..Height(b) : Ancestor(b, h) \in Block
=============================================================================
