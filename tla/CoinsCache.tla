----------------------------- MODULE CoinsCache -----------------------------
(***************************************************************************)
(* The operations of CCoinsViewCache (coins.cpp), a cache of coins on top  *)
(* of another view.  A coin is the height of the block that created it,    *)
(* which is what two copies of one output on two branches differ in, and   *)
(* Coin::Clear() sets it to zero.  A view is a function from outpoints to  *)
(* coins; a cache is the set of its entries, their coins and their flags.  *)
(* The operations take sets of outpoints, as no outpoint affects another.  *)
(*                                                                         *)
(* The entries for contract states (cacheContState) are left out: AddCoin  *)
(* changes one only if it exists, and nothing creates the first one.       *)
(***************************************************************************)
EXTENDS Naturals

CONSTANT Outpoint

Spent == 0  \* Coin::IsSpent

Cache == [coin : [Outpoint -> Nat], has : SUBSET Outpoint, dirty : SUBSET Outpoint, fresh : SUBSET Outpoint]

NoEntries == [coin |-> [o \in Outpoint |-> Spent], has |-> {}, dirty |-> {}, fresh |-> {}]

\* GetCoin: what a cache on top of base shows.
See(c, base) == [o \in Outpoint |-> IF o \in c.has THEN c.coin[o] ELSE base[o]]

\* The cache without the entries for S.
Drop(c, S) ==
    [coin |-> [o \in Outpoint |-> IF o \in S THEN Spent ELSE c.coin[o]],
     has |-> c.has \ S, dirty |-> c.dirty \ S, fresh |-> c.fresh \ S]

\* FetchCoin: an entry without flags for what base has unspent.  (A base never returns a
\* spent coin, so the case in which the new entry is FRESH does not occur.)
FetchCoin(c, base, S) ==
    LET new == {o \in S \ c.has : base[o] # Spent} IN
    [coin |-> [o \in Outpoint |-> IF o \in new THEN base[o] ELSE c.coin[o]],
     has |-> c.has \cup new, dirty |-> c.dirty, fresh |-> c.fresh]

\* AddCoin throws if it would replace an unspent entry although no overwrite is possible.
AddThrows(c, S, overwrite) == \E o \in (S \ overwrite) \cap c.has : c.coin[o] # Spent

\* AddCoin: a new coin is FRESH unless it may overwrite one or the entry has changes that the
\* base does not know of.
AddFreshAlways(c, S, value, overwrite) ==
    [coin |-> [o \in Outpoint |-> IF o \in S THEN value[o] ELSE c.coin[o]],
     has |-> c.has \cup S, dirty |-> c.dirty \cup S, fresh |-> c.fresh \cup (S \ overwrite)]
AddCoin(c, S, value, overwrite) ==
    [coin |-> [o \in Outpoint |-> IF o \in S THEN value[o] ELSE c.coin[o]],
     has |-> c.has \cup S, dirty |-> c.dirty \cup S,
     fresh |-> c.fresh \cup ((S \ overwrite) \ c.dirty)]

\* SpendCoin, after the fetch: a FRESH entry is erased, another one cleared and DIRTY.
SpendCoin(c, S) ==
    LET erased == S \cap c.fresh
        cleared == (S \cap c.has) \ c.fresh
    IN  [coin |-> [o \in Outpoint |-> IF o \in S \cap c.has THEN Spent ELSE c.coin[o]],
         has |-> c.has \ erased, dirty |-> (c.dirty \ erased) \cup cleared, fresh |-> c.fresh \ erased]

\* BatchWrite throws if a child entry is FRESH and the parent has the coin.
FlushThrows(parent, child) ==
    \E o \in child.dirty \cap child.fresh \cap parent.has : parent.coin[o] # Spent

\* BatchWrite: the DIRTY entries of a child move into its parent.
BatchWrite(parent, child) ==
    LET spent == {o \in child.dirty : child.coin[o] = Spent}
        created == (child.dirty \ parent.has) \ (child.fresh \cap spent)
        erased == parent.fresh \cap spent
        moved == created \cup ((child.dirty \cap parent.has) \ erased)
    IN  [coin |-> [o \in Outpoint |-> IF o \in moved THEN child.coin[o]
                                      ELSE IF o \in erased THEN Spent ELSE parent.coin[o]],
         has |-> (parent.has \cup created) \ erased,
         dirty |-> (parent.dirty \cup moved) \ erased,
         fresh |-> (parent.fresh \cup (created \cap child.fresh)) \ erased]
=============================================================================
