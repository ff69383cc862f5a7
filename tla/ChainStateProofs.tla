-------------------------- MODULE ChainStateProofs --------------------------
(***************************************************************************)
(* Theorems about ChainState, for every tree of blocks and every set of    *)
(* transactions: the flags of the coin caches are sound, the tip is a tip  *)
(* with one durable copy, what it and the database show are the unspent    *)
(* coins of their chains, also after an interrupted flush, and nothing     *)
(* stops the node.                                                         *)
(***************************************************************************)
EXTENDS ChainState, BlockTreeProofs

-----------------------------------------------------------------------------
(* The operations of a cache keep its flags sound.                         *)

Sound(c, base) == c.has \subseteq Outpoint /\ FlagsSound(c, base)

LEMMA NoEntriesSound ==
    ASSUME NEW base
    PROVE  Sound(NoEntries, base)
BY DEF Sound, FlagsSound, NoEntries

LEMMA SeeIsFunction ==
    ASSUME NEW c, NEW base
    PROVE  See(c, base) = [o \in Outpoint |-> See(c, base)[o]]
BY DEF See

LEMMA UnspentIsFunction ==
    ASSUME NEW b, NEW k
    PROVE  UnspentUpTo(b, k) = [o \in Outpoint |-> UnspentUpTo(b, k)[o]]
BY DEF UnspentUpTo, MadeBy

\* Reading through a cache changes neither what it shows nor its flags.
LEMMA FetchSound ==
    ASSUME NEW c, NEW base, NEW S \in SUBSET Outpoint, Sound(c, base)
    PROVE  /\ Sound(FetchCoin(c, base, S), base)
           /\ See(FetchCoin(c, base, S), base) = See(c, base)
<1> DEFINE d == FetchCoin(c, base, S)
           new == {o \in S \ c.has : base[o] # Spent}
<1>1. /\ d.has = c.has \cup new /\ d.dirty = c.dirty /\ d.fresh = c.fresh
      /\ \A o \in Outpoint : d.coin[o] = IF o \in new THEN base[o] ELSE c.coin[o]
  BY DEF FetchCoin
<1> HIDE DEF d
<1>2. Sound(d, base)
  BY <1>1 DEF Sound, FlagsSound
<1>3. \A o \in Outpoint : (IF o \in d.has THEN d.coin[o] ELSE base[o]) = (IF o \in c.has THEN c.coin[o] ELSE base[o])
  BY <1>1
<1>4. See(d, base) = See(c, base)
  BY <1>3 DEF See
<1> QED
  BY <1>2, <1>4 DEF d

\* Uncache: an entry may go when it has no flags.
LEMMA DropSound ==
    ASSUME NEW c, NEW base, NEW S, Sound(c, base)
    PROVE  /\ Sound(Drop(c, S), base)
           /\ S \cap c.dirty = {} => See(Drop(c, S), base) = See(c, base)
<1> DEFINE d == Drop(c, S)
<1>1. /\ d.has = c.has \ S /\ d.dirty = c.dirty \ S /\ d.fresh = c.fresh \ S
      /\ \A o \in Outpoint : d.coin[o] = IF o \in S THEN Spent ELSE c.coin[o]
  BY DEF Drop
<1> HIDE DEF d
<1>2. Sound(d, base)
  BY <1>1 DEF Sound, FlagsSound
<1>3. ASSUME S \cap c.dirty = {}
      PROVE  \A o \in Outpoint : (IF o \in d.has THEN d.coin[o] ELSE base[o]) = (IF o \in c.has THEN c.coin[o] ELSE base[o])
  BY <1>1, <1>3 DEF Sound, FlagsSound
<1>4. S \cap c.dirty = {} => See(d, base) = See(c, base)
  BY <1>3 DEF See
<1> QED
  BY <1>2, <1>4 DEF d

LEMMA SpendSound ==
    ASSUME NEW c, NEW base, NEW S \in SUBSET Outpoint, Sound(c, base)
    PROVE  Sound(SpendCoin(c, S), base)
<1> DEFINE d == SpendCoin(c, S)
<1>1. /\ d.has = c.has \ (S \cap c.fresh) /\ d.fresh = c.fresh \ (S \cap c.fresh)
      /\ d.dirty = (c.dirty \ (S \cap c.fresh)) \cup ((S \cap c.has) \ c.fresh)
      /\ \A o \in Outpoint : d.coin[o] = IF o \in S \cap c.has THEN Spent ELSE c.coin[o]
  BY DEF SpendCoin
<1> HIDE DEF d
<1>2. Sound(d, base)
  BY <1>1 DEF Sound, FlagsSound
<1> QED
  BY <1>2 DEF d

\* A new coin may be FRESH only where the base has none.
LEMMA AddSound ==
    ASSUME NEW c, NEW base, NEW S \in SUBSET Outpoint, NEW value, NEW overwrite, Sound(c, base),
           \A o \in (S \ overwrite) \ c.dirty : base[o] = Spent
    PROVE  Sound(AddCoin(c, S, value, overwrite), base)
<1> DEFINE d == AddCoin(c, S, value, overwrite)
<1>1. /\ d.has = c.has \cup S /\ d.dirty = c.dirty \cup S
      /\ d.fresh = c.fresh \cup ((S \ overwrite) \ c.dirty)
      /\ \A o \in Outpoint : d.coin[o] = IF o \in S THEN value[o] ELSE c.coin[o]
  BY DEF AddCoin
<1> HIDE DEF d
<1>2. Sound(d, base)
  BY <1>1 DEF Sound, FlagsSound
<1> QED
  BY <1>2 DEF d

\* The same where the overwrites are what HaveCoin has found.
LEMMA AddFoundSound ==
    ASSUME NEW c, NEW base, NEW S \in SUBSET Outpoint, NEW value, Sound(c, base)
    PROVE  Sound(AddCoin(c, S, value, Have(c, base, S)), base)
<1>1. \A o \in (S \ Have(c, base, S)) \ c.dirty : base[o] = Spent
  BY DEF Have, Sound, FlagsSound
<1> QED
  BY <1>1, AddSound

\* Flush: the parent stays sound, shows what the child has shown, and nothing is thrown.
LEMMA BatchSound ==
    ASSUME NEW parent, NEW child, NEW base, Sound(parent, base), Sound(child, See(parent, base))
    PROVE  /\ Sound(BatchWrite(parent, child), base)
           /\ See(BatchWrite(parent, child), base) = See(child, See(parent, base))
           /\ ~FlushThrows(parent, child)
<1> DEFINE d == BatchWrite(parent, child)
           spent == {o \in child.dirty : child.coin[o] = Spent}
           created == (child.dirty \ parent.has) \ (child.fresh \cap spent)
           erased == parent.fresh \cap spent
           moved == created \cup ((child.dirty \cap parent.has) \ erased)
<1>1. /\ d.has = (parent.has \cup created) \ erased
      /\ d.dirty = (parent.dirty \cup moved) \ erased
      /\ d.fresh = (parent.fresh \cup (created \cap child.fresh)) \ erased
      /\ \A o \in Outpoint : d.coin[o] = IF o \in moved THEN child.coin[o]
                                         ELSE IF o \in erased THEN Spent ELSE parent.coin[o]
  BY DEF BatchWrite
<1>2. \A o \in Outpoint : See(parent, base)[o] = IF o \in parent.has THEN parent.coin[o] ELSE base[o]
  BY DEF See
<1>3. /\ parent.has \subseteq Outpoint /\ child.has \subseteq Outpoint
      /\ parent.fresh \subseteq parent.dirty /\ parent.dirty \subseteq parent.has
      /\ child.fresh \subseteq child.dirty /\ child.dirty \subseteq child.has
      /\ \A o \in parent.has \ parent.dirty : parent.coin[o] = base[o]
      /\ \A o \in parent.fresh : base[o] = Spent
      /\ \A o \in child.has \ child.dirty : child.coin[o] = See(parent, base)[o]
      /\ \A o \in child.fresh : See(parent, base)[o] = Spent
  BY DEF Sound, FlagsSound
<1>4. ~FlushThrows(parent, child)
  BY <1>2, <1>3 DEF FlushThrows
<1> HIDE DEF d
<1>5. d.has \subseteq Outpoint /\ d.fresh \subseteq d.dirty /\ d.dirty \subseteq d.has
  BY <1>1, <1>3
<1>6. \A o \in d.has \ d.dirty : d.coin[o] = base[o]
  BY <1>1, <1>3
<1>7. \A o \in d.fresh : base[o] = Spent
  BY <1>1, <1>2, <1>3
<1>8. \A o \in Outpoint : (IF o \in d.has THEN d.coin[o] ELSE base[o])
                          = (IF o \in child.has THEN child.coin[o] ELSE See(parent, base)[o])
  <2> SUFFICES ASSUME NEW o \in Outpoint
               PROVE  (IF o \in d.has THEN d.coin[o] ELSE base[o])
                          = (IF o \in child.has THEN child.coin[o] ELSE See(parent, base)[o])
    OBVIOUS
  <2>1. CASE o \in moved
    BY <1>1, <1>3, <2>1
  <2>2. CASE o \in erased
    BY <1>1, <1>3, <2>2
  <2>3. CASE o \notin moved \cup erased /\ o \in child.dirty
    BY <1>1, <1>2, <1>3, <2>3
  <2>4. CASE o \notin child.dirty
    BY <1>1, <1>2, <1>3, <2>4
  <2> QED
    BY <2>1, <2>2, <2>3, <2>4
<1>9. See(d, base) = See(child, See(parent, base))
  BY <1>8 DEF See
<1> QED
  BY <1>4, <1>5, <1>6, <1>7, <1>9 DEF d, Sound, FlagsSound

-----------------------------------------------------------------------------
(* The place of the thread, and the tip and its durable copy.              *)

\* Where the thread is: the block in hand, in the work that needs to know of it, is the next one,
\* the tip, or a block on the way to the tip.
PlaceInv ==
    /\ best \in Block /\ block \in Block
    /\ dbBest \in Block \cup {NoBlock}
    /\ dbHeads # <<>> => dbHeads[1] \in Block /\ dbHeads[2] \in Block \cup {NoBlock}
    /\ i \in Nat
    /\ pc \in {"connect", "rollforward"} => i > 0
    /\ pc \in {"disconnect", "rollback"} => i <= Len(Txs[block])
    /\ pc = "connect" => block # Genesis /\ Pprev(block) = best
    /\ pc = "disconnect" => best # Genesis /\ block = best
    /\ pc = "rollforward" => Contains(best, block)

LEMMA TxsFacts ==
    ASSUME NEW b \in Block
    PROVE  /\ Len(Txs[b]) \in Nat
           /\ \A k \in 1..Len(Txs[b]) :
                /\ Txs[b][k].in \in SUBSET Outpoint
                /\ Txs[b][k].out \in SUBSET Outputs(b)
           /\ Outputs(b) \in SUBSET Outpoint
<1>1. Txs[b] \in Seq([in : SUBSET Outpoint, out : SUBSET Outpoint])
  BY TxsAssumption, ZenonT(40)
<1>2. Len(Txs[b]) \in Nat /\ \A k \in 1..Len(Txs[b]) : Txs[b][k] \in [in : SUBSET Outpoint, out : SUBSET Outpoint]
  BY <1>1, ElementOfSeq, ZenonT(40)
<1>3. \A k \in 1..Len(Txs[b]) : Txs[b][k].in \in SUBSET Outpoint /\ Txs[b][k].out \in SUBSET Outpoint
  BY <1>2
<1> QED
  BY <1>2, <1>3 DEF Outputs

LEMMA PlaceFacts ==
    ASSUME PlaceInv
    PROVE  /\ best \in Block /\ block \in Block /\ i \in Nat /\ Len(Txs[block]) \in Nat
           /\ pc \in {"connect", "rollforward"} => i \in Nat \ {0}
           /\ pc \in {"disconnect", "rollback"} => i \in 0..Len(Txs[block])
           /\ pc \in {"disconnect", "rollback"} /\ i > 0 => i \in 1..Len(Txs[block])
<1>1. Len(Txs[block]) \in Nat
  BY TxsFacts DEF PlaceInv
<1> QED
  BY <1>1 DEF PlaceInv

LEMMA ParentFacts ==
    ASSUME NEW b \in Block, b # Genesis
    PROVE  Pprev(b) \in Block /\ Height(Pprev(b)) = Height(b) - 1
<1>1. Height(b) \in Nat /\ Height(b) # 0
  BY AncestorSelf, GenesisUnique
<1>2. Height(b) - 1 \in 0..Height(b)
  BY <1>1
<1> QED
  BY <1>2, AncestorProperties DEF Pprev

LEMMA ContainsGenesis ==
    ASSUME NEW tip \in Block
    PROVE  Contains(tip, Genesis)
<1>1. Height(tip) \in Nat /\ Height(Genesis) = 0 /\ Ancestor(tip, 0) = Genesis
  BY AncestorSelf, GenesisUnique, BlockAssumption
<1> QED
  BY <1>1 DEF Contains

\* The block after one on the way to the tip is on it, too.
LEMMA NextOnTheWay ==
    ASSUME NEW tip \in Block, NEW b \in Block, Contains(tip, b), b # tip
    PROVE  /\ Ancestor(tip, Height(b) + 1) \in Block
           /\ Contains(tip, Ancestor(tip, Height(b) + 1))
<1>1. Height(tip) \in Nat /\ Height(b) \in Nat /\ Ancestor(tip, Height(tip)) = tip
  BY AncestorSelf
<1>2. Height(b) <= Height(tip) /\ Ancestor(tip, Height(b)) = b
  BY DEF Contains
<1>3. Height(b) # Height(tip)
  BY <1>1, <1>2
<1>4. Height(b) + 1 \in 0..Height(tip)
  BY <1>1, <1>2, <1>3
<1>5. /\ Ancestor(tip, Height(b) + 1) \in Block
      /\ Height(Ancestor(tip, Height(b) + 1)) = Height(b) + 1
  BY <1>4, AncestorProperties
<1> QED
  BY <1>4, <1>5 DEF Contains

LEMMA PlaceInit == Init => PlaceInv
BY BlockAssumption DEF Init, PlaceInv

LEMMA PlaceOnward ==
    ASSUME PlaceInv, Contains(best, block), Onward(block), UNCHANGED <<disk, best>>
    PROVE  PlaceInv'
<1>1. CASE block = best
  BY <1>1 DEF PlaceInv, Onward, disk
<1>2. CASE block # best
  <2>1. block' \in Block /\ Contains(best, block') /\ i' = 1 /\ pc' = "rollforward"
    BY <1>2, NextOnTheWay DEF PlaceInv, Onward, Begin
  <2> QED
    BY <2>1 DEF PlaceInv, disk
<1> QED
  BY <1>1, <1>2

LEMMA PlaceCrash ==
    ASSUME PlaceInv, Crash
    PROVE  PlaceInv'
<1>1. best' \in Block
  BY BlockAssumption DEF Crash, RestartAt, PlaceInv
<1>2. CASE dbHeads = <<>>
  BY <1>1, <1>2 DEF PlaceInv, Crash, Idle, disk
<1>3. CASE dbHeads # <<>>
  <2>1. block' \in Block /\ pc' = "rollback" /\ i' = Len(Txs[block'])
    BY <1>3, BlockAssumption DEF PlaceInv, Crash, BeginBack
  <2>2. i' \in Nat
    BY <2>1, TxsFacts
  <2> QED
    BY <1>1, <2>1, <2>2 DEF PlaceInv, Crash, disk
<1> QED
  BY <1>2, <1>3

LEMMA PlaceRollback ==
    ASSUME PlaceInv, RollbackNext
    PROVE  PlaceInv'
<1>1. CASE undo[block] = <<>>
  BY <1>1 DEF PlaceInv, RollbackNext, disk
<1>2. CASE undo[block] # <<>> /\ i > 0
  BY <1>2 DEF PlaceInv, RollbackNext, disk
<1>3. CASE undo[block] # <<>> /\ ~(i > 0)
  <2>1. block # Genesis
    BY ContainsGenesis DEF RollbackNext, PlaceInv
  <2>2. block' \in Block /\ pc' = "rollback" /\ i' = Len(Txs[block'])
    BY <1>3, <2>1, ParentFacts DEF PlaceInv, RollbackNext, BeginBack
  <2>3. i' \in Nat
    BY <2>2, TxsFacts
  <2> QED
    BY <2>2, <2>3 DEF PlaceInv, RollbackNext, disk
<1> QED
  BY <1>1, <1>2, <1>3

LEMMA PlaceFlush ==
    ASSUME PlaceInv, NEW b \in Block, FlushView(b), UNCHANGED disk
    PROVE  PlaceInv'
BY DEF PlaceInv, FlushView, disk

LEMMA PlaceNext ==
    ASSUME PlaceInv, [Next]_vars
    PROVE  PlaceInv'
<1> USE DEF disk, job
<1>1. ASSUME NEW o \in Outpoint, AccessCoin(o) \/ Uncache(o)
      PROVE  PlaceInv'
  BY <1>1 DEF PlaceInv, AccessCoin, Uncache
<1>2. ASSUME NEW b \in Block, ConnectTip(b)
      PROVE  PlaceInv'
  BY <1>2 DEF PlaceInv, ConnectTip, Begin
<1>3. ASSUME ConnectNext
      PROVE  PlaceInv'
  BY <1>3 DEF PlaceInv, ConnectNext, Idle
<1>4. ASSUME ConnectEnd
      PROVE  PlaceInv'
  BY <1>4, PlaceFlush DEF ConnectEnd, PlaceInv
<1>5. ASSUME DisconnectTip
      PROVE  PlaceInv'
  <2>1. Len(Txs[best]) \in Nat
    BY TxsFacts DEF PlaceInv
  <2> QED
    BY <1>5, <2>1 DEF PlaceInv, DisconnectTip, BeginBack
<1>6. ASSUME DisconnectNext
      PROVE  PlaceInv'
  BY <1>6 DEF PlaceInv, DisconnectNext
<1>7. ASSUME DisconnectEnd
      PROVE  PlaceInv'
  <2>1. Pprev(block) \in Block
    BY <1>7, ParentFacts DEF DisconnectEnd, PlaceInv
  <2> QED
    BY <1>7, <2>1, PlaceFlush DEF DisconnectEnd
<1>8. ASSUME NEW full \in BOOLEAN, FlushStateToDisk(full)
      PROVE  PlaceInv'
  BY <1>8 DEF PlaceInv, FlushStateToDisk
<1>9. ASSUME NEW S, WriteBatch(S)
      PROVE  PlaceInv'
  <2>1. OldTip \in Block \cup {NoBlock}
    BY DEF OldTip, PlaceInv
  <2>2. dbHeads'[1] = best /\ dbHeads'[2] = OldTip
    BY <1>9 DEF WriteBatch
  <2> QED
    BY <1>9, <2>1, <2>2 DEF PlaceInv, WriteBatch
<1>10. ASSUME WriteEnd
       PROVE  PlaceInv'
  BY <1>10 DEF PlaceInv, WriteEnd, Idle
<1>11. ASSUME RollbackEnd
       PROVE  PlaceInv'
  BY <1>11, PlaceOnward DEF RollbackEnd
<1>12. ASSUME RollforwardNext
       PROVE  PlaceInv'
  <2>1. CASE i <= Len(Txs[block])
    BY <1>12, <2>1 DEF PlaceInv, RollforwardNext
  <2>2. CASE ~(i <= Len(Txs[block]))
    BY <1>12, <2>2, PlaceOnward DEF PlaceInv, RollforwardNext
  <2> QED
    BY <2>1, <2>2
<1>13. ASSUME UNCHANGED vars
       PROVE  PlaceInv'
  BY <1>13 DEF PlaceInv, vars
<1> QED
  BY <1>1, <1>2, <1>3, <1>4, <1>5, <1>6, <1>7, <1>8, <1>9, <1>10, <1>11, <1>12, <1>13, PlaceCrash, PlaceRollback DEF Next, Continue

\* The block in hand is the child of the tip in ConnectTip, the tip in DisconnectTip, and in
\* ReplayBlocks on the way to the tip.
THEOREM PlaceInvariant == Spec => []PlaceInv
BY PlaceInit, PlaceNext, PTL DEF Spec

\* The chainstate behaves as a tip with one durable copy, whatever is flushed in however many
\* batches and wherever the process crashes (CCoinsViewDB::BatchWrite and ReplayBlocks).
THEOREM TipIsDurable == Spec => ImplementsDurableTip
<1>1. Init => Durable!Init
  BY DEF Init, Durable!Init, Stored
<1>2. PlaceInv /\ [Next]_vars => [Durable!Next]_<<best, Stored>>
  <2> SUFFICES ASSUME PlaceInv, [Next]_vars
               PROVE  [Durable!Next]_<<best, Stored>>
    OBVIOUS
  <2> USE DEF disk
  <2>1. ASSUME UNCHANGED <<disk, best>>
        PROVE  UNCHANGED <<best, Stored>>
    BY <2>1 DEF Stored
  <2>2. ASSUME NEW b \in Block, b # Genesis, Pprev(b) = best, FlushView(b), UNCHANGED disk
        PROVE  [Durable!Next]_<<best, Stored>>
    <3>1. Stored' = Stored
      BY <2>2 DEF Stored
    <3>2. best' = best \/ best' = b
      BY <2>2 DEF FlushView
    <3> QED
      BY <2>2, <3>1, <3>2 DEF Durable!Next, Durable!Connect, Pprev, Durable!Pprev, Ancestor, Durable!Ancestor, Height, Durable!Height
  <2>3. ASSUME ConnectEnd
        PROVE  [Durable!Next]_<<best, Stored>>
    BY <2>2, <2>3 DEF ConnectEnd, PlaceInv
  <2>4. ASSUME DisconnectEnd
        PROVE  [Durable!Next]_<<best, Stored>>
    <3>1. Stored' = Stored
      BY <2>4 DEF Stored, DisconnectEnd
    <3>2. best # Genesis /\ (best' = best \/ best' = Pprev(best))
      BY <2>4 DEF DisconnectEnd, FlushView, PlaceInv
    <3> QED
      BY <3>1, <3>2 DEF Durable!Next, Durable!Disconnect, Pprev, Durable!Pprev, Ancestor, Durable!Ancestor, Height, Durable!Height
  <2>5. ASSUME NEW S, WriteBatch(S)
        PROVE  [Durable!Next]_<<best, Stored>>
    <3>1. dbHeads' # <<>> /\ dbHeads'[1] = best
      BY <2>5 DEF WriteBatch
    <3>2. Stored' = best /\ best' = best
      BY <2>5, <3>1 DEF WriteBatch, Stored
    <3> QED
      BY <3>2 DEF Durable!Next, Durable!Store
  <2>6. ASSUME WriteEnd
        PROVE  [Durable!Next]_<<best, Stored>>
    <3>1. Stored' = best /\ best' = best
      BY <2>6, NoBlockAssumption DEF WriteEnd, Stored, PlaceInv
    <3> QED
      BY <3>1 DEF Durable!Next, Durable!Store
  <2>7. ASSUME Crash
        PROVE  [Durable!Next]_<<best, Stored>>
    <3>1. best' = Stored /\ Stored' = Stored
      BY <2>7 DEF Crash, RestartAt, Stored
    <3> QED
      BY <3>1 DEF Durable!Next, Durable!Crash
  <2>8. ASSUME \/ \E o \in Outpoint : AccessCoin(o) \/ Uncache(o)
               \/ \E b \in Block : ConnectTip(b)
               \/ DisconnectTip \/ ConnectNext \/ DisconnectNext
               \/ \E full \in BOOLEAN : FlushStateToDisk(full)
               \/ RollbackNext \/ RollbackEnd \/ RollforwardNext
               \/ UNCHANGED vars
        PROVE  [Durable!Next]_<<best, Stored>>
    <3>1. UNCHANGED <<disk, best>>
      BY <2>8, ZenonT(40) DEF AccessCoin, Uncache, ConnectTip, DisconnectTip, ConnectNext, DisconnectNext,
             FlushStateToDisk, RollbackNext, RollbackEnd, RollforwardNext, vars
    <3> QED
      BY <2>1, <3>1
  <2> QED
    BY <2>3, <2>4, <2>5, <2>6, <2>7, <2>8 DEF Next, Continue
<1> QED
  BY <1>1, <1>2, PlaceInvariant, PTL DEF Spec, ImplementsDurableTip, Durable!Spec

-----------------------------------------------------------------------------
(* The caches.                                                             *)

\* The flags are sound; a block is being connected only if the tip has none of its outputs
\* (BIP30), and ReplayBlocks works in pcoinsTip itself, with no view on top of it.
CacheInv ==
    /\ Sound(coins, db) /\ Sound(view, Tip)
    /\ pc = "connect" => \A o \in Outputs(block) : Tip[o] = Spent
    /\ pc \in {"rollback", "rollforward"} => view = NoEntries

LEMMA UpdateSound ==
    ASSUME NEW c, NEW base, NEW b \in Block, NEW k \in 1..Len(Txs[b]), Sound(c, base),
           \A o \in Outputs(b) : base[o] = Spent
    PROVE  Sound(UpdateCoins(c, base, b, k), base)
<1> DEFINE in == Txs[b][k].in
           out == Txs[b][k].out
           found == FetchCoin(c, base, in)
           spent == SpendCoin(found, in)
           overwrite == IF k = 1 THEN out ELSE {}
<1>1. in \in SUBSET Outpoint /\ out \in SUBSET Outpoint /\ out \in SUBSET Outputs(b)
  BY TxsFacts
<1>2. \A o \in (out \ overwrite) \ spent.dirty : base[o] = Spent
  BY <1>1
<1> HIDE DEF in, out, overwrite
<1>3. Sound(found, base)
  BY <1>1, FetchSound
<1> HIDE DEF found
<1>4. Sound(spent, base)
  BY <1>1, <1>3, SpendSound
<1> HIDE DEF spent
<1>5. Sound(AddCoin(spent, out, At(b), overwrite), base)
  BY <1>1, <1>2, <1>4, AddSound
<1> QED
  BY <1>5, ZenonT(40) DEF UpdateCoins, spent, found, overwrite, in, out

LEMMA RollforwardSound ==
    ASSUME NEW c, NEW base, NEW b \in Block, NEW k \in 1..Len(Txs[b]), Sound(c, base)
    PROVE  Sound(RollforwardTx(c, base, b, k), base)
<1> DEFINE in == Txs[b][k].in
           out == Txs[b][k].out
           fetched == FetchCoin(c, base, in)
           spent == SpendCoin(fetched, in)
           found == FetchCoin(spent, base, out)
<1>1. in \in SUBSET Outpoint /\ out \in SUBSET Outpoint
  BY TxsFacts
<1> HIDE DEF in, out
<1>2. Sound(fetched, base)
  BY <1>1, FetchSound
<1> HIDE DEF fetched
<1>3. Sound(spent, base)
  BY <1>1, <1>2, SpendSound
<1> HIDE DEF spent
<1>4. Sound(found, base)
  BY <1>1, <1>3, FetchSound
<1> HIDE DEF found
<1>5. Sound(AddCoin(found, out, At(b), Have(found, base, out)), base)
  BY <1>1, <1>4, AddFoundSound
<1> QED
  BY <1>5 DEF RollforwardTx, found, spent, fetched, in, out

LEMMA DisconnectSound ==
    ASSUME NEW c, NEW base, NEW b \in Block, NEW k \in 1..Len(Txs[b]), Sound(c, base)
    PROVE  Sound(DisconnectTx(c, base, b, k), base)
<1> DEFINE in == Txs[b][k].in
           out == Txs[b][k].out
           fetched == FetchCoin(c, base, out)
           spent == SpendCoin(fetched, out)
           found == FetchCoin(spent, base, in)
<1>1. in \in SUBSET Outpoint /\ out \in SUBSET Outpoint
  BY TxsFacts
<1> HIDE DEF in, out
<1>2. Sound(fetched, base)
  BY <1>1, FetchSound
<1> HIDE DEF fetched
<1>3. Sound(spent, base)
  BY <1>1, <1>2, SpendSound
<1> HIDE DEF spent
<1>4. Sound(found, base)
  BY <1>1, <1>3, FetchSound
<1> HIDE DEF found
<1>5. Sound(AddCoin(found, in, undo[b][k], Have(found, base, in)), base)
  BY <1>1, <1>4, AddFoundSound
<1> QED
  BY <1>5 DEF DisconnectTx, Unspend, found, spent, fetched, in, out

\* While a flush is being written, what pcoinsTip shows stays the same.
LEMMA PutSame ==
    ASSUME Sound(coins, db), NEW S \in SUBSET coins.dirty, Put(S), coins' = Drop(coins, S)
    PROVE  Sound(coins, db)' /\ Tip' = Tip
<1>1. /\ coins'.has = coins.has \ S /\ coins'.dirty = coins.dirty \ S /\ coins'.fresh = coins.fresh \ S
      /\ \A o \in Outpoint : coins'.coin[o] = IF o \in S THEN Spent ELSE coins.coin[o]
  BY DEF Drop
<1>2. \A o \in Outpoint : db'[o] = IF o \in S THEN coins.coin[o] ELSE db[o]
  BY DEF Put
<1>3. /\ coins.has \subseteq Outpoint /\ coins.fresh \subseteq coins.dirty /\ coins.dirty \subseteq coins.has
      /\ \A o \in coins.has \ coins.dirty : coins.coin[o] = db[o]
      /\ \A o \in coins.fresh : db[o] = Spent
  BY DEF Sound, FlagsSound
<1>4. Sound(coins, db)'
  BY <1>1, <1>2, <1>3 DEF Sound, FlagsSound
<1>5. \A o \in Outpoint : (IF o \in coins'.has THEN coins'.coin[o] ELSE db'[o])
                          = (IF o \in coins.has THEN coins.coin[o] ELSE db[o])
  BY <1>1, <1>2, <1>3
<1> QED
  BY <1>4, <1>5 DEF Tip, See

LEMMA WriteEndSame ==
    ASSUME Sound(coins, db), WriteEnd
    PROVE  Sound(coins, db)' /\ Tip' = Tip
<1>1. coins'.has = {} /\ Sound(coins, db)'
  BY NoEntriesSound, ZenonT(40) DEF WriteEnd, NoEntries
<1>2. \A o \in Outpoint : db'[o] = IF o \in coins.dirty THEN coins.coin[o] ELSE db[o]
  BY DEF WriteEnd, Put
<1>3. /\ coins.dirty \subseteq coins.has
      /\ \A o \in coins.has \ coins.dirty : coins.coin[o] = db[o]
  BY DEF Sound, FlagsSound
<1>4. \A o \in Outpoint : (IF o \in coins'.has THEN coins'.coin[o] ELSE db'[o])
                          = (IF o \in coins.has THEN coins.coin[o] ELSE db[o])
  BY <1>1, <1>2, <1>3
<1> QED
  BY <1>1, <1>4 DEF Tip, See

\* Reading through pcoinsTip.
LEMMA FetchSame ==
    ASSUME Sound(coins, db), NEW S \in SUBSET Outpoint, coins' = FetchCoin(coins, db, S), db' = db
    PROVE  Sound(coins, db)' /\ Tip' = Tip
BY FetchSound DEF Tip

\* What a step does to the caches: most steps leave what pcoinsTip shows alone.
Same == Sound(coins, db)' /\ Tip' = Tip

LEMMA ConnectCaches ==
    ASSUME PlaceInv, CacheInv, ConnectNext
    PROVE  CacheInv' /\ Same
<1> DEFINE in == Txs[block][i].in
<1>1. block \in Block /\ i \in 1..Len(Txs[block]) /\ pc = "connect"
  BY DEF PlaceInv, ConnectNext
<1>2. in \in SUBSET Outpoint
  BY <1>1, TxsFacts
<1>3. Same
  <2>1. \E S \in SUBSET Outpoint : coins' = FetchCoin(coins, db, S)
    BY <1>2, ZenonT(40) DEF ConnectNext
  <2>2. db' = db
    BY DEF ConnectNext, disk
  <2> QED
    BY <2>1, <2>2, FetchSame DEF CacheInv, Same
<1>4. Sound(UpdateCoins(view, Tip, block, i), Tip)
  BY <1>1, UpdateSound DEF CacheInv
<1>5. view' = view \/ view' = NoEntries \/ view' = UpdateCoins(view, Tip, block, i)
  BY DEF ConnectNext
<1>6. Sound(view', Tip)
  BY <1>4, <1>5, NoEntriesSound DEF CacheInv
<1>7. block' = block /\ pc' \in {"connect", "idle", "abort"}
  BY <1>1 DEF ConnectNext, Idle
<1> QED
  BY <1>1, <1>3, <1>6, <1>7 DEF CacheInv, Same

LEMMA DisconnectCaches ==
    ASSUME PlaceInv, CacheInv, DisconnectNext
    PROVE  CacheInv' /\ Same
<1> DEFINE touched == Txs[block][i].out \cup Txs[block][i].in
<1>1. block \in Block /\ i \in 1..Len(Txs[block]) /\ pc = "disconnect"
  BY TxsFacts DEF PlaceInv, DisconnectNext
<1>2. touched \in SUBSET Outpoint
  BY <1>1, TxsFacts
<1>3. Same
  BY <1>2, FetchSame, ZenonT(40) DEF DisconnectNext, CacheInv, Same, disk
<1>4. Sound(view', Tip)
  BY <1>1, DisconnectSound, ZenonT(40) DEF CacheInv, DisconnectNext
<1>5. pc' \in {"disconnect", "abort"}
  BY <1>1 DEF DisconnectNext
<1> QED
  BY <1>3, <1>4, <1>5 DEF CacheInv, Same

LEMMA FlushCaches ==
    ASSUME CacheInv, NEW b, FlushView(b), db' = db
    PROVE  CacheInv'
<1>1. Sound(BatchWrite(coins, view), db)
  BY BatchSound DEF CacheInv, Tip
<1>2. Sound(coins, db)' /\ view' = NoEntries /\ pc' \in {"idle", "abort"}
  BY <1>1 DEF FlushView, CacheInv
<1> QED
  BY <1>2, NoEntriesSound DEF CacheInv

LEMMA ReplayCaches ==
    ASSUME PlaceInv, CacheInv, RollbackNext \/ RollbackEnd \/ RollforwardNext
    PROVE  CacheInv'
<1>1. block \in Block /\ Len(Txs[block]) \in Nat /\ i \in Nat
  BY TxsFacts DEF PlaceInv
<1>2. pc \in {"rollback", "rollforward"} /\ view = NoEntries /\ view' = NoEntries /\ db' = db
  BY DEF RollbackNext, RollbackEnd, RollforwardNext, CacheInv, disk
<1>3. pc' # "connect"
  BY <1>2 DEF RollbackNext, RollbackEnd, RollforwardNext, Onward, Begin, BeginBack
<1>4. Sound(coins', db)
  <2>1. CASE coins' = coins
    BY <2>1 DEF CacheInv
  <2>2. CASE i \in 1..Len(Txs[block]) /\ coins' = DisconnectTx(coins, db, block, i)
    BY <1>1, <2>2, DisconnectSound DEF CacheInv
  <2>3. CASE i \in 1..Len(Txs[block]) /\ coins' = RollforwardTx(coins, db, block, i)
    BY <1>1, <2>3, RollforwardSound DEF CacheInv
  <2> QED
    BY <1>1, <2>1, <2>2, <2>3 DEF RollbackNext, RollbackEnd, RollforwardNext, PlaceInv
<1> QED
  BY <1>2, <1>3, <1>4, NoEntriesSound DEF CacheInv

\* Steps that leave the view alone, or drop it, and what pcoinsTip shows.
LEMMA SameCaches ==
    ASSUME CacheInv, Same, view' = view \/ view' = NoEntries,
           pc' \in {"connect", "rollback", "rollforward"} => pc' = pc /\ block' = block
    PROVE  CacheInv'
<1>1. Sound(view', Tip)
  BY NoEntriesSound DEF CacheInv
<1> QED
  BY <1>1 DEF CacheInv, Same

LEMMA ConnectTipCaches ==
    ASSUME CacheInv, NEW b \in Block, ConnectTip(b)
    PROVE  CacheInv' /\ Same
<1>1. CASE Have(coins, db, Outputs(b)) = {}
  <2>1. coins' = coins /\ db' = db /\ view' = NoEntries /\ pc' = "connect" /\ block' = b
    BY <1>1 DEF ConnectTip, Begin, disk
  <2>2. Same
    BY <2>1 DEF CacheInv, Tip, Same
  <2>3. \A o \in Outputs(b) : Tip[o] = Spent
    BY <1>1, TxsFacts DEF Have, Tip, See
  <2> QED
    BY <2>1, <2>2, <2>3, NoEntriesSound DEF CacheInv, Same
<1>2. CASE Have(coins, db, Outputs(b)) # {}
  <2>1. \E S \in SUBSET Outpoint : coins' = FetchCoin(coins, db, S)
    BY <1>2, TxsFacts DEF ConnectTip
  <2>2. db' = db /\ view' = NoEntries /\ pc' = "idle"
    BY <1>2 DEF ConnectTip, disk, job
  <2>3. Same
    BY <2>1, <2>2, FetchSame DEF CacheInv, Same
  <2> QED
    BY <2>2, <2>3, SameCaches
<1> QED
  BY <1>1, <1>2

\* The other steps that leave what pcoinsTip shows alone.
LEMMA QuietCaches ==
    ASSUME CacheInv,
           \/ \E o \in Outpoint : AccessCoin(o) \/ Uncache(o)
           \/ DisconnectTip
           \/ \E full \in BOOLEAN : FlushStateToDisk(full)
           \/ \E S \in SUBSET Outpoint : WriteBatch(S)
           \/ WriteEnd
           \/ UNCHANGED vars
    PROVE  CacheInv' /\ Same
<1>1. ASSUME NEW o \in Outpoint, AccessCoin(o)
      PROVE  Same
  BY <1>1, FetchSame DEF AccessCoin, CacheInv, Same, disk
<1>2. ASSUME NEW o \in Outpoint, Uncache(o)
      PROVE  Same
  <2>1. db' = db /\ (coins' = coins \/ (coins' = Drop(coins, {o}) /\ {o} \cap coins.dirty = {}))
    BY <1>2 DEF Uncache, disk
  <2> QED
    BY <2>1, DropSound DEF CacheInv, Tip, Same
<1>3. ASSUME coins' = coins, db' = db
      PROVE  Same
  BY <1>3 DEF CacheInv, Tip, Same
<1>4. ASSUME NEW S \in SUBSET Outpoint, WriteBatch(S)
      PROVE  Same
  BY <1>4, PutSame DEF WriteBatch, CacheInv, Same
<1>5. ASSUME WriteEnd
      PROVE  Same
  BY <1>5, WriteEndSame DEF CacheInv, Same
<1>6. Same
  BY <1>1, <1>2, <1>3, <1>4, <1>5 DEF DisconnectTip, FlushStateToDisk, vars, disk
<1>7. /\ view' = view \/ view' = NoEntries
      /\ pc' \in {"connect", "rollback", "rollforward"} => pc' = pc /\ block' = block
  BY ZenonT(40) DEF AccessCoin, Uncache, DisconnectTip, BeginBack, FlushStateToDisk, WriteBatch, WriteEnd, Idle, vars, job
<1> QED
  BY <1>6, <1>7, SameCaches

LEMMA CacheNext ==
    ASSUME PlaceInv, CacheInv, [Next]_vars
    PROVE  /\ CacheInv'
           /\ Tip' = Tip \/ ConnectEnd \/ DisconnectEnd \/ pc \in {"rollback", "rollforward"} \/ Crash
<1>1. ASSUME ConnectEnd \/ DisconnectEnd
      PROVE  CacheInv'
  BY <1>1, FlushCaches DEF ConnectEnd, DisconnectEnd, disk
<1>2. ASSUME Crash
      PROVE  CacheInv'
  <2>1. coins' = NoEntries /\ view' = NoEntries /\ pc' # "connect"
    BY <1>2 DEF Crash, Idle, BeginBack
  <2> QED
    BY <2>1, NoEntriesSound DEF CacheInv
<1>3. ASSUME RollbackNext \/ RollbackEnd \/ RollforwardNext
      PROVE  CacheInv' /\ pc \in {"rollback", "rollforward"}
  BY <1>3, ReplayCaches, ZenonT(40) DEF RollbackNext, RollbackEnd, RollforwardNext
<1> QED
  BY <1>1, <1>2, <1>3, ConnectCaches, DisconnectCaches, ConnectTipCaches, QuietCaches DEF Next, Continue, Same

LEMMA CacheInvariant == Spec => [](PlaceInv /\ CacheInv)
<1>1. Init => CacheInv
  BY NoEntriesSound DEF Init, CacheInv
<1>2. PlaceInv /\ CacheInv /\ [Next]_vars => CacheInv'
  BY CacheNext
<1> QED
  BY <1>1, <1>2, PlaceInvariant, PTL DEF Spec

\* In both caches an entry without DIRTY agrees with the view under it and a FRESH entry hides
\* nothing, in every state: so Uncache, SpendCoin of a FRESH entry and the entries a flush skips
\* lose no change.
THEOREM FlagsAreSound == Spec => []CachesSound
<1>1. CacheInv => CachesSound
  BY DEF CacheInv, CachesSound, Sound
<1> QED
  BY <1>1, CacheInvariant, PTL

\* The logic_error of CCoinsViewCache::BatchWrite ("FRESH flag misapplied") is never thrown.
THEOREM FlushNeverThrows == Spec => []~FlushThrows(coins, view)
<1>1. CacheInv => ~FlushThrows(coins, view)
  BY BatchSound DEF CacheInv, Tip
<1> QED
  BY <1>1, CacheInvariant, PTL

\* Reads, evictions, refused blocks and flushes to disk never change what pcoinsTip shows.
THEOREM CoinsOnlyMoveWithTip == Spec => CoinsMoveWithTip
<1>1. PlaceInv /\ CacheInv /\ [Next]_vars =>
        [Tip' = Tip \/ best' # best \/ pc \in {"rollback", "rollforward"} \/ Crash]_vars
  <2> SUFFICES ASSUME PlaceInv, CacheInv, [Next]_vars, ConnectEnd \/ DisconnectEnd
               PROVE  best' # best
    BY CacheNext
  <2>1. ~FlushThrows(coins, view)
    BY BatchSound DEF CacheInv, Tip
  <2>2. CASE ConnectEnd
    <3>1. best' = block /\ block \in Block /\ block # Genesis /\ Pprev(block) = best
      BY <2>1, <2>2 DEF ConnectEnd, FlushView, PlaceInv
    <3>2. Height(best) = Height(best') - 1 /\ Height(best') \in Nat
      BY <3>1, ParentFacts, AncestorSelf
    <3> QED
      BY <3>2
  <2>3. CASE DisconnectEnd
    <3>1. best' = Pprev(best) /\ best \in Block /\ best # Genesis
      BY <2>1, <2>3 DEF DisconnectEnd, FlushView, PlaceInv
    <3>2. Height(best') = Height(best) - 1 /\ Height(best) \in Nat
      BY <3>1, ParentFacts, AncestorSelf
    <3> QED
      BY <3>2
  <2> QED
    BY <2>2, <2>3
<1> QED
  BY <1>1, CacheInvariant, PTL DEF Spec, CoinsMoveWithTip
-----------------------------------------------------------------------------
(* The reference: one transaction after the other.                         *)

\* Each coin of f is the one of x or the one of y.
Mixed(f, x, y) == \A o \in Outpoint : f[o] = x[o] \/ f[o] = y[o]

\* u takes the first n transactions of b back: what each of them spends it has as it was before,
\* and what each of them makes was not there before.
Undoes(u, b, n) ==
    \A k \in 1..n :
        /\ \A o \in Txs[b][k].in : u[k][o] = UnspentUpTo(b, k - 1)[o]
        /\ \A o \in Txs[b][k].out \ Txs[b][k].in : UnspentUpTo(b, k - 1)[o] = Spent

\* The coins f after transaction k of b.
After(f, b, k) ==
    [o \in Outpoint |-> IF o \in Txs[b][k].out THEN Height(b)
                        ELSE IF o \in Txs[b][k].in THEN Spent ELSE f[o]]

LEMMA PlacesFacts ==
    ASSUME NEW b \in Block, NEW k \in 0..Len(Txs[b])
    PROVE  /\ \A p \in Places(b, k) : /\ p[1] \in Path(b) /\ p[1] \in Block /\ Height(p[1]) \in Nat
                                      /\ p[2] \in Nat /\ p[1] # Genesis /\ Height(p[1]) # 0
           /\ \A p, q \in Places(b, k) : p = q \/ Before(p, q) \/ Before(q, p)
<1>1. Len(Txs[b]) \in Nat /\ Path(b) \subseteq Block /\ b \in Path(b)
  BY TxsFacts, PathProperties
<1>2. \A p \in Places(b, k) : \E x \in Path(b) : \E l \in 1..Len(Txs[x]) : p = <<x, l>>
  <2> SUFFICES ASSUME NEW p \in Places(b, k)
               PROVE  \E x \in Path(b) : \E l \in 1..Len(Txs[x]) : p = <<x, l>>
    OBVIOUS
  <2>1. CASE p \in {b} \X (1..k)
    <3>1. PICK l \in 1..k : p = <<b, l>>
      BY <2>1
    <3>2. l \in 1..Len(Txs[b])
      BY <1>1
    <3> QED
      BY <1>1, <3>1, <3>2
  <2>2. CASE p \notin {b} \X (1..k)
    <3>1. PICK x \in Path(b) \ {b} : p \in {x} \X (1..Len(Txs[x]))
      BY <2>2 DEF Places
    <3> QED
      BY <3>1
  <2> QED
    BY <2>1, <2>2
<1>3. \A x \in Path(b) : \A l \in 1..Len(Txs[x]) : /\ x \in Block /\ Height(x) \in Nat /\ l \in Nat
                                                   /\ x # Genesis /\ Height(x) # 0
  <2> SUFFICES ASSUME NEW x \in Path(b), NEW l \in 1..Len(Txs[x])
               PROVE  x \in Block /\ Height(x) \in Nat /\ l \in Nat /\ x # Genesis /\ Height(x) # 0
    OBVIOUS
  <2>1. x \in Block /\ Height(x) \in Nat
    BY <1>1, PathProperties
  <2>2. x # Genesis
    BY GenesisAssumption
  <2> QED
    BY <2>1, <2>2, GenesisUnique
<1>4. \A p \in Places(b, k) : /\ p[1] \in Path(b) /\ p[1] \in Block /\ Height(p[1]) \in Nat
                              /\ p[2] \in Nat /\ p[1] # Genesis /\ Height(p[1]) # 0
  BY <1>2, <1>3
<1>5. ASSUME NEW p \in Places(b, k), NEW q \in Places(b, k), ~Before(p, q), ~Before(q, p)
      PROVE  p = q
  <2>1. Height(p[1]) = Height(q[1])
    BY <1>4, <1>5 DEF Before
  <2>2. p[1] = q[1]
    BY <1>4, <2>1, PathHeight
  <2>3. p[2] = q[2]
    BY <1>4, <1>5, <2>2 DEF Before
  <2> QED
    BY <1>2, <2>2, <2>3
<1> QED
  BY <1>4, <1>5

\* The lasting transaction of an output is the only one.
LEMMA LastingCoin ==
    ASSUME NEW b \in Block, NEW k \in 0..Len(Txs[b]), NEW o \in Outpoint
    PROVE  /\ Lasting(Places(b, k), o) = {} => UnspentUpTo(b, k)[o] = Spent
           /\ \A p \in Lasting(Places(b, k), o) : UnspentUpTo(b, k)[o] = Height(p[1])
<1>1. ASSUME NEW p \in Lasting(Places(b, k), o), NEW q \in Lasting(Places(b, k), o)
      PROVE  p = q
  BY <1>1, PlacesFacts DEF Lasting
<1> QED
  BY <1>1 DEF UnspentUpTo, MadeBy

LEMMA UnspentType ==
    ASSUME NEW b \in Block, NEW k \in 0..Len(Txs[b])
    PROVE  UnspentUpTo(b, k) \in [Outpoint -> Nat]
<1>1. \A o \in Outpoint : UnspentUpTo(b, k)[o] \in Nat
  <2> SUFFICES ASSUME NEW o \in Outpoint
               PROVE  UnspentUpTo(b, k)[o] \in Nat
    OBVIOUS
  <2>1. CASE Lasting(Places(b, k), o) = {}
    BY <2>1, LastingCoin DEF Spent
  <2>2. CASE Lasting(Places(b, k), o) # {}
    <3>1. PICK p \in Lasting(Places(b, k), o) : TRUE
      BY <2>2
    <3>2. Height(p[1]) \in Nat
      BY <3>1, PlacesFacts DEF Lasting
    <3> QED
      BY <3>1, <3>2, LastingCoin
  <2> QED
    BY <2>1, <2>2
<1> QED
  BY <1>1 DEF UnspentUpTo, MadeBy

\* Transaction k of b comes after all the others up to it.
LEMMA PlacesNext ==
    ASSUME NEW b \in Block, NEW k \in 1..Len(Txs[b])
    PROVE  /\ Places(b, k) = Places(b, k - 1) \cup {<<b, k>>}
           /\ \A p \in Places(b, k - 1) : Before(p, <<b, k>>) /\ ~Before(<<b, k>>, p)
<1>1. Len(Txs[b]) \in Nat /\ k \in Nat /\ k - 1 \in 0..Len(Txs[b]) /\ Height(b) \in Nat
  BY TxsFacts, AncestorSelf
<1>2. 1..k = (1..(k - 1)) \cup {k}
  BY <1>1
<1>3. Places(b, k) = Places(b, k - 1) \cup {<<b, k>>}
  BY <1>2 DEF Places
<1>4. ASSUME NEW p \in Places(b, k - 1)
      PROVE  Before(p, <<b, k>>) /\ ~Before(<<b, k>>, p)
  <2>1. CASE p \in {b} \X (1..(k - 1))
    BY <1>1, <2>1 DEF Before
  <2>2. CASE p \notin {b} \X (1..(k - 1))
    <3>1. PICK x \in Path(b) \ {b} : p \in {x} \X (1..Len(Txs[x]))
      BY <1>4, <2>2 DEF Places
    <3>2. p[1] = x /\ Height(x) \in 0..Height(b)
      BY <3>1, PathProperties
    <3>3. Height(x) # Height(b)
      BY <3>1, PathHeight, PathProperties
    <3> QED
      BY <1>1, <3>1, <3>2, <3>3 DEF Before
  <2> QED
    BY <2>1, <2>2
<1> QED
  BY <1>3, <1>4

LEMMA UnspentNext ==
    ASSUME NEW b \in Block, NEW k \in 1..Len(Txs[b])
    PROVE  UnspentUpTo(b, k) = After(UnspentUpTo(b, k - 1), b, k)
<1>1. Len(Txs[b]) \in Nat /\ k \in 0..Len(Txs[b]) /\ k - 1 \in 0..Len(Txs[b])
  BY TxsFacts
<1> DEFINE P == Places(b, k - 1)
           Q == Places(b, k)
           last == <<b, k>>
<1>2. Q = P \cup {last} /\ \A p \in P : Before(p, last) /\ ~Before(last, p)
  BY PlacesNext
<1>3. Tx(last) = Txs[b][k] /\ ~Before(last, last) /\ last[1] = b
  BY AncestorSelf, <1>1 DEF Tx, Before
<1> HIDE DEF P, Q, last
<1>4. ASSUME NEW o \in Outpoint
      PROVE  UnspentUpTo(b, k)[o] = After(UnspentUpTo(b, k - 1), b, k)[o]
  <2>1. CASE o \in Txs[b][k].out
    <3>1. last \in Lasting(Q, o)
      BY <1>2, <1>3, <2>1 DEF Lasting
    <3>2. UnspentUpTo(b, k)[o] = Height(b)
      BY <1>1, <1>3, <3>1, LastingCoin DEF Q
    <3> QED
      BY <2>1, <3>2 DEF After
  <2>2. CASE o \notin Txs[b][k].out /\ o \in Txs[b][k].in
    <3>1. Lasting(Q, o) = {}
      BY <1>2, <1>3, <2>2 DEF Lasting
    <3> QED
      BY <1>1, <2>2, <3>1, LastingCoin DEF Q, After
  <2>3. CASE o \notin Txs[b][k].out /\ o \notin Txs[b][k].in
    <3>1. Lasting(Q, o) = Lasting(P, o)
      BY <1>2, <1>3, <2>3 DEF Lasting
    <3> QED
      BY <2>3, <3>1 DEF P, Q, After, UnspentUpTo, MadeBy
  <2> QED
    BY <2>1, <2>2, <2>3
<1> QED
  BY <1>4 DEF UnspentUpTo, MadeBy, After

LEMMA UnspentParent ==
    ASSUME NEW b \in Block, b # Genesis
    PROVE  UnspentUpTo(b, 0) = Unspent(Pprev(b))
<1> DEFINE a == Pprev(b)
           T(x) == {x} \X (1..Len(Txs[x]))
<1>1. a \in Block /\ Path(b) \ {b} = Path(a) /\ a \in Path(a)
  BY PathPprev, PathProperties
<1>2. 1..0 = {}
  OBVIOUS
<1>3. Places(b, 0) = UNION {T(x) : x \in Path(a)}
  BY <1>1, <1>2 DEF Places
<1>4. Places(a, Len(Txs[a])) = (UNION {T(x) : x \in Path(a) \ {a}}) \cup T(a)
  BY DEF Places
<1>5. UNION {T(x) : x \in Path(a)} = (UNION {T(x) : x \in Path(a) \ {a}}) \cup T(a)
  BY <1>1
<1>6. Places(b, 0) = Places(a, Len(Txs[a]))
  BY <1>3, <1>4, <1>5
<1> QED
  BY <1>6 DEF UnspentUpTo, Unspent

LEMMA UnspentGenesis == Unspent(Genesis) = [o \in Outpoint |-> Spent]
<1>1. Len(Txs[Genesis]) = 0 /\ 1..0 = {}
  BY GenesisAssumption
<1>2. Places(Genesis, 0) = {}
  BY <1>1, PathGenesis DEF Places
<1> QED
  BY <1>1, <1>2 DEF Unspent, UnspentUpTo, MadeBy, Lasting

-----------------------------------------------------------------------------
(* What a cache shows after one transaction.                               *)

\* Spending what was fetched: an entry that is erased uncovers nothing.
LEMMA SpendSee ==
    ASSUME NEW c, NEW base, NEW S \in SUBSET Outpoint, Sound(c, base)
    PROVE  See(SpendCoin(FetchCoin(c, base, S), S), base)
             = [o \in Outpoint |-> IF o \in S THEN Spent ELSE See(c, base)[o]]
<1> DEFINE e == FetchCoin(c, base, S)
           d == SpendCoin(e, S)
<1>1. Sound(e, base) /\ See(e, base) = See(c, base)
  BY FetchSound
<1>2. \A o \in S : o \in e.has \/ base[o] = Spent
  BY DEF FetchCoin
<1> HIDE DEF e
<1>3. /\ d.has = e.has \ (S \cap e.fresh)
      /\ \A o \in Outpoint : d.coin[o] = IF o \in S \cap e.has THEN Spent ELSE e.coin[o]
  BY DEF SpendCoin
<1> HIDE DEF d
<1>4. e.fresh \subseteq e.has /\ \A o \in e.fresh : base[o] = Spent
  BY <1>1 DEF Sound, FlagsSound
<1>5. \A o \in Outpoint : (IF o \in d.has THEN d.coin[o] ELSE base[o])
                          = IF o \in S THEN Spent ELSE IF o \in e.has THEN e.coin[o] ELSE base[o]
  BY <1>2, <1>3, <1>4
<1>6. See(d, base) = [o \in Outpoint |-> IF o \in S THEN Spent ELSE See(e, base)[o]]
  BY <1>5 DEF See
<1> QED
  BY <1>1, <1>6 DEF d, e

LEMMA AddSee ==
    ASSUME NEW c, NEW base, NEW S \in SUBSET Outpoint, NEW value, NEW overwrite
    PROVE  See(AddCoin(c, S, value, overwrite), base)
             = [o \in Outpoint |-> IF o \in S THEN value[o] ELSE See(c, base)[o]]
<1> DEFINE d == AddCoin(c, S, value, overwrite)
<1>1. d.has = c.has \cup S /\ \A o \in Outpoint : d.coin[o] = IF o \in S THEN value[o] ELSE c.coin[o]
  BY DEF AddCoin
<1> HIDE DEF d
<1>2. \A o \in Outpoint : (IF o \in d.has THEN d.coin[o] ELSE base[o])
                          = IF o \in S THEN value[o] ELSE IF o \in c.has THEN c.coin[o] ELSE base[o]
  BY <1>1
<1>3. See(d, base) = [o \in Outpoint |-> IF o \in S THEN value[o] ELSE See(c, base)[o]]
  BY <1>2 DEF See
<1> QED
  BY <1>3 DEF d

\* UpdateCoins and RollforwardTx: the coins after the transaction.
LEMMA UpdateSee ==
    ASSUME NEW c, NEW base, NEW b \in Block, NEW k \in 1..Len(Txs[b]), Sound(c, base)
    PROVE  /\ See(UpdateCoins(c, base, b, k), base) = After(See(c, base), b, k)
           /\ See(RollforwardTx(c, base, b, k), base) = After(See(c, base), b, k)
<1> DEFINE in == Txs[b][k].in
           out == Txs[b][k].out
           spent == SpendCoin(FetchCoin(c, base, in), in)
           found == FetchCoin(spent, base, out)
           left == [o \in Outpoint |-> IF o \in in THEN Spent ELSE See(c, base)[o]]
           made == [o \in Outpoint |-> IF o \in out THEN At(b)[o] ELSE left[o]]
<1>1. in \in SUBSET Outpoint /\ out \in SUBSET Outpoint
  BY TxsFacts
<1>2. made = After(See(c, base), b, k)
  BY DEF After, At
<1>3. See(spent, base) = left /\ Sound(spent, base)
  <2> HIDE DEF in, out
  <2> QED
    BY <1>1, SpendSee, FetchSound, SpendSound
<1> HIDE DEF in, out, spent, left
<1>4. See(found, base) = left
  BY <1>1, <1>3, FetchSound
<1> HIDE DEF found
<1>5. /\ See(AddCoin(spent, out, At(b), IF k = 1 THEN out ELSE {}), base) = made
      /\ See(AddCoin(found, out, At(b), Have(found, base, out)), base) = made
  <2> DEFINE value == At(b)
             first == IF k = 1 THEN out ELSE {}
             there == Have(found, base, out)
  <2> HIDE DEF value, first, there
  <2>1. See(AddCoin(spent, out, value, first), base)
          = [o \in Outpoint |-> IF o \in out THEN value[o] ELSE See(spent, base)[o]]
    BY <1>1, AddSee
  <2>2. See(AddCoin(found, out, value, there), base)
          = [o \in Outpoint |-> IF o \in out THEN value[o] ELSE See(found, base)[o]]
    BY <1>1, AddSee
  <2> QED
    BY <1>3, <1>4, <2>1, <2>2 DEF value, first, there
<1>6. /\ UpdateCoins(c, base, b, k) = AddCoin(spent, out, At(b), IF k = 1 THEN out ELSE {})
      /\ RollforwardTx(c, base, b, k) = AddCoin(found, out, At(b), Have(found, base, out))
  BY ZenonT(20) DEF UpdateCoins, RollforwardTx, found, spent, in, out
<1> HIDE DEF made
<1> QED
  BY <1>2, <1>5, <1>6

\* DisconnectTx: the outputs are gone and the inputs are as the undo data has them.
TakenBack(f, b, k) ==
    [o \in Outpoint |-> IF o \in Txs[b][k].in THEN undo[b][k][o]
                        ELSE IF o \in Txs[b][k].out THEN Spent ELSE f[o]]

LEMMA DisconnectSee ==
    ASSUME NEW c, NEW base, NEW b \in Block, NEW k \in 1..Len(Txs[b]), Sound(c, base)
    PROVE  /\ See(Unspend(c, base, b, k), base)
                = [o \in Outpoint |-> IF o \in Txs[b][k].out THEN Spent ELSE See(c, base)[o]]
           /\ See(DisconnectTx(c, base, b, k), base) = TakenBack(See(c, base), b, k)
<1> DEFINE in == Txs[b][k].in
           out == Txs[b][k].out
           spent == Unspend(c, base, b, k)
           found == FetchCoin(spent, base, in)
           left == [o \in Outpoint |-> IF o \in out THEN Spent ELSE See(c, base)[o]]
<1>1. in \in SUBSET Outpoint /\ out \in SUBSET Outpoint
  BY TxsFacts
<1>2. See(spent, base) = left /\ Sound(spent, base)
  <2>1. spent = SpendCoin(FetchCoin(c, base, out), out)
    BY DEF Unspend
  <2> HIDE DEF in, out, spent
  <2> QED
    BY <1>1, <2>1, SpendSee, FetchSound, SpendSound
<1> HIDE DEF in, out, spent
<1>3. See(found, base) = left
  BY <1>1, <1>2, FetchSound
<1> HIDE DEF found
<1>4. See(AddCoin(found, in, undo[b][k], Have(found, base, in)), base)
        = [o \in Outpoint |-> IF o \in in THEN undo[b][k][o] ELSE See(found, base)[o]]
  <2> DEFINE value == undo[b][k]
             there == Have(found, base, in)
  <2> HIDE DEF value, there
  <2>1. See(AddCoin(found, in, value, there), base)
          = [o \in Outpoint |-> IF o \in in THEN value[o] ELSE See(found, base)[o]]
    BY <1>1, AddSee
  <2> QED
    BY <2>1 DEF value, there
<1>5. DisconnectTx(c, base, b, k) = AddCoin(found, in, undo[b][k], Have(found, base, in))
  BY ZenonT(20) DEF DisconnectTx, found, spent, in
<1>6. [o \in Outpoint |-> IF o \in in THEN undo[b][k][o] ELSE See(found, base)[o]]
        = [o \in Outpoint |-> IF o \in in THEN undo[b][k][o] ELSE IF o \in out THEN Spent ELSE See(c, base)[o]]
  BY <1>3
<1> QED
  BY <1>2, <1>4, <1>5, <1>6, Zenon DEF spent, in, out, TakenBack

\* With undo data that is exact, a transaction is taken back exactly.
LEMMA DisconnectExact ==
    ASSUME NEW c, NEW base, NEW b \in Block, NEW k \in 1..Len(Txs[b]), Sound(c, base),
           Undoes(undo[b], b, Len(Txs[b])), NEW goal
    PROVE  /\ See(c, base) = UnspentUpTo(b, k) =>
                See(DisconnectTx(c, base, b, k), base) = UnspentUpTo(b, k - 1)
           /\ Mixed(See(c, base), UnspentUpTo(b, k), goal) =>
                Mixed(See(DisconnectTx(c, base, b, k), base), UnspentUpTo(b, k - 1), goal)
<1> DEFINE in == Txs[b][k].in
           out == Txs[b][k].out
           old == UnspentUpTo(b, k - 1)
           new == UnspentUpTo(b, k)
           seen == See(c, base)
           back == See(DisconnectTx(c, base, b, k), base)
<1>1. \A o \in Outpoint : back[o] = IF o \in in THEN undo[b][k][o] ELSE IF o \in out THEN Spent ELSE seen[o]
  <2>1. back = TakenBack(seen, b, k)
    BY DisconnectSee
  <2> HIDE DEF seen, back
  <2> QED
    BY <2>1 DEF TakenBack
<1>2. \A o \in Outpoint : new[o] = IF o \in out THEN Height(b) ELSE IF o \in in THEN Spent ELSE old[o]
  <2>1. new = After(old, b, k)
    BY UnspentNext, Zenon
  <2> HIDE DEF old, new
  <2> QED
    BY <2>1 DEF After
<1>3. /\ \A o \in in : undo[b][k][o] = old[o]
      /\ \A o \in out \ in : old[o] = Spent
  BY Zenon DEF Undoes
<1>4. back = [o \in Outpoint |-> back[o]] /\ old = [o \in Outpoint |-> old[o]]
  BY SeeIsFunction, UnspentIsFunction, Zenon
<1> HIDE DEF in, out, old, new, seen, back
<1>5. \A o \in Outpoint : back[o] = old[o] \/ (back[o] = seen[o] /\ old[o] = new[o])
  BY <1>1, <1>2, <1>3
<1>6. ASSUME seen = new
      PROVE  back = old
  BY <1>4, <1>5, <1>6
<1>7. ASSUME Mixed(seen, new, goal)
      PROVE  Mixed(back, old, goal)
  BY <1>5, <1>7 DEF Mixed
<1> QED
  BY <1>6, <1>7, Zenon DEF old, new, seen, back

\* The same forwards: a coin that is already the goal's may stay.
LEMMA ConnectMixed ==
    ASSUME NEW f, NEW b \in Block, NEW k \in 1..Len(Txs[b]), NEW goal,
           Mixed(f, UnspentUpTo(b, k - 1), goal)
    PROVE  Mixed(After(f, b, k), UnspentUpTo(b, k), goal)
<1> DEFINE old == UnspentUpTo(b, k - 1)
<1>1. UnspentUpTo(b, k) = After(old, b, k)
  BY UnspentNext
<1> HIDE DEF old
<1>2. Mixed(After(f, b, k), After(old, b, k), goal)
  BY DEF Mixed, After, old
<1> QED
  BY <1>1, <1>2

-----------------------------------------------------------------------------
(* The coins.                                                              *)


Root(b) == IF b = NoBlock THEN Genesis ELSE b

\* What the caches show at each place of the thread.  While ReplayBlocks runs, each coin is the
\* one at its place in the block in hand or already the one of the goal.
ShownInv ==
    /\ pc \in {"idle", "write", "connect", "disconnect"} => Tip = Unspent(best)
    /\ pc = "connect" =>
         /\ i <= Len(Txs[block]) + 1
         /\ See(view, Tip) = UnspentUpTo(block, i - 1)
         /\ vtxundo \in Seq([Outpoint -> Nat]) /\ Len(vtxundo) = i - 1
         /\ Undoes(vtxundo, block, i - 1)
    /\ pc = "disconnect" => undo[block] # <<>> /\ See(view, Tip) = UnspentUpTo(block, i)
    /\ pc = "rollback" =>
         /\ Contains(best, block) => i = Len(Txs[block])
         /\ Mixed(Tip, UnspentUpTo(block, i), Unspent(best))
    /\ pc = "rollforward" =>
         /\ i <= Len(Txs[block]) + 1
         /\ Mixed(Tip, UnspentUpTo(block, i - 1), Unspent(best))

\* What the databases have: the coins of one block or, in transition, of two, and undo data.
StoredInv ==
    /\ dbHeads = <<>> => db = Unspent(Root(dbBest))
    /\ dbHeads # <<>> =>
         /\ dbBest = NoBlock /\ best = dbHeads[1]
         /\ pc \in {"rollback", "rollforward", "write", "abort"}
         /\ Mixed(db, Unspent(best), Unspent(Root(dbHeads[2])))
    /\ DOMAIN undo = Block
    /\ \A b \in Block : undo[b] # <<>> => Undoes(undo[b], b, Len(Txs[b]))

CoinsInv == ShownInv /\ StoredInv

\* Undo data is there for the tip's chain and, in the block index database, for the chains that a
\* restart may have to leave or to arrive at; what the block being connected has still to make
\* is not there.
Undoable(b, S) == Path(b) \ {Genesis} \subseteq S

KeptInv ==
    /\ pc # "abort"
    /\ durable \subseteq {b \in Block : undo[b] # <<>>}
    /\ Undoable(best, {b \in Block : undo[b] # <<>>})
    /\ pc \in {"write", "rollback", "rollforward"} => Undoable(best, durable)
    /\ pc = "rollback" => Undoable(block, durable)
    /\ dbHeads = <<>> => Undoable(Root(dbBest), durable)
    /\ dbHeads # <<>> => Undoable(dbHeads[1], durable) /\ Undoable(Root(dbHeads[2]), durable)
    /\ pc = "connect" => \A k \in i..Len(Txs[block]) : \A o \in Txs[block][k].out : See(view, Tip)[o] = Spent

-----------------------------------------------------------------------------
(* The steps keep CoinsInv.                                                *)

\* Steps that leave the shown coins and the disk alone and go on, or end what they were at.
LEMMA CoinsStay ==
    ASSUME CoinsInv, Tip' = Tip, UNCHANGED <<disk, undo, best>>,
           \/ UNCHANGED <<job, view, vtxundo>>
           \/ pc \in {"idle", "connect", "disconnect"} /\ pc' \in {"idle", "write"}
           \/ pc' = "abort"
    PROVE  CoinsInv'
<1>1. StoredInv'
  BY Zenon DEF CoinsInv, StoredInv, disk, job
<1>2. ShownInv'
  BY Zenon DEF CoinsInv, ShownInv, job
<1> QED
  BY <1>1, <1>2, Zenon DEF CoinsInv

\* An empty view shows what is under it.
LEMMA SeeNothing ==
    ASSUME NEW c, NEW base
    PROVE  See(NoEntries, See(c, base)) = See(c, base)
BY DEF See, NoEntries

LEMMA CoinsConnectTip ==
    ASSUME PlaceInv, CacheInv, CoinsInv, NEW b \in Block, ConnectTip(b)
    PROVE  CoinsInv'
<1>1. Tip' = Tip /\ UNCHANGED <<disk, undo, best>> /\ pc = "idle"
  BY ConnectTipCaches, Zenon DEF ConnectTip, Same
<1>2. CASE UNCHANGED job
  BY <1>1, <1>2, CoinsStay, Zenon DEF job
<1>3. CASE ~ UNCHANGED job
  <2>1. /\ b # Genesis /\ Pprev(b) = best
        /\ pc' = "connect" /\ block' = b /\ i' = 1 /\ vtxundo' = <<>> /\ view' = NoEntries
    BY <1>3, Zenon DEF ConnectTip, Begin
  <2>2. Tip = Unspent(best) /\ UnspentUpTo(b, 0) = Unspent(best)
    BY <1>1, <2>1, UnspentParent, Zenon DEF CoinsInv, ShownInv
  <2>3. See(NoEntries, Tip) = Tip
    BY SeeNothing, Zenon DEF Tip
  <2>4. (See(view, Tip) = UnspentUpTo(block, i - 1))'
    BY <1>1, <2>1, <2>2, <2>3
  <2>5. (/\ i <= Len(Txs[block]) + 1
         /\ vtxundo \in Seq([Outpoint -> Nat]) /\ Len(vtxundo) = i - 1
         /\ Undoes(vtxundo, block, i - 1))'
    <3>1. Len(Txs[b]) \in Nat
      BY TxsFacts, Zenon
    <3>2. \A u : Undoes(u, b, 0)
      BY DEF Undoes
    <3> QED  BY <2>1, <3>1, <3>2
  <2>6. ShownInv'
    BY <1>1, <2>1, <2>2, <2>4, <2>5, Zenon DEF ShownInv
  <2>7. StoredInv'
    BY <1>1, Zenon DEF CoinsInv, StoredInv, disk
  <2> QED
    BY <2>6, <2>7, Zenon DEF CoinsInv
<1> QED
  BY <1>2, <1>3, Zenon

\* What transaction k of the block makes is not there before it, or AddCoin would throw.
LEMMA ConnectMakes ==
    ASSUME PlaceInv, CacheInv, CoinsInv, pc = "connect", NEW k \in 1..Len(Txs[block]), k = i,
           ~UpdateThrows(view, Tip, block, k), NEW o \in Txs[block][k].out \ Txs[block][k].in
    PROVE  See(view, Tip)[o] = Spent
<1>1. block \in Block /\ o \in Outputs(block) /\ o \in Outpoint /\ Tip[o] = Spent
  BY TxsFacts DEF PlaceInv, CacheInv
<1>2. CASE k = 1
  <2>1. See(view, Tip) = Tip
    <3>1. See(view, Tip) = UnspentUpTo(block, i - 1) /\ Tip = Unspent(best)
      BY Zenon DEF CoinsInv, ShownInv
    <3>2. block # Genesis /\ Pprev(block) = best
      BY Zenon DEF PlaceInv
    <3>3. UnspentUpTo(block, 0) = Unspent(best)
      BY <1>1, <3>2, UnspentParent, Zenon
    <3>4. i - 1 = 0
      BY <1>2
    <3> QED
      BY <3>1, <3>3, <3>4, Zenon
  <2> QED
    BY <1>1, <2>1, Zenon
<1>3. CASE k # 1
  <2> DEFINE in == Txs[block][k].in
             found == FetchCoin(view, Tip, in)
             spent == SpendCoin(found, in)
  <2>1. ~(o \in spent.has /\ spent.coin[o] # Spent)
    BY <1>3, Zenon DEF UpdateThrows, AddThrows
  <2>2. o \notin in
    OBVIOUS
  <2> HIDE DEF in
  <2>3. (o \in spent.has <=> o \in found.has) /\ spent.coin[o] = found.coin[o]
    BY <1>1, <2>2, Zenon DEF SpendCoin
  <2>4. (o \in found.has <=> o \in view.has) /\ found.coin[o] = view.coin[o]
    BY <1>1, <2>2, Zenon DEF FetchCoin
  <2> QED
    BY <1>1, <2>1, <2>3, <2>4, Zenon DEF See
<1> QED
  BY <1>2, <1>3, Zenon

LEMMA CoinsConnectNext ==
    ASSUME PlaceInv, CacheInv, CoinsInv, ConnectNext
    PROVE  CoinsInv'
<1>1. Tip' = Tip /\ UNCHANGED <<disk, undo, best>> /\ pc = "connect" /\ i <= Len(Txs[block])
  BY ConnectCaches, Zenon DEF ConnectNext, Same
<1>2. CASE pc' \in {"idle", "abort"}
  BY <1>1, <1>2, CoinsStay, Zenon
<1>3. CASE pc' \notin {"idle", "abort"}
  <2> DEFINE in == Txs[block][i].in
             old == See(view, Tip)
             u == [o \in Outpoint |-> IF o \in in THEN old[o] ELSE Spent]
  <2>1. /\ ~UpdateThrows(view, Tip, block, i) /\ view' = UpdateCoins(view, Tip, block, i)
        /\ vtxundo' = Append(vtxundo, u) /\ i' = i + 1 /\ pc' = pc /\ block' = block
    BY <1>3, Zenon DEF ConnectNext, Idle
  <2>2. block \in Block /\ i \in 1..Len(Txs[block]) /\ Len(Txs[block]) \in Nat /\ i \in Nat
    <3>1. block \in Block /\ i \in Nat /\ i > 0
      BY <1>1, Zenon DEF PlaceInv
    <3>2. Len(Txs[block]) \in Nat
      BY <3>1, TxsFacts, Zenon
    <3> QED  BY <1>1, <3>1, <3>2
  <2>3. in \in SUBSET Outpoint /\ i - 1 \in 0..Len(Txs[block]) /\ i - 1 \in Nat
    BY <2>2, TxsFacts
  <2>4. /\ old = UnspentUpTo(block, i - 1) /\ Undoes(vtxundo, block, i - 1)
        /\ vtxundo \in Seq([Outpoint -> Nat]) /\ Len(vtxundo) = i - 1
    BY <1>1, Zenon DEF CoinsInv, ShownInv
  <2>5. See(view', Tip) = UnspentUpTo(block, i)
    <3>1. See(view', Tip) = After(old, block, i)
      BY <2>1, <2>2, UpdateSee DEF CacheInv
    <3> QED
      BY <2>2, <2>4, <3>1, UnspentNext, Zenon
  <2>6. \A o \in Txs[block][i].out \ in : UnspentUpTo(block, i - 1)[o] = Spent
    BY <1>1, <2>1, <2>2, <2>4, ConnectMakes, Zenon
  <2>7. \A o \in in : u[o] = UnspentUpTo(block, i - 1)[o]
    BY <2>3, <2>4, Zenon
  <2>8. u \in [Outpoint -> Nat]
    BY <2>2, <2>3, <2>4, UnspentType, Zenon DEF Spent
  <2> HIDE DEF u, old, in
  <2>9. /\ vtxundo' \in Seq([Outpoint -> Nat]) /\ Len(vtxundo') = i
        /\ vtxundo'[i] = u /\ \A k \in 1..(i - 1) : vtxundo'[k] = vtxundo[k]
    BY <2>1, <2>2, <2>4, <2>8
  <2>10. Undoes(vtxundo', block, i)
    <3> SUFFICES ASSUME NEW k \in 1..i
                 PROVE  /\ \A o \in Txs[block][k].in : vtxundo'[k][o] = UnspentUpTo(block, k - 1)[o]
                        /\ \A o \in Txs[block][k].out \ Txs[block][k].in : UnspentUpTo(block, k - 1)[o] = Spent
      BY Zenon DEF Undoes
    <3>1. CASE k = i
      BY <2>6, <2>7, <2>9, <3>1, Zenon DEF in
    <3>2. CASE k # i
      <4>1. k \in 1..(i - 1)
        BY <2>2, <3>2
      <4> QED
        BY <2>4, <2>9, <4>1, Zenon DEF Undoes
    <3> QED
      BY <3>1, <3>2, Zenon
  <2>11. i' - 1 = i /\ i' <= Len(Txs[block]) + 1
    BY <2>1, <2>2
  <2>12. ShownInv'
    BY <1>1, <2>1, <2>5, <2>9, <2>10, <2>11, Zenon DEF CoinsInv, ShownInv
  <2>13. StoredInv'
    BY <1>1, <2>1, Zenon DEF CoinsInv, StoredInv, disk
  <2> QED
    BY <2>12, <2>13, Zenon DEF CoinsInv
<1> QED
  BY <1>2, <1>3, Zenon

\* A flush of the view: pcoinsTip shows what the view has shown.
LEMMA FlushShows ==
    ASSUME CacheInv, NEW b, FlushView(b), UNCHANGED disk
    PROVE  Tip' = See(view, Tip) /\ best' = b /\ pc' = "idle"
<1>1. See(BatchWrite(coins, view), db) = See(view, See(coins, db)) /\ ~FlushThrows(coins, view)
  BY BatchSound DEF CacheInv, Tip
<1> QED
  BY <1>1, Zenon DEF FlushView, Tip, disk

LEMMA CoinsConnectEnd ==
    ASSUME PlaceInv, CacheInv, CoinsInv, ConnectEnd
    PROVE  CoinsInv'
<1>1. pc = "connect" /\ i > Len(Txs[block]) /\ UNCHANGED disk /\ FlushView(block)
  BY DEF ConnectEnd
<1>2. Tip' = See(view, Tip) /\ best' = block /\ pc' = "idle"
  BY <1>1, FlushShows, Zenon
<1>3. block \in Block /\ Len(Txs[block]) \in Nat /\ i \in Nat /\ i <= Len(Txs[block]) + 1
  BY <1>1, PlaceFacts, Zenon DEF CoinsInv, ShownInv
<1>4. i - 1 = Len(Txs[block])
  BY <1>1, <1>3
<1>5. Tip' = Unspent(block)
  BY <1>1, <1>2, <1>4, Zenon DEF CoinsInv, ShownInv, Unspent
<1>6. Undoes(vtxundo, block, Len(Txs[block]))
  BY <1>1, <1>4, Zenon DEF CoinsInv, ShownInv
<1>7. DOMAIN undo' = Block /\ \A b \in Block : undo'[b] # <<>> => Undoes(undo'[b], b, Len(Txs[b]))
  BY <1>6, Zenon DEF ConnectEnd, CoinsInv, StoredInv
<1>8. ShownInv'
  BY <1>2, <1>5, Zenon DEF ShownInv
<1>9. StoredInv'
  BY <1>1, <1>7, Zenon DEF CoinsInv, StoredInv, disk
<1> QED
  BY <1>8, <1>9 DEF CoinsInv

LEMMA CoinsDisconnectTip ==
    ASSUME PlaceInv, CacheInv, CoinsInv, DisconnectTip
    PROVE  CoinsInv'
<1>1. Tip' = Tip /\ UNCHANGED <<disk, undo, best>> /\ pc = "idle"
  BY DEF DisconnectTip, Tip, disk
<1>2. CASE undo[best] = <<>>
  BY <1>1, <1>2, CoinsStay, Zenon DEF DisconnectTip
<1>3. CASE undo[best] # <<>>
  <2>1. pc' = "disconnect" /\ block' = best /\ i' = Len(Txs[best]) /\ view' = NoEntries
    BY <1>3, Zenon DEF DisconnectTip, BeginBack
  <2>2. Tip = Unspent(best) /\ See(NoEntries, Tip) = Tip
    BY <1>1, SeeNothing, Zenon DEF CoinsInv, ShownInv, Tip
  <2>3. ShownInv'
    BY <1>1, <1>3, <2>1, <2>2, Zenon DEF ShownInv, Unspent
  <2>4. StoredInv'
    BY <1>1 DEF CoinsInv, StoredInv, disk
  <2> QED
    BY <2>3, <2>4 DEF CoinsInv
<1> QED
  BY <1>2, <1>3, Zenon

LEMMA CoinsDisconnectNext ==
    ASSUME PlaceInv, CacheInv, CoinsInv, DisconnectNext
    PROVE  CoinsInv'
<1>1. Tip' = Tip /\ UNCHANGED <<disk, undo, best>> /\ pc = "disconnect"
  BY DisconnectCaches DEF DisconnectNext, Same
<1>2. CASE pc' = "abort"
  BY <1>1, <1>2, CoinsStay, Zenon
<1>3. CASE pc' # "abort"
  <2>1. i > 0 /\ i' = i - 1 /\ pc' = pc /\ block' = block /\ view' = DisconnectTx(view, Tip, block, i)
    BY <1>3 DEF DisconnectNext
  <2>2. block \in Block /\ i \in 1..Len(Txs[block])
    BY <1>1, <2>1, PlaceFacts, Zenon
  <2>3. undo[block] # <<>> /\ See(view, Tip) = UnspentUpTo(block, i)
    BY <1>1, Zenon DEF CoinsInv, ShownInv
  <2>4. Undoes(undo[block], block, Len(Txs[block])) /\ Sound(view, Tip)
    BY <2>2, <2>3, Zenon DEF CoinsInv, StoredInv, CacheInv
  <2>5. See(view', Tip) = UnspentUpTo(block, i - 1)
    BY <2>1, <2>2, <2>3, <2>4, DisconnectExact, Zenon
  <2>6. ShownInv'
    BY <1>1, <2>1, <2>3, <2>5, Zenon DEF CoinsInv, ShownInv
  <2>7. StoredInv'
    BY <1>1, <2>1, Zenon DEF CoinsInv, StoredInv, disk
  <2> QED
    BY <2>6, <2>7 DEF CoinsInv
<1> QED
  BY <1>2, <1>3, Zenon

LEMMA CoinsDisconnectEnd ==
    ASSUME PlaceInv, CacheInv, CoinsInv, DisconnectEnd
    PROVE  CoinsInv'
<1>1. pc = "disconnect" /\ i = 0 /\ UNCHANGED <<disk, undo>> /\ FlushView(Pprev(block))
  BY DEF DisconnectEnd
<1>2. Tip' = See(view, Tip) /\ best' = Pprev(block) /\ pc' = "idle"
  BY <1>1, FlushShows, Zenon
<1>3. Tip' = Unspent(Pprev(block))
  BY <1>1, <1>2, UnspentParent, Zenon DEF CoinsInv, ShownInv, PlaceInv
<1>4. ShownInv'
  BY <1>2, <1>3, Zenon DEF ShownInv
<1>5. StoredInv'
  BY <1>1, Zenon DEF CoinsInv, StoredInv, disk
<1> QED
  BY <1>4, <1>5 DEF CoinsInv

\* A batch brings entries of the goal to the database, one coin at a time.
LEMMA CoinsWriteBatch ==
    ASSUME PlaceInv, CacheInv, CoinsInv, NEW S, WriteBatch(S)
    PROVE  CoinsInv'
<1>1. pc = "write" /\ pc' = "write" /\ best' = best /\ undo' = undo /\ S \subseteq coins.dirty
  BY Zenon DEF WriteBatch, job
<1>2. Tip' = Tip /\ Tip = Unspent(best)
  BY <1>1, PutSame, Zenon DEF WriteBatch, CacheInv, CoinsInv, ShownInv
<1>3. dbHeads' # <<>> /\ dbHeads'[1] = best /\ dbHeads'[2] = OldTip /\ dbBest' = NoBlock
  BY DEF WriteBatch
<1>4. Mixed(db, Unspent(best), Unspent(Root(OldTip)))
  <2>1. CASE dbHeads = <<>>
    BY <2>1 DEF CoinsInv, StoredInv, OldTip, Mixed
  <2>2. CASE dbHeads # <<>>
    BY <2>2, Zenon DEF CoinsInv, StoredInv, OldTip
  <2> QED
    BY <2>1, <2>2, Zenon
<1>5. \A o \in Outpoint : db'[o] = IF o \in S THEN Tip[o] ELSE db[o]
  BY <1>1 DEF WriteBatch, Put, Tip, See, CacheInv, Sound, FlagsSound
<1>6. Mixed(db', Unspent(best), Unspent(Root(OldTip)))
  BY <1>2, <1>4, <1>5, Zenon DEF Mixed
<1>7. StoredInv'
  BY <1>1, <1>3, <1>6, Zenon DEF CoinsInv, StoredInv
<1>8. ShownInv'
  BY <1>1, <1>2, Zenon DEF ShownInv
<1> QED
  BY <1>7, <1>8, Zenon DEF CoinsInv

LEMMA CoinsWriteEnd ==
    ASSUME PlaceInv, CacheInv, CoinsInv, WriteEnd
    PROVE  CoinsInv'
<1>1. pc = "write" /\ pc' = "idle" /\ best' = best /\ undo' = undo /\ dbHeads' = <<>> /\ dbBest' = best
  BY Zenon DEF WriteEnd, Idle
<1>2. Tip' = Tip /\ Tip = Unspent(best)
  BY <1>1, WriteEndSame, Zenon DEF CacheInv, CoinsInv, ShownInv
<1>3. db' = Tip'
  BY DEF WriteEnd, NoEntries, Tip, See, Put
<1>4. Root(dbBest') = best
  BY <1>1, NoBlockAssumption, Zenon DEF Root, PlaceInv
<1>5. StoredInv'
  BY <1>1, <1>2, <1>3, <1>4, Zenon DEF CoinsInv, StoredInv
<1>6. ShownInv'
  BY <1>1, <1>2, Zenon DEF ShownInv
<1> QED
  BY <1>5, <1>6, Zenon DEF CoinsInv

\* After a restart the coins are those of the database: of one block, or mixed of two.
LEMMA CoinsCrash ==
    ASSUME PlaceInv, CacheInv, CoinsInv, Crash
    PROVE  CoinsInv'
<1>1. UNCHANGED disk /\ best' = RestartAt /\ \A o \in Outpoint : Tip'[o] = db[o]
  BY Zenon DEF Crash, NoEntries, Tip, See, disk
<1>2. DOMAIN undo' = Block /\ \A b \in Block : undo'[b] # <<>> => Undoes(undo'[b], b, Len(Txs[b]))
  BY Zenon DEF Crash, CoinsInv, StoredInv
<1>3. CASE dbHeads = <<>>
  <2>1. pc' = "idle" /\ best' = Root(dbBest) /\ db = Unspent(Root(dbBest))
    BY <1>1, <1>3, Zenon DEF Crash, Idle, RestartAt, Root, CoinsInv, StoredInv
  <2>2. Tip' = Unspent(best')
    BY <1>1, <2>1, Zenon DEF Tip, See, Unspent, UnspentUpTo, MadeBy
  <2>3. ShownInv'
    BY <2>1, <2>2, Zenon DEF ShownInv
  <2>4. StoredInv'
    BY <1>1, <1>2, <1>3, <2>1, Zenon DEF StoredInv, disk
  <2> QED
    BY <2>3, <2>4 DEF CoinsInv
<1>4. CASE dbHeads # <<>>
  <2>1. /\ pc' = "rollback" /\ block' = Root(dbHeads[2]) /\ i' = Len(Txs[block']) /\ best' = best
        /\ dbBest = NoBlock /\ best = dbHeads[1] /\ Mixed(db, Unspent(best), Unspent(block'))
    BY <1>1, <1>4, Zenon DEF Crash, BeginBack, RestartAt, Root, CoinsInv, StoredInv
  <2>2. Mixed(Tip', UnspentUpTo(block', i'), Unspent(best'))
    BY <1>1, <2>1, Zenon DEF Mixed, Unspent
  <2>3. ShownInv'
    BY <2>1, <2>2, Zenon DEF ShownInv
  <2>4. StoredInv'
    BY <1>1, <1>2, <1>4, <2>1, Zenon DEF StoredInv, disk
  <2> QED
    BY <2>3, <2>4 DEF CoinsInv
<1> QED
  BY <1>3, <1>4, Zenon

LEMMA NextIsChild ==
    ASSUME NEW tip \in Block, NEW b \in Block, Contains(tip, b), b # tip
    PROVE  LET n == Ancestor(tip, Height(b) + 1) IN n \in Block /\ n # Genesis /\ Pprev(n) = b
<1> DEFINE n == Ancestor(tip, Height(b) + 1)
<1>1. Height(tip) \in Nat /\ Height(b) \in Nat /\ Ancestor(tip, Height(tip)) = tip
  BY AncestorSelf, Zenon
<1>2. Height(b) <= Height(tip) /\ Ancestor(tip, Height(b)) = b
  BY Zenon DEF Contains
<1>3. Height(b) + 1 \in 0..Height(tip) /\ Height(b) \in 0..(Height(b) + 1)
  BY <1>1, <1>2
<1>4. n \in Block /\ Height(n) = Height(b) + 1 /\ Ancestor(n, Height(b)) = b
  BY <1>2, <1>3, AncestorProperties, AncestorAncestor, Zenon
<1>5. Height(Genesis) = 0 /\ Height(n) - 1 = Height(b)
  BY <1>1, <1>4, GenesisUnique, BlockAssumption
<1> QED
  BY <1>1, <1>4, <1>5 DEF Pprev

\* The last steps of a replayed block lead to the first of the next one, or to the goal.
LEMMA CoinsOnward ==
    ASSUME PlaceInv, CoinsInv, pc \in {"rollback", "rollforward"}, Contains(best, block), Onward(block),
           Mixed(Tip, Unspent(block), Unspent(best)), UNCHANGED <<disk, undo, coins, best>>
    PROVE  CoinsInv'
<1>1. Tip' = Tip /\ block \in Block /\ best \in Block
  BY DEF Tip, disk, PlaceInv
<1>2. CASE block = best
  <2>1. pc' = "write"
    BY <1>2, Zenon DEF Onward
  <2>2. Tip = Unspent(best)
    BY <1>2 DEF Mixed, Tip, See, Unspent, UnspentUpTo, MadeBy
  <2>3. ShownInv'
    BY <1>1, <2>1, <2>2, Zenon DEF ShownInv
  <2>4. StoredInv'
    BY <2>1, Zenon DEF CoinsInv, StoredInv, disk
  <2> QED
    BY <2>3, <2>4, Zenon DEF CoinsInv
<1>3. CASE block # best
  <2>1. pc' = "rollforward" /\ block' = Ancestor(best, Height(block) + 1) /\ i' = 1
    BY <1>3, Zenon DEF Onward, Begin
  <2>2. block' \in Block /\ block' # Genesis /\ Pprev(block') = block
    BY <1>1, <1>3, <2>1, NextIsChild, Zenon
  <2>3. UnspentUpTo(block', i' - 1) = Unspent(block) /\ i' <= Len(Txs[block']) + 1
    <3>1. i' - 1 = 0
      BY <2>1
    <3>2. PICK next \in Block : next = block'
      BY <2>2, Zenon
    <3>3. UnspentUpTo(next, 0) = Unspent(block) /\ Len(Txs[next]) \in Nat
      BY <2>2, <3>2, UnspentParent, TxsFacts, Zenon
    <3>4. i' <= Len(Txs[next]) + 1
      BY <2>1, <3>3
    <3> QED
      BY <3>1, <3>2, <3>3, <3>4, Zenon
  <2>4. ShownInv'
    BY <1>1, <2>1, <2>3, Zenon DEF ShownInv
  <2>5. StoredInv'
    BY <2>1 DEF CoinsInv, StoredInv, disk
  <2> QED
    BY <2>4, <2>5 DEF CoinsInv
<1> QED
  BY <1>2, <1>3, Zenon

LEMMA CoinsRollback ==
    ASSUME PlaceInv, CacheInv, CoinsInv, RollbackNext \/ RollbackEnd
    PROVE  CoinsInv'
<1>1. pc = "rollback" /\ UNCHANGED <<disk, undo, best>> /\ block \in Block /\ i \in 0..Len(Txs[block])
  BY PlaceFacts, Zenon DEF RollbackNext, RollbackEnd
<1>2. Mixed(Tip, UnspentUpTo(block, i), Unspent(best)) /\ Sound(coins, db)
  BY <1>1, Zenon DEF CoinsInv, ShownInv, CacheInv
<1>3. CASE RollbackNext /\ undo[block] = <<>>
  BY <1>1, <1>3, CoinsStay, Zenon DEF RollbackNext, Tip, disk
<1>4. CASE RollbackNext /\ undo[block] # <<>> /\ i > 0
  <2>1. coins' = DisconnectTx(coins, db, block, i) /\ i' = i - 1 /\ pc' = pc /\ block' = block
    BY <1>4, Zenon DEF RollbackNext
  <2>2. Undoes(undo[block], block, Len(Txs[block])) /\ i \in 1..Len(Txs[block])
    <3>1. Undoes(undo[block], block, Len(Txs[block]))
      BY <1>1, <1>4, Zenon DEF CoinsInv, StoredInv
    <3>2. i \in 1..Len(Txs[block])
      BY <1>1, <1>4
    <3> QED
      BY <3>1, <3>2, Zenon
  <2>3. Tip' = See(DisconnectTx(coins, db, block, i), db)
    BY <1>1, <2>1, Zenon DEF Tip, disk
  <2>4. Mixed(Tip', UnspentUpTo(block, i - 1), Unspent(best))
    BY <1>1, <1>2, <2>2, <2>3, DisconnectExact, Zenon DEF Tip
  <2>5. ShownInv'
    BY <1>1, <1>4, <2>1, <2>4, Zenon DEF ShownInv, RollbackNext
  <2>6. StoredInv'
    BY <1>1, <2>1, Zenon DEF CoinsInv, StoredInv, disk
  <2> QED
    BY <2>5, <2>6, Zenon DEF CoinsInv
<1>5. CASE RollbackNext /\ undo[block] # <<>> /\ ~(i > 0)
  <2>1. pc' = pc /\ block' = Pprev(block) /\ i' = Len(Txs[Pprev(block)]) /\ Tip' = Tip /\ i = 0
    <3>1. i = 0
      BY <1>1, <1>5
    <3>2. BeginBack("rollback", Pprev(block)) /\ coins' = coins
      BY <1>5, Zenon DEF RollbackNext
    <3>3. Tip' = Tip
      BY <1>1, <3>2, Zenon DEF Tip, disk
    <3> QED
      BY <1>1, <3>1, <3>2, <3>3, Zenon DEF BeginBack
  <2>2. block # Genesis
    BY <1>5, ContainsGenesis, Zenon DEF RollbackNext, PlaceInv
  <2>3. UnspentUpTo(block, i) = UnspentUpTo(block', i')
    BY <1>1, <2>1, <2>2, UnspentParent, Zenon DEF Unspent
  <2>4. ShownInv'
    BY <1>1, <1>2, <2>1, <2>3, Zenon DEF ShownInv
  <2>5. StoredInv'
    BY <1>1, <2>1, Zenon DEF CoinsInv, StoredInv, disk
  <2> QED
    BY <2>4, <2>5 DEF CoinsInv
<1>6. CASE RollbackEnd
  <2>1. Mixed(Tip, Unspent(block), Unspent(best))
    BY <1>1, <1>2, <1>6, Zenon DEF RollbackEnd, CoinsInv, ShownInv, Unspent
  <2> QED
    BY <1>1, <1>6, <2>1, CoinsOnward, Zenon DEF RollbackEnd
<1> QED
  BY <1>3, <1>4, <1>5, <1>6, Zenon

LEMMA CoinsRollforward ==
    ASSUME PlaceInv, CacheInv, CoinsInv, RollforwardNext
    PROVE  CoinsInv'
<1>1. pc = "rollforward" /\ UNCHANGED <<disk, undo, best>> /\ block \in Block /\ Contains(best, block)
  BY Zenon DEF RollforwardNext, PlaceInv
<1>2. /\ Mixed(Tip, UnspentUpTo(block, i - 1), Unspent(best)) /\ Sound(coins, db)
      /\ i \in 1..(Len(Txs[block]) + 1) /\ Len(Txs[block]) \in Nat
  <2>1. Mixed(Tip, UnspentUpTo(block, i - 1), Unspent(best)) /\ i <= Len(Txs[block]) + 1
    BY <1>1, Zenon DEF CoinsInv, ShownInv
  <2>2. Sound(coins, db)
    BY <1>1, Zenon DEF CacheInv
  <2>3. i \in Nat /\ i > 0 /\ Len(Txs[block]) \in Nat
    BY <1>1, PlaceFacts
  <2> QED
    BY <2>1, <2>2, <2>3
<1>3. CASE i <= Len(Txs[block])
  <2>1. coins' = RollforwardTx(coins, db, block, i) /\ i' = i + 1 /\ pc' = pc /\ block' = block
    BY <1>3, Zenon DEF RollforwardNext
  <2>2. i \in 1..Len(Txs[block]) /\ i' - 1 = i /\ i' <= Len(Txs[block]) + 1
    BY <1>2, <1>3, <2>1
  <2>3. Tip' = After(Tip, block, i)
    BY <1>1, <1>2, <2>1, <2>2, UpdateSee DEF Tip, disk
  <2>4. Mixed(Tip', UnspentUpTo(block, i), Unspent(best))
    BY <1>1, <1>2, <2>2, <2>3, ConnectMixed, Zenon
  <2>5. ShownInv'
    BY <1>1, <2>1, <2>2, <2>4, Zenon DEF ShownInv
  <2>6. StoredInv'
    BY <1>1, <2>1, Zenon DEF CoinsInv, StoredInv, disk
  <2> QED
    BY <2>5, <2>6 DEF CoinsInv
<1>4. CASE ~(i <= Len(Txs[block]))
  <2>1. i - 1 = Len(Txs[block])
    BY <1>2, <1>4
  <2>2. Mixed(Tip, Unspent(block), Unspent(best))
    BY <1>2, <2>1, Zenon DEF Unspent
  <2> QED
    BY <1>1, <1>4, <2>2, CoinsOnward, Zenon DEF RollforwardNext
<1> QED
  BY <1>3, <1>4, Zenon

LEMMA CoinsNext ==
    ASSUME PlaceInv, CacheInv, CoinsInv, [Next]_vars
    PROVE  CoinsInv'
<1>1. ASSUME \/ \E o \in Outpoint : AccessCoin(o) \/ Uncache(o)
             \/ \E full \in BOOLEAN : FlushStateToDisk(full)
             \/ UNCHANGED vars
      PROVE  CoinsInv'
  <2>1. Tip' = Tip
    BY <1>1, QuietCaches, Zenon DEF Same
  <2>2. /\ UNCHANGED <<disk, undo, best>>
        /\ UNCHANGED <<job, view, vtxundo>> \/ (pc = "idle" /\ pc' \in {"idle", "write"})
    BY <1>1, Zenon DEF AccessCoin, Uncache, FlushStateToDisk, vars, disk, job
  <2> QED
    BY <2>1, <2>2, CoinsStay, Zenon
<1> QED
  BY <1>1, CoinsConnectTip, CoinsConnectNext, CoinsConnectEnd, CoinsDisconnectTip, CoinsDisconnectNext, CoinsDisconnectEnd, CoinsWriteBatch, CoinsWriteEnd, CoinsCrash, CoinsRollback, CoinsRollforward, Zenon DEF Next, Continue

LEMMA CoinsInvariant == Spec => []CoinsInv
<1>1. Init => CoinsInv
  <2> SUFFICES ASSUME Init
               PROVE  CoinsInv
    OBVIOUS
  <2>1. Tip = [o \in Outpoint |-> Spent]
    BY Zenon DEF Init, Tip, See, NoEntries
  <2>2. ShownInv
    BY <2>1, UnspentGenesis, Zenon DEF Init, ShownInv
  <2>3. StoredInv
    BY UnspentGenesis, Zenon DEF Init, StoredInv, Root
  <2> QED
    BY <2>2, <2>3, Zenon DEF CoinsInv
<1>2. PlaceInv /\ CacheInv /\ CoinsInv /\ [Next]_vars => CoinsInv'
  BY CoinsNext, Zenon
<1> QED
  BY <1>1, <1>2, CacheInvariant, PTL DEF Spec

\* For every tree of blocks and every set of transactions: pcoinsTip shows exactly the coins of
\* the chain that ends in its best block whenever no block is being connected or disconnected,
\* after every reorganisation, eviction, partial flush and crash (ConnectBlock, DisconnectBlock,
\* CCoinsViewDB::BatchWrite and ReplayBlocks).
THEOREM TipShowsTheChain == Spec => []TipIsUnspent
<1>1. CoinsInv => TipIsUnspent
  BY Zenon DEF CoinsInv, ShownInv, TipIsUnspent
<1> QED
  BY <1>1, CoinsInvariant, PTL

\* A database with a best block has the coins of that block and no other: the two markers of
\* CCoinsViewDB::BatchWrite are never there together.
THEOREM DatabaseHasTheChain == Spec => []DatabaseIsUnspent
<1>1. CoinsInv => DatabaseIsUnspent
  BY Zenon DEF CoinsInv, StoredInv, DatabaseIsUnspent, Root
<1> QED
  BY <1>1, CoinsInvariant, PTL

-----------------------------------------------------------------------------
(* Nothing stops the node.                                                 *)

LEMMA UndoableParent ==
    ASSUME NEW b \in Block, b # Genesis, NEW S
    PROVE  /\ Undoable(b, S) => Undoable(Pprev(b), S)
           /\ Undoable(Pprev(b), S) /\ b \in S => Undoable(b, S)
           /\ Undoable(b, S) => b \in S
BY PathPprev DEF Undoable

LEMMA UndoableMore ==
    ASSUME NEW b, NEW S, NEW T, Undoable(b, S), S \subseteq T
    PROVE  Undoable(b, T)
BY DEF Undoable

LEMMA UndoableGenesis ==
    ASSUME NEW S
    PROVE  Undoable(Genesis, S)
BY PathGenesis, Zenon DEF Undoable

\* The blocks with undo data.
Kept == {b \in Block : undo[b] # <<>>}

\* The steps that neither write nor lose undo data, nor move the tip or the disk, and begin no
\* replay.
LEMMA KeptStays ==
    ASSUME KeptInv, UNCHANGED <<disk, undo, durable, best>>, pc' # "abort",
           pc' \in {"write", "rollback", "rollforward"} => pc' = pc /\ block' = block,
           pc' = "connect" => (\A k \in i..Len(Txs[block]) : \A o \in Txs[block][k].out : See(view, Tip)[o] = Spent)'
    PROVE  KeptInv'
BY Zenon DEF KeptInv, disk

LEMMA KeptConnectTip ==
    ASSUME PlaceInv, CacheInv, CoinsInv, KeptInv, NEW b \in Block, ConnectTip(b)
    PROVE  KeptInv'
<1>1. /\ UNCHANGED <<disk, undo, durable, best>> /\ pc = "idle" /\ view' = NoEntries
      /\ UNCHANGED job \/ (pc' = "connect" /\ block' = b /\ i' = 1)
  BY DEF ConnectTip, Begin
<1>2. CacheInv' /\ See(NoEntries, Tip') = Tip'
  BY ConnectTipCaches, SeeNothing, Zenon DEF Tip
<1>3. pc' = "connect" => (\A k \in i..Len(Txs[block]) : \A o \in Txs[block][k].out : See(view, Tip)[o] = Spent)'
  <2> SUFFICES ASSUME pc' = "connect",
                      NEW k \in i'..Len(Txs[block']), NEW o \in Txs[block'][k].out
               PROVE  See(view', Tip')[o] = Spent
    BY Zenon
  <2>1. block' = b /\ i' = 1 /\ \A x \in Outputs(b) : Tip'[x] = Spent
    BY <1>1, <1>2, Zenon DEF CacheInv, job
  <2>2. o \in Outputs(b)
    BY <2>1, TxsFacts, Zenon
  <2> QED
    BY <1>1, <1>2, <2>1, <2>2, Zenon
<1> QED
  BY <1>1, <1>3, KeptStays, Zenon DEF job

\* AddCoin has nothing to throw for: what the transaction makes is not there.
LEMMA NeverThrows ==
    ASSUME PlaceInv, CacheInv, CoinsInv, KeptInv, pc = "connect", i <= Len(Txs[block])
    PROVE  ~UpdateThrows(view, Tip, block, i)
<1> SUFFICES ASSUME UpdateThrows(view, Tip, block, i)
             PROVE  FALSE
  OBVIOUS
<1>1. block \in Block /\ i \in 1..Len(Txs[block]) /\ i \in i..Len(Txs[block])
  <2>1. block \in Block /\ i \in Nat \ {0} /\ Len(Txs[block]) \in Nat
    BY PlaceFacts, Zenon
  <2> QED
    BY <2>1
<1> DEFINE in == Txs[block][i].in
           out == Txs[block][i].out
           found == FetchCoin(view, Tip, in)
           spent == SpendCoin(found, in)
<1>2. PICK o \in out : o \in spent.has /\ spent.coin[o] # Spent
  BY Zenon DEF UpdateThrows, AddThrows
<1>3. o \in Outpoint /\ See(view, Tip)[o] = Spent
  BY <1>1, <1>2, TxsFacts, Zenon DEF KeptInv
<1>4. in \in SUBSET Outpoint
  BY <1>1, TxsFacts, Zenon
<1> HIDE DEF in
<1>5. See(spent, Tip)[o] = Spent
  <2>1. Sound(view, Tip)
    BY Zenon DEF CacheInv
  <2> QED
    BY <1>3, <1>4, <2>1, SpendSee
<1> QED
  BY <1>2, <1>3, <1>5, Zenon DEF See

LEMMA KeptConnectNext ==
    ASSUME PlaceInv, CacheInv, CoinsInv, KeptInv, ConnectNext
    PROVE  KeptInv'
<1>1. /\ UNCHANGED <<disk, undo, durable, best>> /\ pc = "connect" /\ i <= Len(Txs[block]) /\ Tip' = Tip
      /\ block' = block
  BY ConnectCaches, Zenon DEF ConnectNext, Same, Idle
<1>2. CASE pc' = "idle"
  BY <1>1, <1>2, KeptStays, Zenon
<1>3. CASE pc' # "idle"
  <2>1. pc' = "connect" /\ i' = i + 1 /\ view' = UpdateCoins(view, Tip, block, i)
    BY <1>1, <1>3, NeverThrows, Zenon DEF ConnectNext, Idle
  <2>2. /\ block \in Block /\ block # Genesis /\ i \in 1..Len(Txs[block]) /\ Len(Txs[block]) \in Nat
    <3>1. block \in Block /\ block # Genesis /\ i \in Nat \ {0} /\ Len(Txs[block]) \in Nat
      BY <1>1, PlaceFacts, Zenon DEF PlaceInv
    <3> QED
      BY <1>1, <3>1
  <2>3. See(view', Tip) = After(See(view, Tip), block, i)
    BY <2>1, <2>2, UpdateSee DEF CacheInv
  <2>4. ASSUME NEW k \in (i + 1)..Len(Txs[block]), NEW o \in Txs[block][k].out
        PROVE  See(view', Tip)[o] = Spent
    <3>1. k \in 1..Len(Txs[block]) /\ k # i /\ k \in i..Len(Txs[block])
      BY <2>2
    <3>2. o \notin Txs[block][i].out
      BY <2>2, <2>4, <3>1, TxidAssumption, Zenon
    <3>3. o \in Outpoint /\ See(view, Tip)[o] = Spent
      BY <1>1, <2>2, <2>4, <3>1, TxsFacts, Zenon DEF KeptInv
    <3> QED
      BY <2>3, <3>2, <3>3, Zenon DEF After
  <2> QED
    BY <1>1, <2>1, <2>4, KeptStays, Zenon
<1> QED
  BY <1>2, <1>3, Zenon

LEMMA KeptConnectEnd ==
    ASSUME PlaceInv, CacheInv, CoinsInv, KeptInv, ConnectEnd
    PROVE  KeptInv'
<1>1. pc = "connect" /\ i > Len(Txs[block]) /\ UNCHANGED <<disk, durable>> /\ FlushView(block)
  BY DEF ConnectEnd
<1>2. best' = block /\ pc' = "idle"
  BY <1>1, FlushShows, Zenon
<1>3. block \in Block /\ block # Genesis /\ Pprev(block) = best /\ Len(Txs[block]) \in Nat /\ i \in Nat
  BY <1>1, TxsFacts, Zenon DEF PlaceInv
<1>4. vtxundo # <<>>
  <2>1. vtxundo \in Seq([Outpoint -> Nat]) /\ Len(vtxundo) = i - 1
    BY <1>1 DEF CoinsInv, ShownInv
  <2>2. Len(Txs[block]) # 0
    <3>1. Txs[block] # <<>> /\ Txs[block] \in Seq([in : SUBSET Outpoint, out : SUBSET Outpoint])
      BY <1>3, TxidAssumption, TxsAssumption, Zenon
    <3> QED
      BY <3>1, EmptySeq, Zenon
  <2> QED
    BY <1>1, <1>3, <2>1, <2>2
<1>5. Kept \subseteq Kept' /\ block \in Kept'
  BY <1>3, <1>4, Zenon DEF ConnectEnd, CoinsInv, StoredInv, Kept
<1>6. Undoable(best, Kept)
  BY Zenon DEF KeptInv, Kept
<1>7. Undoable(block, Kept')
  BY <1>3, <1>5, <1>6, UndoableParent, UndoableMore
<1>8. durable \subseteq Kept
  BY Zenon DEF KeptInv, Kept
<1> QED
  BY <1>1, <1>2, <1>5, <1>7, <1>8, Zenon DEF KeptInv, Kept, disk

LEMMA KeptDisconnect ==
    ASSUME PlaceInv, CacheInv, CoinsInv, KeptInv, DisconnectTip \/ DisconnectNext \/ DisconnectEnd
    PROVE  KeptInv'
<1>1. CASE DisconnectTip
  <2>1. best \in Block /\ best # Genesis /\ UNCHANGED <<disk, undo, durable, best>>
    BY <1>1, Zenon DEF PlaceInv, DisconnectTip
  <2>2. undo[best] # <<>>
    BY <2>1, UndoableParent, Zenon DEF KeptInv
  <2>3. pc' = "disconnect"
    BY <1>1, <2>2, Zenon DEF DisconnectTip, BeginBack
  <2> QED
    BY <2>1, <2>3, KeptStays, Zenon
<1>2. CASE DisconnectNext
  <2>1. pc = "disconnect" /\ i > 0 /\ UNCHANGED <<disk, undo, durable, best>>
    BY <1>2, Zenon DEF DisconnectNext
  <2>2. block \in Block /\ i \in 1..Len(Txs[block])
    BY <2>1, PlaceFacts, Zenon
  <2>3. See(view, Tip) = UnspentUpTo(block, i) /\ Sound(view, Tip)
    BY <2>1, Zenon DEF CoinsInv, ShownInv, CacheInv
  <2> DEFINE in == Txs[block][i].in
             out == Txs[block][i].out
             spent == Unspend(view, Tip, block, i)
  <2>4. in \in SUBSET Outpoint /\ out \in SUBSET Outpoint
    BY <2>2, TxsFacts, Zenon
  <2>5. \A o \in Outpoint : See(view, Tip)[o]
                              = IF o \in out THEN Height(block)
                                ELSE IF o \in in THEN Spent ELSE UnspentUpTo(block, i - 1)[o]
    BY <2>2, <2>3, UnspentNext DEF After
  <2>6. \A o \in Outpoint : See(spent, Tip)[o] = IF o \in out THEN Spent ELSE See(view, Tip)[o]
    BY <2>2, <2>3, DisconnectSee
  <2>7. DisconnectClean(view, Tip, block, i)
    <3>1. \A o \in out : See(view, Tip)[o] = Height(block)
      BY <2>4, <2>5, Zenon
    <3>2. \A o \in in : See(spent, Tip)[o] = Spent
      BY <2>4, <2>5, <2>6, Zenon
    <3> HIDE DEF spent
    <3>3. Have(spent, Tip, in) = {}
      BY <2>4, <3>2, Zenon DEF Have, See
    <3> QED
      BY <3>1, <3>3, Zenon DEF DisconnectClean, spent
  <2>8. pc' = "disconnect"
    BY <1>2, <2>1, <2>7, Zenon DEF DisconnectNext
  <2> QED
    BY <2>1, <2>8, KeptStays, Zenon
<1>3. CASE DisconnectEnd
  <2>1. pc = "disconnect" /\ UNCHANGED <<disk, undo, durable>> /\ FlushView(Pprev(block))
    BY <1>3, Zenon DEF DisconnectEnd
  <2>2. best' = Pprev(block) /\ pc' = "idle"
    BY <2>1, FlushShows, Zenon
  <2>3. block = best /\ best \in Block /\ best # Genesis
    BY <2>1, Zenon DEF PlaceInv
  <2>4. Undoable(best', {b \in Block : undo[b] # <<>>})
    BY <2>2, <2>3, UndoableParent, Zenon DEF KeptInv
  <2> QED
    BY <2>1, <2>2, <2>4, Zenon DEF KeptInv, disk
<1> QED
  BY <1>1, <1>2, <1>3, Zenon

LEMMA KeptWrite ==
    ASSUME PlaceInv, CoinsInv, KeptInv,
           (\E full \in BOOLEAN : FlushStateToDisk(full)) \/ (\E S \in SUBSET Outpoint : WriteBatch(S)) \/ WriteEnd
    PROVE  KeptInv'
<1>1. ASSUME NEW full \in BOOLEAN, FlushStateToDisk(full)
      PROVE  KeptInv'
  <2>1. /\ UNCHANGED <<disk, undo, best>> /\ pc = "idle" /\ pc' \in {"idle", "write"}
        /\ durable' = Kept /\ durable \subseteq Kept /\ Undoable(best, Kept)
    BY <1>1, Zenon DEF FlushStateToDisk, KeptInv, Kept
  <2>2. dbHeads = <<>> => Undoable(Root(dbBest), durable')
    BY <2>1, UndoableMore, Zenon DEF KeptInv
  <2>3. dbHeads = <<>>
    BY <2>1, Zenon DEF CoinsInv, StoredInv
  <2> QED
    BY <2>1, <2>2, <2>3, Zenon DEF KeptInv, Kept, disk
<1>2. ASSUME NEW S, WriteBatch(S)
      PROVE  KeptInv'
  <2>1. /\ pc = "write" /\ pc' = "write" /\ UNCHANGED <<undo, durable, best>>
        /\ dbHeads' # <<>> /\ dbHeads'[1] = best /\ dbHeads'[2] = OldTip
    BY <1>2, Zenon DEF WriteBatch, job
  <2>2. Undoable(Root(OldTip), durable)
    BY Zenon DEF KeptInv, OldTip, CoinsInv, StoredInv
  <2> QED
    BY <2>1, <2>2, Zenon DEF KeptInv
<1>3. ASSUME WriteEnd
      PROVE  KeptInv'
  <2>1. /\ pc = "write" /\ pc' = "idle" /\ UNCHANGED <<undo, durable, best>>
        /\ dbHeads' = <<>> /\ dbBest' = best
    BY <1>3, Zenon DEF WriteEnd, Idle
  <2>2. Root(dbBest') = best
    BY <2>1, NoBlockAssumption, Zenon DEF Root, PlaceInv
  <2> QED
    BY <2>1, <2>2, Zenon DEF KeptInv
<1> QED
  BY <1>1, <1>2, <1>3, Zenon

LEMMA KeptCrash ==
    ASSUME PlaceInv, CoinsInv, KeptInv, Crash
    PROVE  KeptInv'
<1>1. /\ UNCHANGED <<disk, durable>> /\ best' = RestartAt /\ durable \subseteq Kept'
      /\ pc' = (IF dbHeads = <<>> THEN "idle" ELSE "rollback")
      /\ dbHeads # <<>> => block' = Root(dbHeads[2])
  BY Zenon DEF Crash, Idle, BeginBack, KeptInv, Kept, Root
<1>2. Undoable(best', durable)
  BY <1>1, Zenon DEF KeptInv, RestartAt, Root
<1>3. Undoable(best', Kept')
  BY <1>1, <1>2, UndoableMore, Zenon
<1> QED
  BY <1>1, <1>2, <1>3, Zenon DEF KeptInv, Kept, disk

LEMMA KeptReplay ==
    ASSUME PlaceInv, CoinsInv, KeptInv, RollbackNext \/ RollbackEnd \/ RollforwardNext
    PROVE  KeptInv'
<1>1. UNCHANGED <<disk, undo, durable, best>> /\ pc \in {"rollback", "rollforward"}
  BY Zenon DEF RollbackNext, RollbackEnd, RollforwardNext
<1>2. CASE RollbackNext
  <2>1. pc = "rollback" /\ block \in Block /\ block # Genesis
    BY <1>2, ContainsGenesis, Zenon DEF RollbackNext, PlaceInv
  <2>2. Undoable(block, durable) /\ Undoable(Pprev(block), durable) /\ block \in durable
    BY <2>1, UndoableParent, Zenon DEF KeptInv
  <2>3. undo[block] # <<>>
    BY <2>2, Zenon DEF KeptInv
  <2>4. pc' = "rollback" /\ block' \in {block, Pprev(block)}
    BY <1>2, <2>1, <2>3, Zenon DEF RollbackNext, BeginBack
  <2> QED
    BY <1>1, <2>1, <2>2, <2>4, Zenon DEF KeptInv, disk
<1>3. CASE RollbackEnd \/ RollforwardNext
  <2>1. pc' \in {"write", "rollforward"}
    BY <1>3, Zenon DEF RollbackEnd, RollforwardNext, Onward, Begin
  <2> QED
    BY <1>1, <2>1, Zenon DEF KeptInv, disk
<1> QED
  BY <1>2, <1>3, Zenon

LEMMA KeptNext ==
    ASSUME PlaceInv, CacheInv, CoinsInv, KeptInv, [Next]_vars
    PROVE  KeptInv'
<1>1. ASSUME (\E o \in Outpoint : AccessCoin(o) \/ Uncache(o)) \/ UNCHANGED vars
      PROVE  KeptInv'
  <2>1. Tip' = Tip
    BY <1>1, QuietCaches, Zenon DEF Same
  <2>2. UNCHANGED <<disk, undo, durable, best, view, job>>
    BY <1>1, Zenon DEF AccessCoin, Uncache, vars, disk, job
  <2> QED
    BY <2>1, <2>2, Zenon DEF KeptInv, job, disk
<1> QED
  BY <1>1, KeptConnectTip, KeptConnectNext, KeptConnectEnd, KeptDisconnect, KeptWrite, KeptCrash, KeptReplay, Zenon DEF Next, Continue

\* For every tree of blocks and every set of transactions the chainstate never stops: neither
\* AddCoin nor BatchWrite throws, DisconnectBlock is clean, the undo data that DisconnectTip and
\* ReplayBlocks need is there, in the block index database wherever the process may have to start
\* from it, and a flush that goes on with an interrupted one has the same goal.
THEOREM ChainstateNeverStops == Spec => []NeverAborts
<1>1. Init => KeptInv
  BY UndoableGenesis, Zenon DEF Init, KeptInv, Root
<1>2. PlaceInv /\ CacheInv /\ CoinsInv /\ KeptInv /\ [Next]_vars => KeptInv'
  BY KeptNext, Zenon
<1>3. CoinsInv /\ KeptInv => NeverAborts
  BY DEF CoinsInv, StoredInv, KeptInv, NeverAborts
<1> QED
  BY <1>1, <1>2, <1>3, CacheInvariant, CoinsInvariant, PTL DEF Spec
=============================================================================
