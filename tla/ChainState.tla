----------------------------- MODULE ChainState -----------------------------
(***************************************************************************)
(* The unspent transaction outputs: pcoinsTip (the cache `coins'), the     *)
(* chainstate database under it (`db' with its best block or, while a      *)
(* flush is being written, its pair of head blocks), and the cache `view'  *)
(* on top of it in which ConnectTip and DisconnectTip work (validation.cpp,*)
(* coins.cpp, txdb.cpp).                                                   *)
(*                                                                         *)
(* A step handles one transaction or writes one batch, and the process may *)
(* crash before each of them.  All of it runs under cs_main, so there is   *)
(* one thread of control, whose place is pc.  The choice of the blocks to  *)
(* connect and disconnect is ChainActivation's; here it is free.           *)
(***************************************************************************)
EXTENDS BlockTree, CoinsCache

CONSTANTS
    Txs,      \* Txs[b]: the transactions of block b, each with its set of inputs and of outputs
    NoBlock   \* the null hash

ASSUME TxsAssumption == Txs \in [Block -> Seq([in : SUBSET Outpoint, out : SUBSET Outpoint])]
ASSUME NoBlockAssumption == NoBlock \notin Block

\* The outputs of the genesis block are not coins: ConnectBlock skips its transactions.
ASSUME GenesisAssumption == Txs[Genesis] = <<>>

\* A block has a coinbase (CheckBlock), and no two of its transactions have an output in common:
\* an output is named by the hash of its transaction.
ASSUME TxidAssumption ==
    \A b \in Block \ {Genesis} :
        /\ Txs[b] # <<>>
        /\ \A k, l \in 1..Len(Txs[b]) : k # l => Txs[b][k].out \cap Txs[b][l].out = {}

VARIABLES
    db,       \* the coins in the database
    dbBest,   \* DB_BEST_BLOCK, or NoBlock
    dbHeads,  \* DB_HEAD_BLOCKS: <<new tip, old tip>>, or <<>>
    undo,     \* the undo data of a block, or <<>> if its index entry has no nUndoPos
    durable,  \* the blocks whose nUndoPos the block index database has
    coins,    \* pcoinsTip, or the cache of ReplayBlocks
    best,     \* the best block of that cache
    view,     \* the cache of ConnectTip or DisconnectTip
    pc,       \* "idle", "connect", "disconnect", "write", "rollback", "rollforward" or "abort"
    block,    \* the block it is being done with
    i,        \* its next transaction
    vtxundo   \* the undo data collected by ConnectBlock

vars == <<db, dbBest, dbHeads, undo, durable, coins, best, view, pc, block, i, vtxundo>>

disk == <<db, dbBest, dbHeads>>
job == <<pc, block, i>>

Tip == See(coins, db)  \* what pcoinsTip shows to the view

Outputs(b) == UNION {Txs[b][k].out : k \in 1..Len(Txs[b])}

At(b) == [o \in Outpoint |-> Height(b)]

\* The place before the first (after the last) transaction of b.
Begin(what, b) == pc' = what /\ block' = b /\ i' = 1
BeginBack(what, b) == pc' = what /\ block' = b /\ i' = Len(Txs[b])

Idle == pc' = "idle" /\ UNCHANGED <<block, i>>

-----------------------------------------------------------------------------
\* One transaction applied to or undone in cache c over base.

\* UpdateCoins, with the inputs fetched by HaveInputs.
UpdateCoins(c, base, b, k) ==
    AddCoin(SpendCoin(FetchCoin(c, base, Txs[b][k].in), Txs[b][k].in),
            Txs[b][k].out, At(b), IF k = 1 THEN Txs[b][k].out ELSE {})

UpdateThrows(c, base, b, k) ==
    AddThrows(SpendCoin(FetchCoin(c, base, Txs[b][k].in), Txs[b][k].in),
              Txs[b][k].out, IF k = 1 THEN Txs[b][k].out ELSE {})

\* The outputs of S that are unspent: the answers of HaveCoin.
Have(c, base, S) == {o \in S : IF o \in c.has THEN c.coin[o] # Spent ELSE base[o] # Spent}

\* RollforwardBlock, one transaction: what is missing is not spent, what is there is overwritten.
RollforwardOnlyAdds(c, base, b, k) ==
    AddCoin(FetchCoin(c, base, Txs[b][k].out), Txs[b][k].out, At(b), Txs[b][k].out)
RollforwardTx(c, base, b, k) ==
    LET spent == SpendCoin(FetchCoin(c, base, Txs[b][k].in), Txs[b][k].in)
        found == FetchCoin(spent, base, Txs[b][k].out)
    IN  AddCoin(found, Txs[b][k].out, At(b), Have(found, base, Txs[b][k].out))

\* DisconnectBlock, one transaction: the outputs are spent, then the inputs restored.
Unspend(c, base, b, k) == SpendCoin(FetchCoin(c, base, Txs[b][k].out), Txs[b][k].out)

DisconnectTx(c, base, b, k) ==
    LET found == FetchCoin(Unspend(c, base, b, k), base, Txs[b][k].in)
    IN  AddCoin(found, Txs[b][k].in, undo[b][k], Have(found, base, Txs[b][k].in))

\* fClean: every output was there as the block made it and no input was unspent.
DisconnectClean(c, base, b, k) ==
    /\ \A o \in Txs[b][k].out : See(c, base)[o] = Height(b)
    /\ Have(Unspend(c, base, b, k), base, Txs[b][k].in) = {}
-----------------------------------------------------------------------------
Init ==
    /\ db = [o \in Outpoint |-> Spent]
    /\ dbBest = NoBlock
    /\ dbHeads = <<>>
    /\ undo = [b \in Block |-> <<>>]
    /\ durable = {}
    /\ coins = NoEntries
    /\ best = Genesis
    /\ view = NoEntries
    /\ pc = "idle"
    /\ block = Genesis
    /\ i = 0
    /\ vtxundo = <<>>

\* A read of some coin through pcoinsTip (mempool, RPC), which caches it.
AccessCoin(o) ==
    /\ pc = "idle"
    /\ coins' = FetchCoin(coins, db, {o})
    /\ UNCHANGED <<disk, undo, durable, best, view, job, vtxundo>>

\* Uncache: only an entry without flags.
UncacheFlagged(o) ==
    /\ pc = "idle"
    /\ coins' = IF o \in coins.fresh THEN coins ELSE Drop(coins, {o})
    /\ UNCHANGED <<disk, undo, durable, best, view, job, vtxundo>>
Uncache(o) ==
    /\ pc = "idle"
    /\ coins' = IF o \in coins.dirty \cup coins.fresh THEN coins ELSE Drop(coins, {o})
    /\ UNCHANGED <<disk, undo, durable, best, view, job, vtxundo>>

\* ConnectBlock up to its loop: a block one of whose outputs is there unspent is refused (BIP30).
ConnectTip(b) ==
    /\ pc = "idle"
    /\ b # Genesis /\ Pprev(b) = best
    /\ vtxundo' = <<>>
    /\ view' = NoEntries
    /\ \/ /\ Have(coins, db, Outputs(b)) = {}
          /\ Begin("connect", b)
          /\ UNCHANGED coins
       \/ /\ Have(coins, db, Outputs(b)) # {}
          /\ \E seen \in SUBSET Outputs(b) : coins' = FetchCoin(coins, db, seen)
          /\ UNCHANGED job
    /\ UNCHANGED <<disk, undo, durable, best>>

\* ConnectBlock, the next transaction: a missing input refuses the block and drops the view.
ConnectNext ==
    /\ pc = "connect" /\ i <= Len(Txs[block])
    /\ LET in == Txs[block][i].in IN
       \/ /\ Have(view, Tip, in) = in
          /\ coins' = FetchCoin(coins, db, in \ view.has)
          /\ IF UpdateThrows(view, Tip, block, i)
             THEN pc' = "abort" /\ UNCHANGED <<block, i, view, vtxundo>>
             ELSE /\ view' = UpdateCoins(view, Tip, block, i)
                  /\ vtxundo' = Append(vtxundo, [o \in Outpoint |-> IF o \in in THEN See(view, Tip)[o] ELSE Spent])
                  /\ i' = i + 1
                  /\ UNCHANGED <<pc, block>>
       \/ /\ Have(view, Tip, in) # in
          /\ \E seen \in SUBSET in : coins' = FetchCoin(coins, db, seen \ view.has)
          /\ view' = NoEntries
          /\ vtxundo' = <<>>
          /\ Idle
    /\ UNCHANGED <<disk, undo, durable, best>>

\* view.Flush() into pcoinsTip, with the best block.
FlushView(b) ==
    /\ view' = NoEntries
    /\ UNCHANGED <<block, i>>
    /\ IF FlushThrows(coins, view)
       THEN pc' = "abort" /\ UNCHANGED <<coins, best>>
       ELSE pc' = "idle" /\ coins' = BatchWrite(coins, view) /\ best' = b

\* The end of ConnectBlock and of ConnectTip: undo data is written the first time only.
ConnectEnd ==
    /\ pc = "connect" /\ i > Len(Txs[block])
    /\ undo' = IF undo[block] = <<>> THEN [undo EXCEPT ![block] = vtxundo] ELSE undo
    /\ vtxundo' = <<>>
    /\ FlushView(block)
    /\ UNCHANGED <<disk, durable>>

\* DisconnectTip, up to the loop of DisconnectBlock.
DisconnectTip ==
    /\ pc = "idle"
    /\ best # Genesis
    /\ view' = NoEntries
    /\ IF undo[best] = <<>>
       THEN pc' = "abort" /\ UNCHANGED <<block, i>>
       ELSE BeginBack("disconnect", best)
    /\ UNCHANGED <<disk, undo, durable, coins, best, vtxundo>>

\* DisconnectBlock, the next transaction; an unclean result stops the node's chain.
DisconnectNext ==
    /\ pc = "disconnect" /\ i > 0
    /\ view' = DisconnectTx(view, Tip, block, i)
    /\ coins' = FetchCoin(coins, db, (Txs[block][i].out \cup Txs[block][i].in) \ view.has)
    /\ IF DisconnectClean(view, Tip, block, i)
       THEN i' = i - 1 /\ UNCHANGED <<pc, block>>
       ELSE pc' = "abort" /\ UNCHANGED <<block, i>>
    /\ UNCHANGED <<disk, undo, durable, best, vtxundo>>

DisconnectEnd ==
    /\ pc = "disconnect" /\ i = 0
    /\ FlushView(Pprev(block))
    /\ UNCHANGED <<disk, undo, durable, vtxundo>>

\* FlushStateToDisk: the block index, then perhaps (full) the coins.
FlushCoinsOnly(full) ==
    /\ pc = "idle"
    /\ pc' = IF full THEN "write" ELSE pc
    /\ UNCHANGED <<disk, undo, durable, coins, best, view, block, i, vtxundo>>
FlushStateToDisk(full) ==
    /\ pc = "idle"
    /\ durable' = {b \in Block : undo[b] # <<>>}
    /\ pc' = IF full THEN "write" ELSE pc
    /\ UNCHANGED <<disk, undo, coins, best, view, block, i, vtxundo>>

\* old_tip in CCoinsViewDB::BatchWrite.
OldTip == IF dbBest = NoBlock /\ dbHeads # <<>> THEN dbHeads[2] ELSE dbBest

Put(S) == db' = [o \in Outpoint |-> IF o \in S THEN coins.coin[o] ELSE db[o]]

\* CCoinsViewDB::BatchWrite: a partial batch with the entries S; the first one marks the
\* database as being in transition.
WriteBatchKeepsBest(S) ==
    /\ pc = "write"
    /\ S \subseteq coins.dirty /\ S # {}
    /\ Put(S)
    /\ dbHeads' = <<best, OldTip>>
    /\ coins' = Drop(coins, S)
    /\ UNCHANGED <<dbBest, undo, durable, best, view, job, vtxundo>>
WriteBatch(S) ==
    /\ pc = "write"
    /\ S \subseteq coins.dirty /\ S # {}
    /\ Put(S)
    /\ dbBest' = NoBlock
    /\ dbHeads' = <<best, OldTip>>
    /\ coins' = Drop(coins, S)
    /\ UNCHANGED <<undo, durable, best, view, job, vtxundo>>

\* The last batch, after which the cache is empty.
WriteEnd ==
    /\ pc = "write"
    /\ Put(coins.dirty)
    /\ dbBest' = best
    /\ dbHeads' = <<>>
    /\ coins' = NoEntries
    /\ Idle
    /\ UNCHANGED <<undo, durable, best, view, vtxundo>>

\* The block a restart makes the best one: the goal of the interrupted flush, if there is one.
RestartAtOldTip == IF dbHeads # <<>> /\ dbHeads[2] # NoBlock THEN dbHeads[2] ELSE IF dbBest = NoBlock THEN Genesis ELSE dbBest
RestartAt == IF dbHeads # <<>> THEN dbHeads[1] ELSE IF dbBest = NoBlock THEN Genesis ELSE dbBest

\* A crash and the start after it, up to the loops of ReplayBlocks.
Crash ==
    /\ undo' = [b \in Block |-> IF b \in durable THEN undo[b] ELSE <<>>]
    /\ coins' = NoEntries
    /\ view' = NoEntries
    /\ vtxundo' = <<>>
    /\ best' = RestartAt
    /\ IF dbHeads = <<>>
       THEN Idle
       ELSE BeginBack("rollback", IF dbHeads[2] = NoBlock THEN Genesis ELSE dbHeads[2])
    /\ UNCHANGED <<disk, durable>>

\* Rollback along the old branch; an unclean result is expected.
RollbackNext ==
    /\ pc = "rollback" /\ ~Contains(best, block)
    /\ IF undo[block] = <<>>
       THEN pc' = "abort" /\ UNCHANGED <<coins, block, i>>
       ELSE IF i > 0
       THEN coins' = DisconnectTx(coins, db, block, i) /\ i' = i - 1 /\ UNCHANGED <<pc, block>>
       ELSE BeginBack("rollback", Pprev(block)) /\ UNCHANGED coins
    /\ UNCHANGED <<disk, undo, durable, best, view, vtxundo>>

\* The next block to roll forward after b on the way to the new tip, then the flush.
OnwardSame(b) ==
    IF b = best THEN pc' = "write" /\ UNCHANGED <<block, i>>
    ELSE Begin("rollforward", Ancestor(best, Height(b)))
Onward(b) ==
    IF b = best THEN pc' = "write" /\ UNCHANGED <<block, i>>
    ELSE Begin("rollforward", Ancestor(best, Height(b) + 1))

RollbackEnd ==
    /\ pc = "rollback" /\ Contains(best, block)
    /\ Onward(block)
    /\ UNCHANGED <<disk, undo, durable, coins, best, view, vtxundo>>

RollforwardNext ==
    /\ pc = "rollforward"
    /\ IF i <= Len(Txs[block])
       THEN coins' = RollforwardTx(coins, db, block, i) /\ i' = i + 1 /\ UNCHANGED <<pc, block>>
       ELSE Onward(block) /\ UNCHANGED coins
    /\ UNCHANGED <<disk, undo, durable, best, view, vtxundo>>

\* The rest of the work in hand (that a flush writes its last batch included).
Continue ==
    \/ ConnectNext \/ ConnectEnd
    \/ DisconnectNext \/ DisconnectEnd
    \/ WriteEnd
    \/ RollbackNext \/ RollbackEnd \/ RollforwardNext

Next ==
    \/ \E o \in Outpoint : AccessCoin(o) \/ Uncache(o)
    \/ \E b \in Block : ConnectTip(b)
    \/ DisconnectTip
    \/ \E full \in BOOLEAN : FlushStateToDisk(full)
    \/ \E S \in SUBSET Outpoint : WriteBatch(S)
    \/ Continue
    \/ Crash

Spec == Init /\ [][Next]_vars

\* There is work in hand: exactly then a step of Continue is possible.
Busy == pc \notin {"idle", "abort"}

\* The thread that holds cs_main is not suspended forever: weak fairness of Continue, written
\* with its enabling condition.
FairSpec == Spec /\ ([]<>(~Busy) \/ []<><<Continue>>_vars)

-----------------------------------------------------------------------------
(***************************************************************************)
(* Properties                                                              *)
(***************************************************************************)
\* Transaction p comes before transaction q on a chain that has both; each is given as its block
\* and its number in it.
Before(p, q) == Height(p[1]) < Height(q[1]) \/ (p[1] = q[1] /\ p[2] < q[2])

Tx(p) == Txs[p[1]][p[2]]

\* The transactions of the chain ending in b, those of b itself up to number k.
Places(b, k) == (UNION {{x} \X (1..Len(Txs[x])) : x \in Path(b) \ {b}}) \cup ({b} \X (1..k))

\* Of the transactions P of a chain, the one that makes o if none spends it or makes it again since.
Lasting(P, o) ==
    {p \in P : o \in Tx(p).out /\ \A q \in P : Before(p, q) => o \notin Tx(q).in \cup Tx(q).out}

\* The coins that the transactions P of a chain leave.
MadeBy(P) ==
    [o \in Outpoint |-> IF Lasting(P, o) = {} THEN Spent
                        ELSE Height((CHOOSE p \in Lasting(P, o) : TRUE)[1])]

\* The reference: the outputs that the chain ending in b, with b up to its transaction k, has
\* made and not spent since.
UnspentUpTo(b, k) == MadeBy(Places(b, k))
Unspent(b) == UnspentUpTo(b, Len(Txs[b]))

\* pcoinsTip shows the coins of the chain that ends in its best block whenever no block is being
\* connected or disconnected, and also while a flush has moved some of its entries to disk: after
\* any reorganisation, eviction and crash, and after ReplayBlocks of a half written flush.
TipIsUnspent == pc \in {"idle", "write"} => Tip = Unspent(best)

\* A database that is not in transition has the coins of the block it names.
DatabaseIsUnspent == dbBest # NoBlock => dbHeads = <<>> /\ db = Unspent(dbBest)

\* The flags mean what the code assumes: an entry without DIRTY agrees with the view under it,
\* a FRESH entry is for a coin that view does not have.  Otherwise Uncache, SpendCoin or a flush
\* that skips it loses a change.
FlagsSound(c, base) ==
    /\ c.fresh \subseteq c.dirty /\ c.dirty \subseteq c.has
    /\ \A o \in c.has \ c.dirty : c.coin[o] = base[o]
    /\ \A o \in c.fresh : base[o] = Spent

CachesSound == FlagsSound(coins, db) /\ FlagsSound(view, Tip)

\* What pcoinsTip shows changes only when its best block does, in a crash and in ReplayBlocks:
\* not by reads, by Uncache, by a block that is refused half way or by the batches of a flush.
CoinsMoveWithTip ==
    [][Tip' = Tip \/ best' # best \/ pc \in {"rollback", "rollforward"} \/ Crash]_vars

\* No logic_error of AddCoin or BatchWrite, no unclean DisconnectBlock in DisconnectTip and no
\* missing undo data, in DisconnectTip or when ReplayBlocks rolls back; and a flush that goes on
\* with an interrupted one has the same goal (the assertion on old_heads[0] in BatchWrite).
NeverAborts ==
    /\ pc # "abort"
    /\ pc = "write" /\ dbHeads # <<>> => dbHeads[1] = best

\* Unless the process crashes again and again, the work in hand ends: so does the replay of a
\* flush whose own flush was interrupted.
WorkEnds == []<><<Crash>>_vars \/ []<>(pc = "idle")

\* The stored tip: the goal of the flush being written, or the best block of the database.
Stored ==
    IF dbHeads # <<>> THEN dbHeads[1] ELSE IF dbBest = NoBlock THEN Genesis ELSE dbBest

Durable == INSTANCE DurableTip WITH tip <- best, stored <- Stored

\* The chainstate implements a tip with one durable copy: the batches of a flush, ReplayBlocks and
\* the caches are not visible in it, and a crash at any point leads to the stored tip.
ImplementsDurableTip == Durable!Spec
=============================================================================
