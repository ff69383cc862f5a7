--------------------------- MODULE ContractFollower ---------------------------
(***************************************************************************)
(* How the smart-contract state follows the active chain                   *)
(* (contract/observer.cpp, updateStrategy.cpp, cache.cpp, dbWrapper.cpp    *)
(* and the loop and the end of ActivateBestChain in validation.cpp).       *)
(*                                                                         *)
(* Two RocksDB databases live on disk: current_cache (the contract states, *)
(* variable snapshot) and block_index (the blocks those states stem from,  *)
(* one row per height, variable index).  Backups of current_cache, tagged  *)
(* with a block hash, are the checkpoints; the newest one is copied to a   *)
(* third database, tmp, that the RPC dumpcontractmessage reads.            *)
(*                                                                         *)
(* A contract state is abstracted to the sequence of block payloads whose  *)
(* contract transactions produced it, starting from the empty database.    *)
(* The state that belongs to a block is then the block's own path.         *)
(***************************************************************************)
EXTENDS BlockTree, FiniteSets

CONSTANTS
    Threads,            \* threads that call ActivateBestChain
    Readers,            \* RPC threads that run dumpcontractmessage
    NoDB,               \* tmp is no readable database
    Torn,               \* a block whose transactions were executed in part
    EmptyRangeClears,   \* DeleteRange(Slice(), Slice()) empties a database
    MaxCheckPointCount, \* checkpoints kept by clearCheckPoint (5 in the code)
    ClearInterval,      \* heights between two calls of it (5 in the code)
    MaxMoves,           \* bound: calls of FindMostWorkChain that return a new goal
    MaxInvalidations,   \* bound: calls of InvalidateBlock that shorten the chain
    MaxInvalidBlocks,   \* bound: blocks that ConnectTip finds invalid
    MaxRestarts,        \* bound: crashes and failed assertions
    MaxReadErrors,      \* bound: failures of ReadBlockFromDisk
    MaxBackupErrors     \* bound: failures of CreateNewBackupWithMetadata

ASSUME FollowerAssumption ==
    /\ NoDB \notin Seq(Payload \cup {Torn})
    /\ Torn \notin Payload
    /\ EmptyRangeClears \in BOOLEAN
    /\ MaxCheckPointCount \in Nat \ {0}
    /\ ClearInterval \in Nat \ {0}
    /\ {MaxMoves, MaxInvalidations, MaxInvalidBlocks, MaxRestarts, MaxReadErrors,
        MaxBackupErrors} \subseteq Nat

VARIABLES
    tip,            \* chainActive.Tip()
    flushed,        \* the tip of the chain state last written to disk
    index,          \* database block_index: a set of blocks, one per height
    snapshot,       \* database current_cache
    checkpoints,    \* the backups, oldest first: [tip, state]
    tmp,            \* database tmp, or NoDB
    pc,             \* where each thread is in ActivateBestChain
    goal,           \* its pindexMostWork (Genesis when it has none)
    h,              \* loop cursor (a height) of the thread that has the databases open
    base,           \* first height that thread still has to execute
    rpc,            \* where each reader is in dumpcontractmessage
    moves, invalidations, invalidBlocks, restarts, readErrors, backupErrors

chainVars == <<tip, flushed, goal>>
stores == <<index, snapshot, checkpoints, tmp>>
locals == <<h, base>>
counters == <<moves, invalidations, invalidBlocks, restarts, readErrors, backupErrors>>
vars == <<chainVars, stores, pc, locals, rpc, counters>>

-----------------------------------------------------------------------------
(* The places a thread can be at.                                          *)

\* cs_main is held from the choice of a strategy to the checkpoint.
LockedPcs == {"rebuildSnapShot", "rebuildIndex", "rebuildPush", "continue", "continuePush",
              "rollback", "rollbackPop", "restore", "exec", "checkpoint"}
TmpPcs == {"tmp", "tmpCopy", "purge"}
\* Both databases are open from the construction of ContractStateCache to its destruction.
DbPcs == {"opened"} \cup LockedPcs \cup TmpPcs
\* find and step: the head of the loop of ActivateBestChain, with pindexMostWork null or not.
Pcs == {"idle", "find", "step", "flush", "open"} \cup DbPcs

CsMainNotTaken == TRUE
CsMainFree == \A t \in Threads : pc[t] \notin LockedPcs
DbFree == \A t \in Threads : pc[t] \notin DbPcs

\* ReadLock and WriteLock on tmp_contract_db_mutex.
ReadLockFree == \A t \in Threads : pc[t] # "tmpCopy"
WriteLockIgnoresReaders == ReadLockFree
WriteLockFree == ReadLockFree /\ \A r \in Readers : rpc[r] = "idle"

Goto(t, p) == pc' = [pc EXCEPT ![t] = p]

\* BlockCache::getHeighestBlock, for a database with at least one row.
HeighestBlock(idx) == CHOOSE b \in idx : \A c \in idx : Height(c) <= Height(b)

\* BlockCache::setBlockIndex: one row per height.
PushBlock(idx, b) == {c \in idx : Height(c) # Height(b)} \cup {b}

\* ContractStateCache::popBlock
PopNothing(idx) == idx
PopBlock(idx) == idx \ {HeighestBlock(idx)}

\* ContractDBWrapper::clearAllStates deletes the range from the empty key to the empty key.
NotCleared(db, empty) == db
Cleared(db, empty) == IF EmptyRangeClears THEN empty ELSE db

HasCheckPoint(b) == \E i \in 1..Len(checkpoints) : checkpoints[i].tip = b

\* ContractStateCache::restoreCheckPoint takes the first match of the list.
NewestCheckPoint(i, b) == i = Len(checkpoints)
FirstCheckPoint(i, b) ==
    checkpoints[i].tip = b /\ \A j \in 1..(i - 1) : checkpoints[j].tip # b

\* RestoreDBFromLatestBackup
OldestBackup == checkpoints[1].state
LatestBackup == checkpoints[Len(checkpoints)].state

\* Whether the walk down the active chain meets b: the same height and the same hash.
SameHeight(b) == Height(b) <= Height(tip)
OnActiveChain(b) == Height(b) <= Height(tip) /\ Ancestor(tip, Height(b)) = b

\* UpdateStrategyFactory::createUpdateStrategy.  (Blocks with the same hash have the same
\* height, so its last case, the same hash at another height, cannot occur.)
StrategyByHeight ==
    IF index = {} THEN "rebuild"
    ELSE LET first == HeighestBlock(index) IN
         IF Height(first) = Height(tip) THEN "undo"
         ELSE IF Height(tip) <= Height(first) THEN "rollback" ELSE "continue"
Strategy ==
    IF index = {} THEN "rebuild"
    ELSE LET first == HeighestBlock(index) IN
         IF first = tip THEN "undo"
         ELSE IF Height(tip) <= Height(first) THEN "rollback" ELSE "continue"

-----------------------------------------------------------------------------
(* The chain moves.                                                        *)

\* ActivateBestChainStep towards b: disconnect down to the fork, connect until the tip has more
\* work than it had or is b.  (Every block adds the same work.)
StepTip(b) == Ancestor(b, IF Height(tip) < Height(b) THEN Height(tip) + 1 ELSE Height(b))

\* Whether the fork of the active chain and of b is at height k or below.
ForkedBy(b, k) == \A i \in (k + 1)..Height(b) : ~ Contains(tip, Ancestor(b, i))

\* The blocks that are the tip at some moment on the way from tip to b.
Route(b) ==
    {c \in Block : /\ Contains(tip, c) \/ Contains(b, c)
                  /\ ForkedBy(b, Height(c))}

\* pindexMostWork is forgotten.
Leave(t, p) == Goto(t, p) /\ goal' = [goal EXCEPT ![t] = Genesis]

\* One iteration of the loop of ActivateBestChain for pindexMostWork = b, other than the tip.
\* ConnectTip and DisconnectTip may write the chain state (FLUSH_STATE_IF_NEEDED).
Iterate(t, b) ==
    /\ \/ /\ tip' = StepTip(b)
          /\ IF tip' = b THEN Leave(t, "flush") ELSE Goto(t, "step") /\ goal' = [goal EXCEPT ![t] = b]
          /\ UNCHANGED invalidBlocks
       \/ \* a block on the way is invalid: the tip stays below it, pindexMostWork is wiped
          /\ invalidBlocks < MaxInvalidBlocks
          /\ invalidBlocks' = invalidBlocks + 1
          /\ \E k \in 0..(Height(StepTip(b)) - 1) : ForkedBy(b, k) /\ tip' = Ancestor(b, k)
          /\ Leave(t, "find")
    /\ flushed' \in {flushed} \cup Route(tip')
    /\ UNCHANGED <<stores, locals, rpc, invalidations, restarts, readErrors, backupErrors>>

\* pindexMostWork is null and FindMostWorkChain returns b, which has at least the tip's work.
FindMostWorkChain(t, b) ==
    /\ pc[t] \in {"idle", "find"}
    /\ CsMainFree
    /\ moves < MaxMoves
    /\ moves' = moves + 1
    /\ b # tip
    /\ Height(b) >= Height(tip)
    /\ Iterate(t, b)

\* pindexMostWork was found by an earlier iteration, and cs_main was free in between.
ActivateBestChainStep(t) ==
    /\ pc[t] = "step"
    /\ CsMainFree
    /\ goal[t] # tip
    /\ Iterate(t, goal[t])
    /\ UNCHANGED moves

\* pindexMostWork is the tip: ActivateBestChain returns at once, also after it moved the tip.
NothingToDo(t) ==
    /\ pc[t] = "find" \/ (pc[t] = "step" /\ goal[t] = tip)
    /\ CsMainFree
    /\ Leave(t, "idle")
    /\ UNCHANGED <<tip, flushed, stores, locals, rpc, counters>>

\* InvalidateBlock disconnects blocks from the tip down.  The ActivateBestChain that follows it
\* is an action of its own; when the new tip is the best chain left, it returns at once.
InvalidateBlock(b) ==
    /\ CsMainFree
    /\ invalidations < MaxInvalidations
    /\ b # tip
    /\ Contains(tip, b)
    /\ tip' = b
    /\ flushed' \in {flushed} \cup Route(b)
    /\ invalidations' = invalidations + 1
    /\ UNCHANGED <<goal, stores, pc, locals, rpc, moves, invalidBlocks, restarts, readErrors,
                   backupErrors>>

\* FlushStateToDisk(FLUSH_STATE_PERIODIC) writes the chain state only now and then.
FlushStateToDisk(t) ==
    /\ pc[t] = "flush"
    /\ CsMainFree
    /\ flushed' \in {flushed, tip}
    /\ Goto(t, "open")
    /\ UNCHANGED <<tip, goal, stores, locals, rpc, counters>>

-----------------------------------------------------------------------------
(* The observer: ContractObserver::onChainStateSet and the strategies.     *)

\* ContractStateCache contractStateCache; RocksDB's lock file makes the open exclusive.
OpenCache(t) ==
    /\ pc[t] = "open"
    /\ DbFree
    /\ Goto(t, "opened")
    /\ UNCHANGED <<chainVars, stores, locals, rpc, counters>>

\* LOCK(cs_main), then the choice of a strategy.  UnDo returns at once.
CreateUpdateStrategy(t) ==
    /\ pc[t] = "opened"
    /\ CsMainFree
    /\ Goto(t, CASE Strategy = "undo" -> "idle"
                 [] Strategy = "rebuild" -> "rebuildSnapShot"
                 [] Strategy = "continue" -> "continue"
                 [] Strategy = "rollback" -> "rollback")
    /\ h' = Height(tip)
    /\ UNCHANGED <<chainVars, stores, base, rpc, counters>>

\* UpdateStrategyRebuild: both databases are cleared, one after the other ...
ClearSnapShot(t) ==
    /\ pc[t] = "rebuildSnapShot"
    /\ snapshot' = Cleared(snapshot, <<>>)
    /\ Goto(t, "rebuildIndex")
    /\ UNCHANGED <<chainVars, index, checkpoints, tmp, locals, rpc, counters>>

ClearBlockCache(t) ==
    /\ pc[t] = "rebuildIndex"
    /\ index' = Cleared(index, {})
    /\ h' = Height(tip)
    /\ Goto(t, "rebuildPush")
    /\ UNCHANGED <<chainVars, snapshot, checkpoints, tmp, base, rpc, counters>>

\* ... and every block from the tip down to the genesis block is pushed.
RebuildPush(t) ==
    /\ pc[t] = "rebuildPush"
    /\ index' = PushBlock(index, Ancestor(tip, h))
    /\ IF h > 0
       THEN /\ h' = h - 1
            /\ UNCHANGED pc
       ELSE /\ h' = 0
            /\ Goto(t, "exec")
    /\ UNCHANGED <<chainVars, snapshot, checkpoints, tmp, base, rpc, counters>>

\* UpdateStrategyContinue: walk from the tip down to the highest block of the index.  It is on
\* the active chain, or the walk comes below its height and the strategy is Rollback.  (The
\* walk cannot end without either: all chains share the genesis block.)
ContinueWalk(t) ==
    /\ pc[t] = "continue"
    /\ LET first == HeighestBlock(index) IN
       IF index = {}
       THEN /\ Goto(t, "idle")
            /\ UNCHANGED locals
       ELSE IF OnActiveChain(first)
       THEN /\ base' = Height(first) + 1
            /\ h' = Height(first) + 1
            /\ Goto(t, IF first = tip THEN "exec" ELSE "continuePush")
       ELSE /\ h' = Height(tip)
            /\ Goto(t, "rollback")
            /\ UNCHANGED base
    /\ UNCHANGED <<chainVars, stores, rpc, counters>>

\* The blocks above it are pushed in ascending order, before any of them is executed.
ContinuePush(t) ==
    /\ pc[t] = "continuePush"
    /\ index' = PushBlock(index, Ancestor(tip, h))
    /\ IF h < Height(tip)
       THEN /\ h' = h + 1
            /\ UNCHANGED pc
       ELSE /\ h' = base
            /\ Goto(t, "exec")
    /\ UNCHANGED <<chainVars, snapshot, checkpoints, tmp, base, rpc, counters>>

\* UpdateStrategyRollback, one iteration of its loop over the active chain (h is the height of
\* pindex, -1 once pindex is null) when the index is not above pindex.
RollbackStep(t) ==
    /\ pc[t] = "rollback"
    /\ LET first == HeighestBlock(index) IN
       IF index = {}
       THEN /\ Goto(t, "idle")
            /\ UNCHANGED <<h, index, snapshot>>
       ELSE IF h = -1
       THEN /\ Goto(t, "rebuildSnapShot")
            /\ UNCHANGED <<h, index, snapshot>>
       ELSE IF h > Height(first)
       THEN /\ h' = h - 1
            /\ UNCHANGED <<pc, index, snapshot>>
       ELSE IF h < Height(first)
       THEN /\ Goto(t, "rollbackPop")
            /\ UNCHANGED <<h, index, snapshot>>
       ELSE IF first = Ancestor(tip, h) /\ HasCheckPoint(first)
       THEN /\ Goto(t, "restore")      \* the restore first deletes the database's files
            /\ snapshot' = <<>>
            /\ UNCHANGED <<h, index>>
       ELSE /\ index' = PopBlock(index)
            /\ h' = h - 1
            /\ Goto(t, IF index' = {} THEN "rebuildSnapShot" ELSE "rollback")
            /\ UNCHANGED snapshot
    /\ UNCHANGED <<chainVars, checkpoints, tmp, base, rpc, counters>>

\* Its inner loop, while (firstBlock.blockHeight >= height): the row at the height of pindex
\* is popped as well, without being compared with pindex.
RollbackPop(t) ==
    /\ pc[t] = "rollbackPop"
    /\ index' = PopBlock(index)
    /\ IF index' = {}
       THEN /\ Goto(t, "rebuildSnapShot")
            /\ UNCHANGED h
       ELSE IF Height(HeighestBlock(index')) >= h
       THEN UNCHANGED <<pc, h>>
       ELSE /\ h' = h - 1
            /\ Goto(t, "rollback")
    /\ UNCHANGED <<chainVars, snapshot, checkpoints, tmp, base, rpc, counters>>

\* The files of the backup are copied and the database is opened again; then Continue.
RestoreCheckPoint(t) ==
    /\ pc[t] = "restore"
    /\ \E i \in 1..Len(checkpoints) :
        /\ FirstCheckPoint(i, HeighestBlock(index))
        /\ snapshot' = checkpoints[i].state
    /\ Goto(t, "continue")
    /\ UNCHANGED <<chainVars, index, checkpoints, tmp, locals, rpc, counters>>

\* processContracts executes the blocks oldest first.
ProcessContracts(t) ==
    /\ pc[t] = "exec"
    /\ IF h <= Height(tip)
       THEN /\ snapshot' = Append(snapshot, tip[h + 1])
            /\ h' = h + 1
            /\ UNCHANGED pc
       ELSE /\ Goto(t, "checkpoint")
            /\ UNCHANGED <<snapshot, h>>
    /\ UNCHANGED <<chainVars, index, checkpoints, tmp, base, rpc, counters>>

\* ReadBlockFromDisk fails: onChainStateSet returns false and the databases are closed.
ReadBlockFails(t) ==
    /\ pc[t] = "exec"
    /\ h <= Height(tip)
    /\ readErrors < MaxReadErrors
    /\ readErrors' = readErrors + 1
    /\ Goto(t, "idle")
    /\ UNCHANGED <<chainVars, stores, locals, rpc, moves, invalidations, invalidBlocks, restarts,
                   backupErrors>>

\* isSaveCheckPointNow and saveCheckPoint; cs_main is released.  h keeps curHeight.
SaveCheckPoint(t) ==
    /\ pc[t] = "checkpoint"
    /\ h' = Height(HeighestBlock(index))
    /\ checkpoints' = IF h' = 0 THEN checkpoints
                      ELSE Append(checkpoints, [tip |-> HeighestBlock(index), state |-> snapshot])
    /\ Goto(t, "tmp")
    /\ UNCHANGED <<chainVars, index, snapshot, tmp, base, rpc, counters>>

\* The status of CreateNewBackupWithMetadata is not looked at.
BackupFails(t) ==
    /\ pc[t] = "checkpoint"
    /\ h' = Height(HeighestBlock(index))
    /\ h' # 0
    /\ backupErrors < MaxBackupErrors
    /\ backupErrors' = backupErrors + 1
    /\ Goto(t, "tmp")
    /\ UNCHANGED <<chainVars, stores, base, rpc, moves, invalidations, invalidBlocks, restarts,
                   readErrors>>

\* saveTmpState takes the write lock and restores the newest backup over tmp; without any
\* backup it does nothing.
SaveTmpState(t) ==
    /\ pc[t] = "tmp"
    /\ WriteLockFree
    /\ IF checkpoints = <<>>
       THEN /\ Goto(t, "purge")
            /\ UNCHANGED tmp
       ELSE /\ Goto(t, "tmpCopy")
            /\ tmp' = NoDB
    /\ UNCHANGED <<chainVars, index, snapshot, checkpoints, locals, rpc, counters>>

CopyTmpState(t) ==
    /\ pc[t] = "tmpCopy"
    /\ tmp' = LatestBackup
    /\ Goto(t, "purge")
    /\ UNCHANGED <<chainVars, index, snapshot, checkpoints, locals, rpc, counters>>

\* isClearCheckPointNow and clearCheckPoint; then the databases are closed.
ClearCheckPoint(t) ==
    /\ pc[t] = "purge"
    /\ checkpoints' =
        IF h # 0 /\ h % ClearInterval = 0 /\ Len(checkpoints) > MaxCheckPointCount
        THEN SubSeq(checkpoints, Len(checkpoints) - MaxCheckPointCount + 1, Len(checkpoints))
        ELSE checkpoints
    /\ Goto(t, "idle")
    /\ UNCHANGED <<chainVars, index, snapshot, tmp, locals, rpc, counters>>

-----------------------------------------------------------------------------
(* Readers: dumpcontractmessage.                                           *)

LockTmp(r) ==
    /\ rpc[r] = "idle"
    /\ ReadLockFree
    /\ rpc' = [rpc EXCEPT ![r] = "locked"]
    /\ UNCHANGED <<chainVars, stores, pc, locals, counters>>

OpenTmp(r) ==
    /\ rpc[r] = "locked"
    /\ tmp # NoDB
    /\ rpc' = [rpc EXCEPT ![r] = "reading"]
    /\ UNCHANGED <<chainVars, stores, pc, locals, counters>>

CloseTmp(r) ==
    /\ rpc[r] = "reading"
    /\ rpc' = [rpc EXCEPT ![r] = "idle"]
    /\ UNCHANGED <<chainVars, stores, pc, locals, counters>>

-----------------------------------------------------------------------------
(* The process ends, at any point, and is started again on what is on disk. *)

Restart ==
    /\ restarts < MaxRestarts
    /\ restarts' = restarts + 1
    /\ tip' = flushed
    /\ \/ UNCHANGED snapshot
       \/ /\ \E t \in Threads : pc[t] = "exec"
          /\ snapshot' = Append(snapshot, Torn)
    /\ pc' = [t \in Threads |-> "idle"]
    /\ goal' = [t \in Threads |-> Genesis]
    /\ rpc' = [r \in Readers |-> "idle"]
    /\ h' = 0
    /\ base' = 0
    /\ UNCHANGED <<flushed, index, checkpoints, tmp, moves, invalidations, invalidBlocks,
                   readErrors, backupErrors>>

Crash == Restart

\* assert(mystatus.ok()) in the constructor that opens a database for writing.
OpenAborts(t) ==
    /\ pc[t] = "open"
    /\ ~ DbFree
    /\ Restart

\* assert(mystatus.ok()) in the read-only constructor.
OpenTmpAborts(r) ==
    /\ rpc[r] = "locked"
    /\ tmp = NoDB
    /\ Restart

-----------------------------------------------------------------------------
\* A fresh node: ActivateBestChain has just connected the genesis block.
Init ==
    /\ tip = Genesis
    /\ flushed = Genesis
    /\ index = {}
    /\ snapshot = <<>>
    /\ checkpoints = <<>>
    /\ tmp = NoDB
    /\ \E t \in Threads : pc = [u \in Threads |-> IF u = t THEN "flush" ELSE "idle"]
    /\ goal = [t \in Threads |-> Genesis]
    /\ h = 0
    /\ base = 0
    /\ rpc = [r \in Readers |-> "idle"]
    /\ moves = 0 /\ invalidations = 0 /\ invalidBlocks = 0
    /\ restarts = 0 /\ readErrors = 0 /\ backupErrors = 0

\* One step of ActivateBestChain after the first iteration of its loop.
Observe(t) ==
    \/ ActivateBestChainStep(t) \/ NothingToDo(t)
    \/ FlushStateToDisk(t) \/ OpenCache(t) \/ CreateUpdateStrategy(t)
    \/ ClearSnapShot(t) \/ ClearBlockCache(t) \/ RebuildPush(t)
    \/ ContinueWalk(t) \/ ContinuePush(t)
    \/ RollbackStep(t) \/ RollbackPop(t) \/ RestoreCheckPoint(t)
    \/ ProcessContracts(t) \/ SaveCheckPoint(t)
    \/ SaveTmpState(t) \/ CopyTmpState(t) \/ ClearCheckPoint(t)

Read(r) == LockTmp(r) \/ OpenTmp(r) \/ CloseTmp(r)

Next ==
    \/ \E t \in Threads, b \in Block : FindMostWorkChain(t, b)
    \/ \E b \in Block : InvalidateBlock(b)
    \/ \E t \in Threads : Observe(t) \/ ReadBlockFails(t) \/ BackupFails(t) \/ OpenAborts(t)
    \/ \E r \in Readers : Read(r) \/ OpenTmpAborts(r)
    \/ Crash

Spec == Init /\ [][Next]_vars

\* A thread inside ActivateBestChain keeps running, a reader leaves the read lock, and a writer
\* that waits for the lock gets it when the last reader has left.
Fairness ==
    /\ \A t \in Threads : WF_vars(Observe(t)) /\ SF_vars(SaveTmpState(t))
    /\ \A r \in Readers : WF_vars(OpenTmp(r)) /\ WF_vars(CloseTmp(r))

FairSpec == Spec /\ Fairness
-----------------------------------------------------------------------------
(* Properties.                                                             *)

State == Seq(Payload \cup {Torn})
CheckPoint == [tip : Block, state : State]

\* Every variable keeps its type: the databases hold blocks and states, never anything else.
TypeOK ==
    /\ tip \in Block
    /\ flushed \in Block
    /\ index \subseteq Block
    /\ snapshot \in State
    /\ checkpoints \in Seq(CheckPoint)
    /\ tmp \in State \cup {NoDB}
    /\ pc \in [Threads -> Pcs]
    /\ goal \in [Threads -> Block]
    /\ h \in Int
    /\ base \in Nat
    /\ rpc \in [Readers -> {"idle", "locked", "reading"}]
    /\ moves \in Nat /\ invalidations \in Nat /\ invalidBlocks \in Nat
    /\ restarts \in Nat /\ readErrors \in Nat /\ backupErrors \in Nat

\* The node has not restarted and ReadBlockFromDisk has never failed.
Unharmed == restarts = 0 /\ readErrors = 0

\* No thread is between the choice of a strategy and the return of UpdateSnapShot.
NotUpdating == \A t \in Threads : pc[t] \notin LockedPcs

\* block_index always holds a contiguous run of blocks of one branch, ending in its highest row:
\* whatever the strategies push and pop, across reorganisations, failed block reads and crashes
\* at any point of an update, no row of an abandoned branch stays under a newer one.
IndexIsBranch ==
    index # {} =>
        LET first == HeighestBlock(index) IN
        \E lo \in 0..Height(first) : index = Branch(first, lo)

\* Between updates the contract states are exactly those of the block the index ends in (the
\* execution of every block from genesis to it, in order, once each), after any sequence of
\* extensions, reorganisations and failed backups.
SnapshotTracksIndex ==
    Unharmed /\ NotUpdating =>
        snapshot = IF index = {} THEN <<>> ELSE HeighestBlock(index)

\* A checkpoint that a later rollback may restore holds the states of the block it is tagged with.
CheckPointsSound ==
    Unharmed => \A i \in 1..Len(checkpoints) : checkpoints[i].state = checkpoints[i].tip

\* Once the observer has returned, the database that dumpcontractmessage reads holds the states
\* of the block the index ends in, unless that is the genesis block or a backup failed.
TmpServesIndex ==
    Unharmed /\ backupErrors = 0 /\ (\A t \in Threads : pc[t] \notin LockedPcs \cup TmpPcs) =>
        \/ index = {}
        \/ HeighestBlock(index) = Genesis
        \/ tmp = HeighestBlock(index)

\* What holds of the index while a thread with the databases open is at p.
IndexAt(p) ==
    /\ p \in {"rebuildSnapShot", "rebuildIndex"} => index = {}
    /\ p = "rebuildPush" => h \in 0..Height(tip) /\ index = Branch(tip, h + 1)
    /\ p = "continue" => index # {}
    /\ p = "continuePush" =>
        /\ h \in 1..Height(tip) /\ base \in 1..h
        /\ \E lo \in 0..(h - 1) : index = Branch(Ancestor(tip, h - 1), lo)
    /\ p = "rollback" => index # {} /\ h \in 0..Height(tip)
    /\ p = "rollbackPop" =>
        index # {} /\ h \in 0..Height(tip) /\ Height(HeighestBlock(index)) >= h
    /\ p = "restore" => index # {} /\ HasCheckPoint(HeighestBlock(index))
    /\ p = "exec" => h \in 0..(Height(tip) + 1)
    /\ p \in {"exec", "checkpoint"} => index # {} /\ HeighestBlock(index) = tip
    /\ p \in TmpPcs => index # {} /\ h = Height(HeighestBlock(index))
    /\ p = "tmpCopy" => checkpoints # <<>>

\* The inductive invariant behind IndexIsBranch and CheckPointTagIsTip: one thread at a time has
\* the databases open, and at each place of the strategies the index has the shape their loops
\* rely on.  It needs no assumption about crashes.
IndexInv ==
    /\ TypeOK
    /\ \A t, u \in Threads : pc[t] \in DbPcs /\ pc[u] \in DbPcs => t = u
    /\ index # {} => \E b \in Block : \E lo \in 0..Height(b) : index = Branch(b, lo)
    /\ \A t \in Threads : IndexAt(pc[t])

\* The contract states while a thread is at p, in terms of the loop cursors.
StateAt(p) ==
    /\ p \in {"rebuildIndex", "rebuildPush"} => snapshot = <<>>
    /\ p = "continue" => snapshot = HeighestBlock(index)
    /\ p = "continuePush" => snapshot = Ancestor(tip, base - 1)
    /\ p = "exec" => snapshot = SubSeq(tip, 1, h)
    /\ p = "checkpoint" => snapshot = tip

\* The inductive invariant behind SnapshotTracksIndex and CheckPointsSound.
StateInv ==
    EmptyRangeClears /\ Unharmed =>
        /\ SnapshotTracksIndex
        /\ CheckPointsSound
        /\ \A t \in Threads : StateAt(pc[t])

\* After an update the index ends in the tip that the update saw under cs_main, also after
\* crashes: a thread that is about to save a checkpoint tags it with the active tip.
CheckPointTagIsTip ==
    \A t \in Threads : pc[t] = "checkpoint" => index # {} /\ HeighestBlock(index) = tip

\* While a reader has tmp open, saveTmpState does not rewrite it under the reader's feet.
ReadersSeeOneState ==
    [][\A r \in Readers : rpc[r] = "reading" /\ rpc'[r] = "reading" => tmp' = tmp]_vars

\* The strategies call one another (Continue, Rollback, Rebuild), but every update of the
\* snapshot ends and releases cs_main, whatever index and checkpoints it started from.
UpdateEnds == \A t \in Threads : pc[t] \in LockedPcs ~> pc[t] \notin LockedPcs

\* The update as a whole implements the atomic change that ContractService promises.
Service == INSTANCE ContractService WITH
    updating <- ~ NotUpdating,
    state <- IF NotUpdating THEN snapshot ELSE <<>>,
    broken <- ~ Unharmed
ImplementsService == Service!ServiceSpec

\* Unconditionally: the comment on the block index says that it is the chain state that the
\* snapshot tracks, also when an update was cut short.
SnapshotAlwaysTracksIndex ==
    NotUpdating => snapshot = IF index = {} THEN <<>> ELSE HeighestBlock(index)

\* When the tip stops changing, the contract states become those of the tip and stay so, unless
\* a crash, a failed read or InvalidateBlock has come in between.
CatchesUp ==
    [](Unharmed /\ invalidations = 0) => <>[](index # {} /\ HeighestBlock(index) = tip /\ snapshot = tip)
=============================================================================
