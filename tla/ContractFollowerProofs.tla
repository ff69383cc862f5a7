----------------------- MODULE ContractFollowerProofs -----------------------
(***************************************************************************)
(* Proofs about ContractFollower, for every block tree, every number of    *)
(* threads and readers and every bound: the shape of the block index, the  *)
(* contract states, the database that readers see, and that an update as a *)
(* whole is the one step that ContractService promises.                    *)
(***************************************************************************)
EXTENDS ContractFollower, BlockTreeProofs

LEMMA NothingTaken ==
    ASSUME NEW s
    PROVE  SubSeq(s, 1, 0) = <<>>
OBVIOUS

LEMMA SoundInit == Init => SnapshotTracksIndex /\ CheckPointsSound
BY DEF Init, SnapshotTracksIndex, CheckPointsSound

\* Restarts, failed reads and failed backups are counted.
LEMMA HarmIsCounted ==
    ASSUME TypeOK
    PROVE  /\ Restart => ~Unharmed'
           /\ \A t \in Threads : ReadBlockFails(t) => ~Unharmed'
           /\ \A t \in Threads : BackupFails(t) => backupErrors' # 0
<1>1. restarts \in Nat /\ readErrors \in Nat /\ backupErrors \in Nat
  BY DEF TypeOK
<1> QED
  BY <1>1 DEF Restart, ReadBlockFails, BackupFails, Unharmed

LEMMA CheckPointAppended ==
    ASSUME checkpoints \in Seq(CheckPoint), NEW cp \in CheckPoint, checkpoints' = Append(checkpoints, cp)
    PROVE  /\ Len(checkpoints') = Len(checkpoints) + 1 /\ checkpoints'[Len(checkpoints) + 1] = cp
           /\ checkpoints' # <<>>
           /\ \A i \in 1..Len(checkpoints') :
                (i \in 1..Len(checkpoints) /\ checkpoints'[i] = checkpoints[i]) \/ checkpoints'[i] = cp
<1>1. Len(checkpoints) \in Nat
  BY ElementOfSeq
<1>2. /\ Len(checkpoints') = Len(checkpoints) + 1 /\ checkpoints'[Len(checkpoints) + 1] = cp
      /\ \A i \in 1..Len(checkpoints) : checkpoints'[i] = checkpoints[i]
  BY AppendProperties
<1>3. \A i \in 1..(Len(checkpoints) + 1) : i \in 1..Len(checkpoints) \/ i = Len(checkpoints) + 1
  BY <1>1
<1>4. checkpoints' # <<>>
  BY <1>1, <1>2
<1> QED
  BY <1>2, <1>3, <1>4, Zenon

\* No step undoes harm: restarts and failed reads are only ever counted.
LEMMA UnharmedBefore ==
    ASSUME TypeOK, [Next]_vars, Unharmed'
    PROVE  Unharmed
<1>1. restarts \in Nat /\ readErrors \in Nat /\ restarts' = 0 /\ readErrors' = 0
  BY Zenon DEF TypeOK, Unharmed
<1>2. ASSUME NEW t \in Threads, Observe(t)
      PROVE  restarts' = restarts /\ readErrors' = readErrors
  BY <1>2 DEF Observe, counters, ActivateBestChainStep, NothingToDo, Iterate, FlushStateToDisk,
      OpenCache, CreateUpdateStrategy, ClearSnapShot, ClearBlockCache, RebuildPush,
      ContinueWalk, ContinuePush, RollbackStep, RollbackPop, RestoreCheckPoint,
      ProcessContracts, SaveCheckPoint, SaveTmpState, CopyTmpState, ClearCheckPoint
<1>3. ASSUME NEW r \in Readers, Read(r)
      PROVE  restarts' = restarts /\ readErrors' = readErrors
  BY <1>3, Zenon DEF Read, LockTmp, OpenTmp, CloseTmp, counters
<1>4. restarts' \in {restarts, restarts + 1} /\ readErrors' \in {readErrors, readErrors + 1}
  BY <1>2, <1>3 DEF Next, vars, counters, FindMostWorkChain, Iterate, InvalidateBlock, ReadBlockFails,
      BackupFails, Restart, Crash, OpenAborts, OpenTmpAborts
<1> QED
  BY <1>1, <1>4 DEF Unharmed

\* Nor does any take back that a backup failed.
LEMMA BackupsCounted ==
    ASSUME TypeOK, [Next]_vars, backupErrors' = 0
    PROVE  backupErrors = 0
<1>1. ASSUME NEW t \in Threads, Observe(t)
      PROVE  backupErrors' = backupErrors
  BY <1>1 DEF Observe, counters, ActivateBestChainStep, NothingToDo, Iterate, FlushStateToDisk,
      OpenCache, CreateUpdateStrategy, ClearSnapShot, ClearBlockCache, RebuildPush,
      ContinueWalk, ContinuePush, RollbackStep, RollbackPop, RestoreCheckPoint,
      ProcessContracts, SaveCheckPoint, SaveTmpState, CopyTmpState, ClearCheckPoint
<1>2. \A t \in Threads : ~ BackupFails(t)
  BY HarmIsCounted, Zenon
<1>3. backupErrors' = backupErrors
  BY <1>1, <1>2 DEF Next, vars, counters, FindMostWorkChain, Iterate, InvalidateBlock, ReadBlockFails, Read,
      LockTmp, OpenTmp, CloseTmp, Restart, Crash, OpenAborts, OpenTmpAborts
<1> QED
  BY <1>3, Zenon

-----------------------------------------------------------------------------
(* The read lock.                                                          *)

\* Readers hold tmp_contract_db_mutex shared, the thread that rewrites tmp holds it alone.
ReadExcludesWrite ==
    (\E r \in Readers : rpc[r] # "idle") => \A t \in Threads : pc[t] # "tmpCopy"

LEMMA ReadExcludesWriteNext ==
    ASSUME TypeOK, ReadExcludesWrite, [Next]_vars
    PROVE  ReadExcludesWrite'
<1> USE DEF chainVars, stores, locals, counters, ReadExcludesWrite
<1>c. pc \in [Threads -> Pcs]
  BY Zenon DEF TypeOK
<1>1. ASSUME rpc' = rpc, \A t \in Threads : pc'[t] = "tmpCopy" => pc[t] = "tmpCopy"
      PROVE  ReadExcludesWrite'
  BY <1>1, Zenon
<1>2. ASSUME NEW t \in Threads,
             \/ Observe(t) /\ ~ SaveTmpState(t)
             \/ ReadBlockFails(t) \/ BackupFails(t) \/ \E b \in Block : FindMostWorkChain(t, b)
      PROVE  ReadExcludesWrite'
  <2>1. rpc' = rpc /\ \A u \in Threads \ {t} : pc'[u] = pc[u]
    <3>1. rpc' = rpc
      <4>1. CASE Observe(t) /\ ~ SaveTmpState(t)
        BY <4>1 DEF Observe, ActivateBestChainStep, NothingToDo, Iterate, FlushStateToDisk, OpenCache,
            CreateUpdateStrategy, ClearSnapShot, ClearBlockCache, RebuildPush, ContinueWalk,
            ContinuePush, RollbackStep, RollbackPop, RestoreCheckPoint, ProcessContracts,
            SaveCheckPoint, CopyTmpState, ClearCheckPoint
      <4>2. CASE ReadBlockFails(t) \/ BackupFails(t) \/ \E b \in Block : FindMostWorkChain(t, b)
        BY <4>2 DEF ReadBlockFails, BackupFails, FindMostWorkChain, Iterate
      <4> QED
        BY <1>2, <4>1, <4>2, Zenon
    <3>2. pc' = pc \/ \E p : pc' = [pc EXCEPT ![t] = p]
      BY <1>2 DEF Observe, FindMostWorkChain, ActivateBestChainStep, NothingToDo, Iterate,
             Leave, FlushStateToDisk, OpenCache,
             CreateUpdateStrategy, ClearSnapShot, ClearBlockCache, RebuildPush, ContinueWalk,
             ContinuePush, RollbackStep, RollbackPop, RestoreCheckPoint, ProcessContracts,
             ReadBlockFails, SaveCheckPoint, BackupFails, CopyTmpState, ClearCheckPoint, Goto
    <3> QED
      BY <1>c, <3>1, <3>2
  <2>2. pc'[t] # "tmpCopy"
    BY <1>2, <1>c DEF Observe, FindMostWorkChain, ActivateBestChainStep, NothingToDo, Iterate,
           Leave, FlushStateToDisk, OpenCache,
           CreateUpdateStrategy, ClearSnapShot, ClearBlockCache, RebuildPush, ContinueWalk,
           ContinuePush, RollbackStep, RollbackPop, RestoreCheckPoint, ProcessContracts,
           ReadBlockFails, SaveCheckPoint, BackupFails, CopyTmpState, ClearCheckPoint, Goto,
           Strategy
  <2>3. \A u \in Threads : pc'[u] = "tmpCopy" => pc[u] = "tmpCopy"
    BY <2>1, <2>2
  <2> QED
    BY <1>1, <2>1, <2>3
<1>3. ASSUME NEW t \in Threads, SaveTmpState(t)
      PROVE  ReadExcludesWrite'
  BY <1>3, Zenon DEF SaveTmpState, WriteLockFree
<1>4. ASSUME NEW r \in Readers, Read(r)
      PROVE  ReadExcludesWrite'
  <2>1. pc' = pc /\ (LockTmp(r) \/ rpc[r] # "idle")
    BY <1>4, Zenon DEF Read, LockTmp, OpenTmp, CloseTmp
  <2>2. CASE LockTmp(r)
    BY <2>1, <2>2, Zenon DEF LockTmp, ReadLockFree
  <2>3. CASE rpc[r] # "idle"
    BY <2>1, <2>3, Zenon
  <2> QED
    BY <2>1, <2>2, <2>3, Zenon
<1>5. ASSUME Restart
      PROVE  ReadExcludesWrite'
  BY <1>5, Zenon DEF Restart
<1>6. ASSUME \/ UNCHANGED vars
             \/ \E b \in Block : InvalidateBlock(b)
      PROVE  ReadExcludesWrite'
  BY <1>1, <1>6 DEF vars, InvalidateBlock
<1> QED
  BY <1>2, <1>3, <1>4, <1>5, <1>6, Zenon DEF Next, OpenAborts, OpenTmpAborts, Crash

LEMMA TmpStays ==
    ASSUME ReadExcludesWrite, Next, NEW r \in Readers, rpc[r] = "reading", rpc'[r] = "reading"
    PROVE  tmp' = tmp
<1>1. \A t \in Threads : ~ SaveTmpState(t) /\ ~ CopyTmpState(t)
  BY Zenon DEF SaveTmpState, CopyTmpState, WriteLockFree, ReadExcludesWrite
<1>2. ~ Restart
  BY DEF Restart
<1>3. ASSUME NEW t \in Threads, Observe(t)
      PROVE  tmp' = tmp
  BY <1>1, <1>3 DEF Observe, chainVars, stores, locals, ActivateBestChainStep, NothingToDo, Iterate,
      FlushStateToDisk, OpenCache, CreateUpdateStrategy, ClearSnapShot, ClearBlockCache,
      RebuildPush, ContinueWalk, ContinuePush, RollbackStep, RollbackPop, RestoreCheckPoint,
      ProcessContracts, SaveCheckPoint, ClearCheckPoint
<1>4. ASSUME NEW t \in Threads, ReadBlockFails(t) \/ BackupFails(t) \/ \E b \in Block : FindMostWorkChain(t, b)
      PROVE  tmp' = tmp
  BY <1>4 DEF ReadBlockFails, BackupFails, FindMostWorkChain, Iterate, chainVars, stores, locals
<1>5. ASSUME NEW x \in Readers, Read(x)
      PROVE  tmp' = tmp
  BY <1>5 DEF Read, LockTmp, OpenTmp, CloseTmp, chainVars, stores
<1>6. ASSUME NEW b \in Block, InvalidateBlock(b)
      PROVE  tmp' = tmp
  BY <1>6 DEF InvalidateBlock, stores
<1> QED
  BY <1>2, <1>3, <1>4, <1>5, <1>6, Zenon DEF Next, Crash, OpenAborts, OpenTmpAborts

-----------------------------------------------------------------------------
(* The operations on block_index, on an index that is a branch.            *)

LEMMA HeighestOfBranch ==
    ASSUME NEW b \in Block, NEW lo \in 0..Height(b)
    PROVE  HeighestBlock(Branch(b, lo)) = b
<1>1. Height(b) \in Nat
  BY AncestorSelf
<1>2. b \in Branch(b, lo) /\ \A c \in Branch(b, lo) : Height(c) \in lo..Height(b)
  BY <1>1, BranchProperties
<1>3. \A c \in Branch(b, lo) : Height(c) <= Height(b)
  BY <1>1, <1>2
<1>4. \A d \in Branch(b, lo) : (\A c \in Branch(b, lo) : Height(c) <= Height(d)) => d = b
  <2> SUFFICES ASSUME NEW d \in Branch(b, lo), \A c \in Branch(b, lo) : Height(c) <= Height(d)
               PROVE  d = b
    OBVIOUS
  <2>1. Height(d) = Height(b)
    BY <1>1, <1>2
  <2> QED
    BY <1>2, <2>1, BranchInjective
<1> QED
  BY <1>2, <1>3, <1>4 DEF HeighestBlock

LEMMA PopOfBranch ==
    ASSUME NEW b \in Block, NEW lo \in 0..Height(b)
    PROVE  PopBlock(Branch(b, lo)) = IF lo = Height(b) THEN {} ELSE Branch(Pprev(b), lo)
BY HeighestOfBranch, BranchBelow DEF PopBlock

LEMMA PushAbove ==
    ASSUME NEW b \in Block, NEW k \in 1..Height(b), NEW lo \in 0..(k - 1)
    PROVE  PushBlock(Branch(Ancestor(b, k - 1), lo), Ancestor(b, k)) = Branch(Ancestor(b, k), lo)
<1>1. Height(b) \in Nat /\ k \in 0..Height(b) /\ k - 1 \in 0..Height(b) /\ lo \in Nat /\ lo \in 0..k
  BY AncestorSelf
<1>2. /\ Ancestor(b, k - 1) \in Block /\ Height(Ancestor(b, k - 1)) = k - 1
      /\ Height(Ancestor(b, k)) = k
  BY <1>1, AncestorProperties
<1>3. \A c \in Branch(Ancestor(b, k - 1), lo) : Height(c) \in lo..(k - 1)
  BY <1>1, <1>2, BranchProperties
<1>4. \A c \in Branch(Ancestor(b, k - 1), lo) : Height(c) # Height(Ancestor(b, k))
  BY <1>1, <1>2, <1>3
<1> QED
  BY <1>1, <1>4, BranchAbove DEF PushBlock

LEMMA PushBelow ==
    ASSUME NEW b \in Block, NEW k \in 0..Height(b)
    PROVE  PushBlock(Branch(b, k + 1), Ancestor(b, k)) = Branch(b, k)
<1>1. Height(b) \in Nat /\ k + 1 \in Nat /\ Height(Ancestor(b, k)) = k
  BY AncestorProperties
<1>2. \A c \in Branch(b, k + 1) : Height(c) \in (k + 1)..Height(b)
  BY <1>1, BranchProperties
<1>3. \A c \in Branch(b, k + 1) : Height(c) # Height(Ancestor(b, k))
  BY <1>1, <1>2
<1> QED
  BY <1>3, BranchExtend DEF PushBlock

-----------------------------------------------------------------------------
(* The shape of the index.                                                 *)

Shape == index # {} => \E b \in Block : \E lo \in 0..Height(b) : index = Branch(b, lo)

LEMMA TopOfIndex ==
    ASSUME Shape, index # {}
    PROVE  /\ HeighestBlock(index) \in Block
           /\ Height(HeighestBlock(index)) \in Nat
           /\ \E lo \in 0..Height(HeighestBlock(index)) : index = Branch(HeighestBlock(index), lo)
<1>1. PICK b \in Block : \E lo \in 0..Height(b) : index = Branch(b, lo)
  BY DEF Shape
<1>2. HeighestBlock(index) = b
  BY <1>1, HeighestOfBranch, Zenon
<1> QED
  BY <1>1, <1>2, AncestorSelf

\* Popping the highest row leaves nothing, or a branch that ends one block lower.
LEMMA PopOfIndex ==
    ASSUME Shape, index # {}
    PROVE  LET first == HeighestBlock(index) IN
           PopBlock(index) # {} =>
             \E lo \in 0..(Height(first) - 1) :
                /\ Pprev(first) \in Block /\ Height(Pprev(first)) = Height(first) - 1
                /\ PopBlock(index) = Branch(Pprev(first), lo)
                /\ HeighestBlock(PopBlock(index)) = Pprev(first)
<1> DEFINE first == HeighestBlock(index)
<1>1. first \in Block /\ Height(first) \in Nat
  BY TopOfIndex
<1>2. PICK lo \in 0..Height(first) : index = Branch(first, lo)
  BY TopOfIndex
<1>3. PopBlock(index) = IF lo = Height(first) THEN {} ELSE Branch(Pprev(first), lo)
  BY <1>1, <1>2, PopOfBranch, Zenon
<1>4. ASSUME PopBlock(index) # {}
      PROVE  \E k \in 0..(Height(first) - 1) :
                /\ Pprev(first) \in Block /\ Height(Pprev(first)) = Height(first) - 1
                /\ PopBlock(index) = Branch(Pprev(first), k)
                /\ HeighestBlock(PopBlock(index)) = Pprev(first)
  <2>1. lo # Height(first) /\ lo \in 0..(Height(first) - 1) /\ Height(first) - 1 \in 0..Height(first)
    BY <1>1, <1>3, <1>4
  <2>2. Pprev(first) \in Block /\ Height(Pprev(first)) = Height(first) - 1
    BY <1>1, <2>1, AncestorProperties DEF Pprev
  <2>3. PopBlock(index) = Branch(Pprev(first), lo)
    BY <1>3, <2>1
  <2>4. HeighestBlock(PopBlock(index)) = Pprev(first)
    BY <2>1, <2>2, <2>3, HeighestOfBranch, Zenon
  <2> QED
    BY <2>1, <2>2, <2>3, <2>4, Zenon
<1> QED
  BY <1>4

-----------------------------------------------------------------------------
(* IndexInv is inductive.                                                  *)

\* A thread that has the databases open only has to keep its own assertion: no other thread is
\* at a place that makes one.
LEMMA OwnerStep ==
    ASSUME IndexInv, NEW t \in Threads, pc[t] \in DbPcs,
           \A u \in Threads \ {t} : pc'[u] = pc[u],
           TypeOK', Shape', IndexAt(pc[t])'
    PROVE  IndexInv'
<1>1. \A u \in Threads \ {t} : pc'[u] \notin DbPcs
  BY DEF IndexInv
<1>2. \A u, v \in Threads : pc'[u] \in DbPcs /\ pc'[v] \in DbPcs => u = v
  BY <1>1, Zenon
<1>3. \A u \in Threads \ {t} : IndexAt(pc[u])'
  BY <1>1 DEF IndexAt, DbPcs, LockedPcs, TmpPcs
<1>4. \A u \in Threads : IndexAt(pc[u])'
  BY <1>3, Zenon
<1> QED
  BY <1>2, <1>4, Zenon DEF IndexInv, Shape

\* A step that leaves the index, the backups and the cursors alone, moves no thread inside the
\* databases, and moves the tip only while cs_main is free.
LEMMA OutsideStep ==
    ASSUME IndexInv, TypeOK', UNCHANGED <<index, h, base, checkpoints>>,
           \A u \in Threads : pc'[u] \in DbPcs => pc'[u] = pc[u],
           tip' = tip \/ CsMainFree
    PROVE  IndexInv'
<1>1. \A u, v \in Threads : pc'[u] \in DbPcs /\ pc'[v] \in DbPcs => u = v
  BY DEF IndexInv
<1>2. \A u \in Threads : IndexAt(pc[u])'
  <2> SUFFICES ASSUME NEW u \in Threads
               PROVE  IndexAt(pc[u])'
    OBVIOUS
  <2>1. CASE pc'[u] \notin DbPcs
    BY <2>1, Zenon DEF IndexAt, DbPcs, LockedPcs, TmpPcs
  <2>2. CASE pc'[u] \in DbPcs /\ pc[u] \notin LockedPcs
    <3>1. pc'[u] = pc[u] /\ IndexAt(pc[u])
      BY <2>2, Zenon DEF IndexInv
    <3> QED
      BY <2>2, <3>1, Zenon DEF IndexAt, LockedPcs, HeighestBlock
  <2>3. CASE pc'[u] \in DbPcs /\ pc[u] \in LockedPcs
    <3>1. pc'[u] = pc[u] /\ IndexAt(pc[u]) /\ tip' = tip
      BY <2>3, Zenon DEF IndexInv, CsMainFree
    <3> QED
      BY <3>1 DEF IndexAt, HasCheckPoint
  <2> QED
    BY <2>1, <2>2, <2>3
<1> QED
  BY <1>1, <1>2, Zenon DEF IndexInv

LEMMA IndexInvInit ==
    ASSUME Init
    PROVE  IndexInv
<1>1. PICK t \in Threads : pc = [u \in Threads |-> IF u = t THEN "flush" ELSE "idle"]
  BY DEF Init
<1>2. pc \in [Threads -> Pcs] /\ \A u \in Threads : pc[u] \notin DbPcs
  BY <1>1, Zenon DEF Pcs, DbPcs, LockedPcs, TmpPcs
<1>3. TypeOK
  <2>1. <<>> \in State /\ <<>> \in Seq(CheckPoint)
    BY EmptySeq, Zenon DEF State
  <2> QED
    BY <1>2, <2>1, BlockAssumption DEF Init, TypeOK
<1>4. \A u \in Threads : IndexAt(pc[u])
  BY <1>2 DEF IndexAt, DbPcs, LockedPcs, TmpPcs
<1> QED
  BY <1>2, <1>3, <1>4 DEF IndexInv, Init

\* What one iteration of the loop of ActivateBestChain does to the chain and to its thread.
LEMMA IterateStep ==
    ASSUME TypeOK, NEW t \in Threads, NEW b \in Block, Iterate(t, b)
    PROVE  /\ tip' \in Block /\ flushed' \in Block /\ goal' \in [Threads -> Block]
           /\ pc' \in [Threads -> Pcs] /\ pc'[t] \in {"flush", "step", "find"}
           /\ \A u \in Threads \ {t} : pc'[u] = pc[u]
           /\ invalidBlocks' \in Nat
<1>1. tip \in Block /\ Height(tip) \in Nat /\ Height(b) \in Nat
  BY AncestorSelf DEF TypeOK
<1> DEFINE k == IF Height(tip) < Height(b) THEN Height(tip) + 1 ELSE Height(b)
<1>2. k \in 0..Height(b) /\ StepTip(b) = Ancestor(b, k)
  BY <1>1 DEF StepTip
<1>3. StepTip(b) \in Block /\ Height(StepTip(b)) \in 0..Height(b)
  BY <1>2, AncestorProperties
<1>4. \A i \in 0..(Height(StepTip(b)) - 1) : i \in 0..Height(b)
  BY <1>1, <1>3
<1>5. \A i \in 0..(Height(StepTip(b)) - 1) : Ancestor(b, i) \in Block
  BY <1>4, AncestorProperties
<1>6. tip' \in Block
  BY <1>3, <1>5, Zenon DEF Iterate
<1>7. flushed' \in Block
  BY DEF Iterate, Route, TypeOK
<1>8. /\ goal' \in [Threads -> Block]
      /\ \E p \in {"flush", "step", "find"} : pc' = [pc EXCEPT ![t] = p]
  BY BlockAssumption, ZenonT(40) DEF Iterate, Leave, Goto, TypeOK
<1>9. /\ pc' \in [Threads -> Pcs] /\ pc'[t] \in {"flush", "step", "find"}
      /\ \A u \in Threads \ {t} : pc'[u] = pc[u]
  BY <1>8 DEF TypeOK, Pcs
<1>10. invalidBlocks' \in Nat
  BY DEF Iterate, TypeOK
<1> QED
  BY <1>6, <1>7, <1>8, <1>9, <1>10, Zenon

LEMMA IndexFacts ==
    ASSUME IndexInv
    PROVE  /\ TypeOK /\ Shape /\ \A t \in Threads : IndexAt(pc[t])
           /\ Height(tip) \in Nat /\ Ancestor(tip, Height(tip)) = tip
<1>1. TypeOK /\ Shape /\ \A t \in Threads : IndexAt(pc[t])
  BY DEF IndexInv, Shape
<1> QED
  BY <1>1, AncestorSelf DEF TypeOK

LEMMA GotoOK ==
    ASSUME TypeOK, NEW t \in Threads, NEW p \in Pcs
    PROVE  [pc EXCEPT ![t] = p] \in [Threads -> Pcs]
BY DEF TypeOK

LEMMA TypeParts ==
    ASSUME TypeOK
    PROVE  /\ tip \in Block /\ index \subseteq Block /\ snapshot \in State
           /\ pc \in [Threads -> Pcs] /\ h \in Int /\ base \in Nat
BY Zenon DEF TypeOK

\* A step of the strategies leaves the chain, the backups, tmp, the readers and the counters alone.
LEMMA TypeStep ==
    ASSUME TypeOK, UNCHANGED <<chainVars, checkpoints, tmp, rpc, counters>>,
           index' \subseteq Block, snapshot' \in State, pc' \in [Threads -> Pcs], h' \in Int, base' \in Nat
    PROVE  TypeOK'
BY Zenon DEF TypeOK, chainVars, counters

LEMMA IterateIndex ==
    ASSUME IndexInv, NEW t \in Threads, NEW b \in Block, Iterate(t, b), CsMainFree, moves' \in Nat
    PROVE  IndexInv'
<1>0. TypeOK /\ Shape /\ Height(tip) \in Nat /\ Ancestor(tip, Height(tip)) = tip
  BY IndexFacts, Zenon
<1>1. /\ tip' \in Block /\ flushed' \in Block /\ goal' \in [Threads -> Block]
      /\ pc' \in [Threads -> Pcs] /\ pc'[t] \in {"flush", "step", "find"}
      /\ \A u \in Threads \ {t} : pc'[u] = pc[u]
      /\ invalidBlocks' \in Nat
  BY <1>0, IterateStep, Zenon
<1>2. TypeOK'
  BY <1>0, <1>1, Zenon DEF Iterate, TypeOK, chainVars, stores, locals, counters
<1>3. \A u \in Threads : pc'[u] \in DbPcs => pc'[u] = pc[u]
  BY <1>1, Zenon DEF DbPcs, LockedPcs, TmpPcs
<1> QED
  BY <1>2, <1>3, OutsideStep, Zenon DEF Iterate, chainVars, stores, locals

LEMMA InvalidateBlockIndex ==
    ASSUME IndexInv, NEW b \in Block, InvalidateBlock(b)
    PROVE  IndexInv'
<1>0. TypeOK /\ Shape /\ Height(tip) \in Nat /\ Ancestor(tip, Height(tip)) = tip
  BY IndexFacts, Zenon
<1>1. TypeOK'
  BY <1>0 DEF InvalidateBlock, TypeOK, Route, chainVars, stores, locals, counters
<1> QED
  BY <1>1, OutsideStep DEF InvalidateBlock, chainVars, stores, locals

LEMMA ChainIndex ==
    ASSUME IndexInv, NEW t \in Threads,
           (\E b \in Block : FindMostWorkChain(t, b)) \/ ActivateBestChainStep(t)
    PROVE  IndexInv'
<1>0. TypeOK /\ Shape /\ Height(tip) \in Nat /\ Ancestor(tip, Height(tip)) = tip
  BY IndexFacts, Zenon
<1>1. PICK b \in Block : Iterate(t, b) /\ CsMainFree /\ moves' \in {moves, moves + 1}
  BY <1>0, Zenon DEF FindMostWorkChain, ActivateBestChainStep, TypeOK
<1>2. moves' \in Nat
  BY <1>0, <1>1 DEF TypeOK
<1> QED
  BY IterateIndex, <1>1, <1>2, Zenon

LEMMA NothingToDoIndex ==
    ASSUME IndexInv, NEW t \in Threads, NothingToDo(t)
    PROVE  IndexInv'
<1>0. TypeOK /\ Shape /\ Height(tip) \in Nat /\ Ancestor(tip, Height(tip)) = tip
  BY IndexFacts, Zenon
<1>1. pc' = [pc EXCEPT ![t] = "idle"] /\ pc' \in [Threads -> Pcs]
  BY <1>0, GotoOK, Zenon DEF NothingToDo, Leave, Goto, Pcs
<1>2. TypeOK'
  BY <1>0, <1>1, BlockAssumption, Zenon DEF NothingToDo, Leave, TypeOK, chainVars, stores, locals, counters
<1>3. \A u \in Threads : pc'[u] \in DbPcs => pc'[u] = pc[u]
  BY <1>0, <1>1, Zenon DEF TypeOK, DbPcs, LockedPcs, TmpPcs
<1> QED
  BY <1>2, <1>3, OutsideStep, Zenon DEF NothingToDo, chainVars, stores, locals

LEMMA FlushStateToDiskIndex ==
    ASSUME IndexInv, NEW t \in Threads, FlushStateToDisk(t)
    PROVE  IndexInv'
<1>0. TypeOK /\ Shape /\ Height(tip) \in Nat /\ Ancestor(tip, Height(tip)) = tip
  BY IndexFacts
<1>1. pc' = [pc EXCEPT ![t] = "open"] /\ pc' \in [Threads -> Pcs]
  BY <1>0, GotoOK, Zenon DEF FlushStateToDisk, Goto, Pcs
<1>2. TypeOK'
  BY <1>0, <1>1, Zenon DEF FlushStateToDisk, TypeOK, chainVars, stores, locals, counters
<1>3. \A u \in Threads : pc'[u] \in DbPcs => pc'[u] = pc[u]
  BY <1>0, <1>1, Zenon DEF TypeOK, DbPcs, LockedPcs, TmpPcs
<1> QED
  BY <1>2, <1>3, OutsideStep, Zenon DEF FlushStateToDisk, chainVars, stores, locals

LEMMA OpenCacheIndex ==
    ASSUME IndexInv, NEW t \in Threads, OpenCache(t)
    PROVE  IndexInv'
<1>0. TypeOK /\ Shape /\ Height(tip) \in Nat /\ Ancestor(tip, Height(tip)) = tip
  BY IndexFacts
<1>1. pc' = [pc EXCEPT ![t] = "opened"] /\ pc' \in [Threads -> Pcs]
  BY <1>0, GotoOK, Zenon DEF OpenCache, Goto, Pcs, DbPcs
<1>2. TypeOK'
  BY <1>0, <1>1, TypeParts, TypeStep, Zenon DEF OpenCache, stores, locals
<1>3. \A u \in Threads : pc[u] \notin DbPcs
  BY Zenon DEF OpenCache, DbFree
<1>4. \A u \in Threads : pc'[u] \in DbPcs => u = t /\ pc'[u] = "opened"
  BY <1>0, <1>1, <1>3, Zenon DEF TypeOK
<1>5. \A u \in Threads : IndexAt(pc[u])'
  BY <1>4, Zenon DEF IndexAt, DbPcs, LockedPcs, TmpPcs
<1>6. Shape'
  BY <1>0, Zenon DEF OpenCache, Shape, chainVars, stores, locals
<1> QED
  BY <1>2, <1>4, <1>5, <1>6, Zenon DEF IndexInv, Shape

LEMMA CreateUpdateStrategyIndex ==
    ASSUME IndexInv, NEW t \in Threads, CreateUpdateStrategy(t)
    PROVE  IndexInv'
<1>0. TypeOK /\ Shape /\ Height(tip) \in Nat /\ Ancestor(tip, Height(tip)) = tip
  BY IndexFacts
<1>1. Strategy \in {"undo", "rebuild", "continue", "rollback"}
  BY DEF Strategy
<1>2. PICK p \in {"idle", "rebuildSnapShot", "continue", "rollback"} :
          /\ pc' = [pc EXCEPT ![t] = p]
          /\ p = "rebuildSnapShot" => index = {}
          /\ p \in {"continue", "rollback"} => index # {}
  BY <1>1, ZenonT(40) DEF CreateUpdateStrategy, Strategy, Goto
<1>3. pc' \in [Threads -> Pcs] /\ pc'[t] = p /\ \A u \in Threads \ {t} : pc'[u] = pc[u]
  BY <1>0, <1>2, GotoOK DEF TypeOK, Pcs, DbPcs, LockedPcs
<1>4. /\ pc[t] \in DbPcs /\ h' = Height(tip)
      /\ UNCHANGED <<chainVars, index, snapshot, checkpoints, tmp, base, rpc, counters>>
  BY Zenon DEF CreateUpdateStrategy, DbPcs, stores
<1>5. TypeOK'
  BY <1>0, <1>3, <1>4, TypeParts, TypeStep
<1>6. Shape' /\ tip' = tip
  BY <1>0, <1>4, Zenon DEF Shape, chainVars
<1>7. IndexAt(pc[t])'
  BY <1>0, <1>2, <1>3, <1>4, <1>6 DEF IndexAt, TmpPcs
<1> QED
  BY <1>3, <1>4, <1>5, <1>6, <1>7, OwnerStep, Zenon

LEMMA ClearSnapShotIndex ==
    ASSUME IndexInv, NEW t \in Threads, ClearSnapShot(t)
    PROVE  IndexInv'
<1>0. TypeOK /\ Shape /\ Height(tip) \in Nat /\ Ancestor(tip, Height(tip)) = tip
  BY IndexFacts
<1>i. IndexAt(pc[t])
  BY IndexFacts, Zenon
<1>1. /\ pc' = [pc EXCEPT ![t] = "rebuildIndex"] /\ pc' \in [Threads -> Pcs]
      /\ pc'[t] = "rebuildIndex" /\ \A u \in Threads \ {t} : pc'[u] = pc[u]
  BY <1>0, GotoOK DEF ClearSnapShot, Goto, TypeOK, Pcs, DbPcs, LockedPcs
<1>2. <<>> \in State
  BY EmptySeq, Zenon DEF State
<1>3. TypeOK'
  BY <1>0, <1>1, <1>2, TypeParts, TypeStep, Zenon DEF ClearSnapShot, Cleared, stores, locals
<1>4. Shape' /\ pc[t] \in DbPcs /\ IndexAt(pc[t])
  BY <1>i, <1>0, Zenon DEF ClearSnapShot, Shape, DbPcs, LockedPcs
<1>5. IndexAt(pc[t])'
  BY <1>1, <1>4, Zenon DEF ClearSnapShot, IndexAt, TmpPcs
<1> QED
  BY <1>1, <1>3, <1>4, <1>5, OwnerStep, Zenon

LEMMA ClearBlockCacheIndex ==
    ASSUME IndexInv, NEW t \in Threads, ClearBlockCache(t)
    PROVE  IndexInv'
<1>0. TypeOK /\ Shape /\ Height(tip) \in Nat /\ Ancestor(tip, Height(tip)) = tip
  BY IndexFacts
<1>i. IndexAt(pc[t])
  BY IndexFacts
<1>1. /\ pc' = [pc EXCEPT ![t] = "rebuildPush"] /\ pc' \in [Threads -> Pcs]
      /\ pc'[t] = "rebuildPush" /\ \A u \in Threads \ {t} : pc'[u] = pc[u]
  BY <1>0, GotoOK, Zenon DEF ClearBlockCache, Goto, TypeOK, Pcs, DbPcs, LockedPcs
<1>2. index = {} /\ index' = {} /\ h' = Height(tip) /\ tip' = tip /\ pc[t] \in DbPcs
  BY <1>0, <1>i, Zenon DEF ClearBlockCache, Cleared, IndexAt, DbPcs, LockedPcs, chainVars, stores, locals
<1>3. TypeOK'
  BY <1>0, <1>1, <1>2, TypeParts, TypeStep DEF ClearBlockCache, stores, locals
<1>4. Branch(tip, Height(tip) + 1) = {}
  BY <1>0, BranchProperties DEF TypeOK
<1>5. Shape' /\ IndexAt(pc[t])'
  BY <1>0, <1>1, <1>2, <1>4 DEF Shape, IndexAt, TmpPcs
<1> QED
  BY <1>1, <1>2, <1>3, <1>5, OwnerStep, Zenon

LEMMA RebuildPushIndex ==
    ASSUME IndexInv, NEW t \in Threads, RebuildPush(t)
    PROVE  IndexInv'
<1>0. TypeOK /\ Shape /\ Height(tip) \in Nat /\ Ancestor(tip, Height(tip)) = tip
  BY IndexFacts
<1>i. IndexAt(pc[t])
  BY IndexFacts
<1>1. /\ h \in 0..Height(tip) /\ index = Branch(tip, h + 1) /\ pc[t] \in DbPcs /\ tip \in Block
      /\ tip' = tip
  BY <1>0, <1>i, Zenon DEF RebuildPush, IndexAt, DbPcs, LockedPcs, TypeOK, chainVars, stores, locals
<1>2. index' = Branch(tip, h)
  BY <1>1, PushBelow, Zenon DEF RebuildPush
<1>3. h \in Nat /\ index' \subseteq Block /\ index' # {} /\ HeighestBlock(index') = tip
  BY <1>0, <1>1, <1>2, BranchProperties, HeighestOfBranch
<1>4. /\ pc' \in [Threads -> Pcs] /\ \A u \in Threads \ {t} : pc'[u] = pc[u]
      /\ \/ h > 0 /\ h' = h - 1 /\ pc'[t] = "rebuildPush"
         \/ h = 0 /\ h' = 0 /\ pc'[t] = "exec"
  BY <1>0, GotoOK, <1>1, SMTT(40) DEF RebuildPush, Goto, TypeOK, Pcs, DbPcs, LockedPcs
<1>5. TypeOK'
  BY <1>0, <1>3, <1>4, TypeParts, TypeStep DEF RebuildPush, stores, locals
<1>6. Shape'
  BY <1>1, <1>2, Zenon DEF Shape
<1>7. IndexAt(pc[t])'
  BY <1>0, <1>1, <1>2, <1>3, <1>4 DEF IndexAt, TmpPcs
<1> QED
  BY <1>1, <1>4, <1>5, <1>6, <1>7, OwnerStep, Zenon

LEMMA ContinueWalkIndex ==
    ASSUME IndexInv, NEW t \in Threads, ContinueWalk(t)
    PROVE  IndexInv'
<1>0. TypeOK /\ Shape /\ Height(tip) \in Nat /\ Ancestor(tip, Height(tip)) = tip
  BY IndexFacts
<1>i. IndexAt(pc[t])
  BY IndexFacts
<1> DEFINE first == HeighestBlock(index)
<1>f. UNCHANGED <<chainVars, index, snapshot, checkpoints, tmp, rpc, counters>>
  BY Zenon DEF ContinueWalk, stores
<1>1. index # {} /\ pc[t] \in DbPcs /\ tip' = tip /\ index' = index /\ tip \in Block
  BY <1>0, <1>i, <1>f, Zenon DEF ContinueWalk, IndexAt, DbPcs, LockedPcs, TypeOK, chainVars
<1>2. first \in Block /\ Height(first) \in Nat
  BY <1>0, <1>1, TopOfIndex, Zenon
<1>3. PICK lo \in 0..Height(first) : index = Branch(first, lo)
  BY <1>0, <1>1, TopOfIndex, Zenon
<1>4. CASE OnActiveChain(first) /\ first = tip
  <2>1. /\ base' = Height(tip) + 1 /\ h' = Height(tip) + 1 /\ pc' = [pc EXCEPT ![t] = "exec"]
    BY <1>1, <1>4, Zenon DEF ContinueWalk, Goto
  <2>2. pc' \in [Threads -> Pcs] /\ pc'[t] = "exec" /\ \A u \in Threads \ {t} : pc'[u] = pc[u]
    BY <1>0, GotoOK, <2>1, Zenon DEF TypeOK, Pcs, DbPcs, LockedPcs
  <2>3. TypeOK'
    BY <1>0, <2>1, <2>2, <1>f, TypeParts, TypeStep
  <2>4. Shape' /\ IndexAt(pc[t])'
    BY <1>0, <1>1, <1>4, <2>1, <2>2 DEF Shape, IndexAt, TmpPcs
  <2> QED
    BY <1>1, <2>2, <2>3, <2>4, OwnerStep, Zenon
<1>5. CASE OnActiveChain(first) /\ first # tip
  <2>1. /\ base' = Height(first) + 1 /\ h' = Height(first) + 1
        /\ pc' = [pc EXCEPT ![t] = "continuePush"]
    BY <1>1, <1>5, Zenon DEF ContinueWalk, Goto
  <2>2. /\ pc' \in [Threads -> Pcs] /\ pc'[t] = "continuePush"
        /\ \A u \in Threads \ {t} : pc'[u] = pc[u]
    BY <1>0, GotoOK, <2>1, Zenon DEF TypeOK, Pcs, DbPcs, LockedPcs
  <2>3. Height(first) <= Height(tip) /\ Ancestor(tip, Height(first)) = first
    BY <1>5, Zenon DEF OnActiveChain
  <2>4. Height(first) < Height(tip)
    BY <1>0, <1>2, <1>5, <2>3
  <2>5. TypeOK'
    BY <1>0, <1>2, <2>1, <2>2, <1>f, TypeParts, TypeStep
  <2>6. index' = Branch(Ancestor(tip', h' - 1), lo) /\ lo \in 0..(h' - 1)
    BY <1>1, <1>2, <1>3, <2>1, <2>3
  <2>7. h' \in 1..Height(tip') /\ base' \in 1..h'
    BY <1>0, <1>1, <1>2, <2>1, <2>4
  <2>8. Shape' /\ IndexAt(pc[t])'
    BY <1>0, <1>1, <2>2, <2>6, <2>7, ZenonT(40) DEF Shape, IndexAt, TmpPcs
  <2> QED
    BY <1>1, <2>2, <2>5, <2>8, OwnerStep, Zenon
<1>6. CASE ~ OnActiveChain(first)
  <2>1. h' = Height(tip) /\ base' = base /\ pc' = [pc EXCEPT ![t] = "rollback"]
    BY <1>1, <1>6, Zenon DEF ContinueWalk, Goto
  <2>2. /\ pc' \in [Threads -> Pcs] /\ pc'[t] = "rollback"
        /\ \A u \in Threads \ {t} : pc'[u] = pc[u]
    BY <1>0, GotoOK, <2>1, Zenon DEF TypeOK, Pcs, DbPcs, LockedPcs
  <2>3. TypeOK'
    BY <1>0, <2>1, <2>2, <1>f, TypeParts, TypeStep
  <2>4. Shape' /\ IndexAt(pc[t])'
    BY <1>0, <1>1, <2>1, <2>2 DEF Shape, IndexAt, TmpPcs
  <2> QED
    BY <1>1, <2>2, <2>3, <2>4, OwnerStep, Zenon
<1> QED
  BY <1>4, <1>5, <1>6, Zenon

LEMMA ContinuePushIndex ==
    ASSUME IndexInv, NEW t \in Threads, ContinuePush(t)
    PROVE  IndexInv'
<1>0. TypeOK /\ Shape /\ Height(tip) \in Nat /\ Ancestor(tip, Height(tip)) = tip
  BY IndexFacts
<1>i. IndexAt(pc[t])
  BY IndexFacts
<1>1. /\ h \in 1..Height(tip) /\ base \in 1..h /\ pc[t] \in DbPcs /\ tip \in Block /\ tip' = tip
      /\ base' = base
  BY <1>0, <1>i, Zenon DEF ContinuePush, IndexAt, DbPcs, LockedPcs, TypeOK, chainVars, stores, locals
<1>2. PICK lo \in 0..(h - 1) : index = Branch(Ancestor(tip, h - 1), lo)
  BY <1>0, <1>i, Zenon DEF ContinuePush, IndexAt
<1>3. index' = Branch(Ancestor(tip, h), lo)
  BY <1>1, <1>2, PushAbove, Zenon DEF ContinuePush
<1>4. Ancestor(tip, h) \in Block /\ Height(Ancestor(tip, h)) = h /\ h \in Nat /\ lo \in 0..h
  BY <1>0, <1>1, AncestorProperties
<1>5. index' \subseteq Block /\ index' # {} /\ HeighestBlock(index') = Ancestor(tip, h)
  BY <1>3, <1>4, BranchProperties, HeighestOfBranch
<1>6. /\ pc' \in [Threads -> Pcs] /\ \A u \in Threads \ {t} : pc'[u] = pc[u]
      /\ \/ h < Height(tip) /\ h' = h + 1 /\ pc'[t] = "continuePush"
         \/ h = Height(tip) /\ h' = base /\ pc'[t] = "exec"
  BY <1>0, GotoOK, <1>1 DEF ContinuePush, Goto, TypeOK, Pcs, DbPcs, LockedPcs
<1>7. TypeOK'
  BY <1>0, <1>1, <1>4, <1>5, <1>6, TypeParts, TypeStep DEF ContinuePush, stores, locals
<1>8. Shape'
  BY <1>3, <1>4, Zenon DEF Shape
<1>9. IndexAt(pc[t])'
  <2>1. CASE h < Height(tip) /\ h' = h + 1 /\ pc'[t] = "continuePush"
    <3>1. h' - 1 = h /\ h' \in 1..Height(tip') /\ base' \in 1..h' /\ lo \in 0..(h' - 1)
      BY <1>0, <1>1, <1>4, <2>1
    <3>2. index' = Branch(Ancestor(tip', h' - 1), lo)
      BY <1>1, <1>3, <3>1, ZenonT(40)
    <3> QED
      BY <2>1, <3>1, <3>2, Zenon DEF IndexAt, TmpPcs
  <2>2. CASE h = Height(tip) /\ h' = base /\ pc'[t] = "exec"
    BY <1>0, <1>1, <1>5, <2>2 DEF IndexAt, TmpPcs
  <2> QED
    BY <1>6, <2>1, <2>2, Zenon
<1> QED
  BY <1>1, <1>6, <1>7, <1>8, <1>9, OwnerStep, Zenon

-----------------------------------------------------------------------------
(* Rollback, the execution of the blocks, checkpoints, readers and crashes. *)

LEMMA RollbackStepIndex ==
    ASSUME IndexInv, NEW t \in Threads, RollbackStep(t)
    PROVE  IndexInv'
<1>0. TypeOK /\ Shape /\ Height(tip) \in Nat /\ Ancestor(tip, Height(tip)) = tip
  BY IndexFacts
<1>i. IndexAt(pc[t])
  BY IndexFacts
<1>f. UNCHANGED <<chainVars, checkpoints, tmp, base, rpc, counters>>
  BY Zenon DEF RollbackStep
<1> DEFINE first == HeighestBlock(index)
<1>1. /\ index # {} /\ h \in 0..Height(tip) /\ pc[t] = "rollback" /\ pc[t] \in DbPcs
      /\ tip' = tip /\ tip \in Block /\ checkpoints' = checkpoints /\ base' = base
  BY <1>0, <1>i, <1>f, Zenon DEF RollbackStep, IndexAt, DbPcs, LockedPcs, TypeOK, chainVars
<1>2. first \in Block /\ Height(first) \in Nat
  BY <1>0, <1>1, TopOfIndex, Zenon
<1>3. h # -1 /\ h \in Nat
  BY <1>1
<1>4. CASE h > Height(first)
  <2>1. h' = h - 1 /\ pc' = pc /\ index' = index /\ snapshot' = snapshot
    BY <1>1, <1>3, <1>4, Zenon DEF RollbackStep
  <2>2. TypeOK'
    BY <1>0, <1>3, <2>1, <1>f, TypeParts, TypeStep
  <2>3. Shape' /\ IndexAt(pc[t])'
    BY <1>0, <1>1, <1>2, <1>4, <2>1 DEF Shape, IndexAt, TmpPcs
  <2> QED
    BY <1>1, <2>1, <2>2, <2>3, OwnerStep, Zenon
<1>5. CASE h < Height(first)
  <2>1. h' = h /\ pc' = [pc EXCEPT ![t] = "rollbackPop"] /\ index' = index /\ snapshot' = snapshot
    BY <1>1, <1>2, <1>3, <1>5 DEF RollbackStep, Goto
  <2>2. /\ pc' \in [Threads -> Pcs] /\ pc'[t] = "rollbackPop"
        /\ \A u \in Threads \ {t} : pc'[u] = pc[u]
    BY <1>0, GotoOK, <2>1, Zenon DEF TypeOK, Pcs, DbPcs, LockedPcs
  <2>3. TypeOK'
    BY <1>0, <2>1, <2>2, <1>f, TypeParts, TypeStep, Zenon
  <2>4. Shape' /\ IndexAt(pc[t])'
    BY <1>0, <1>1, <1>2, <1>5, <2>1, <2>2 DEF Shape, IndexAt, TmpPcs
  <2> QED
    BY <1>1, <2>2, <2>3, <2>4, OwnerStep, Zenon
<1>6. CASE h = Height(first) /\ first = Ancestor(tip, h) /\ HasCheckPoint(first)
  <2>1. h' = h /\ pc' = [pc EXCEPT ![t] = "restore"] /\ index' = index /\ snapshot' = <<>>
    BY <1>1, <1>2, <1>3, <1>6 DEF RollbackStep, Goto
  <2>2. /\ pc' \in [Threads -> Pcs] /\ pc'[t] = "restore"
        /\ \A u \in Threads \ {t} : pc'[u] = pc[u]
    BY <1>0, GotoOK, <2>1, Zenon DEF TypeOK, Pcs, DbPcs, LockedPcs
  <2>3. TypeOK'
    BY <1>0, <2>1, <2>2, EmptySeq, <1>f, TypeParts, TypeStep DEF State
  <2>4. Shape' /\ IndexAt(pc[t])'
    BY <1>0, <1>1, <1>6, <2>1, <2>2, ZenonT(40) DEF Shape, IndexAt, TmpPcs, HasCheckPoint
  <2> QED
    BY <1>1, <2>2, <2>3, <2>4, OwnerStep, Zenon
<1>7. CASE h = Height(first) /\ ~ (first = Ancestor(tip, h) /\ HasCheckPoint(first))
  <2>1. /\ h' = h - 1 /\ index' = PopBlock(index) /\ snapshot' = snapshot
        /\ pc' = [pc EXCEPT ![t] = IF index' = {} THEN "rebuildSnapShot" ELSE "rollback"]
    BY <1>1, <1>2, <1>3, <1>7 DEF RollbackStep, Goto
  <2>2. /\ pc' \in [Threads -> Pcs]
        /\ pc'[t] = IF index' = {} THEN "rebuildSnapShot" ELSE "rollback"
        /\ \A u \in Threads \ {t} : pc'[u] = pc[u]
    BY <1>0, GotoOK, <2>1, Zenon DEF TypeOK, Pcs, DbPcs, LockedPcs
  <2>3. TypeOK'
    BY <1>0, <1>3, <2>1, <2>2, <1>f, TypeParts, TypeStep DEF PopBlock
  <2>4. index' # {} => \E lo \in 0..(Height(first) - 1) :
                          /\ Pprev(first) \in Block /\ Height(Pprev(first)) = Height(first) - 1
                          /\ index' = Branch(Pprev(first), lo)
    BY <1>0, <1>1, <2>1, PopOfIndex, Zenon
  <2>5. index' # {} => h' \in 0..Height(tip')
    BY <1>0, <1>1, <1>2, <1>7, <2>1, <2>4
  <2>6. Shape'
    BY <2>4, Zenon DEF Shape
  <2>7. IndexAt(pc[t])'
    BY <2>2, <2>5, Zenon DEF IndexAt, TmpPcs
  <2> QED
    BY <1>1, <2>2, <2>3, <2>6, <2>7, OwnerStep, Zenon
<1> QED
  BY <1>2, <1>3, <1>4, <1>5, <1>6, <1>7

LEMMA RollbackPopIndex ==
    ASSUME IndexInv, NEW t \in Threads, RollbackPop(t)
    PROVE  IndexInv'
<1>0. TypeOK /\ Shape /\ Height(tip) \in Nat /\ Ancestor(tip, Height(tip)) = tip
  BY IndexFacts
<1>i. IndexAt(pc[t])
  BY IndexFacts
<1> DEFINE first == HeighestBlock(index)
<1>1. /\ index # {} /\ h \in 0..Height(tip) /\ pc[t] = "rollbackPop" /\ pc[t] \in DbPcs
      /\ tip' = tip /\ index' = PopBlock(index)
  BY <1>0, <1>i, Zenon DEF RollbackPop, IndexAt, DbPcs, LockedPcs, chainVars, stores, locals
<1>2. index' # {} => \E lo \in 0..(Height(first) - 1) :
                        /\ Pprev(first) \in Block /\ Height(Pprev(first)) = Height(first) - 1
                        /\ index' = Branch(Pprev(first), lo)
                        /\ HeighestBlock(index') = Pprev(first)
  BY <1>0, <1>1, PopOfIndex, Zenon
<1>3. index' # {} => Height(HeighestBlock(index')) \in Nat
  BY <1>2, AncestorSelf, Zenon
<1>4. /\ pc' \in [Threads -> Pcs] /\ \A u \in Threads \ {t} : pc'[u] = pc[u]
      /\ \/ index' = {} /\ h' = h /\ pc'[t] = "rebuildSnapShot"
         \/ /\ index' # {} /\ Height(HeighestBlock(index')) >= h /\ h' = h
            /\ pc'[t] = "rollbackPop"
         \/ /\ index' # {} /\ ~ (Height(HeighestBlock(index')) >= h) /\ h' = h - 1
            /\ pc'[t] = "rollback"
  BY <1>0, GotoOK, <1>1 DEF RollbackPop, Goto, TypeOK, Pcs, DbPcs, LockedPcs
<1>5. TypeOK'
  <2>1. UNCHANGED <<chainVars, checkpoints, tmp, rpc, counters>> /\ UNCHANGED <<snapshot, base>>
    BY Zenon DEF RollbackPop
  <2>2. index' \subseteq Block /\ snapshot' \in State /\ base' \in Nat
    BY <1>0, <1>1, <2>1, TypeParts, Zenon DEF PopBlock
  <2>3. h' \in Int
    BY <1>1, <1>4
  <2> QED
    BY <1>0, <1>4, <2>1, <2>2, <2>3, TypeStep, Zenon
<1>6. Shape'
  BY <1>2, Zenon DEF Shape
<1>7. IndexAt(pc[t])'
  BY <1>0, <1>1, <1>3, <1>4 DEF IndexAt, TmpPcs
<1> QED
  BY <1>1, <1>4, <1>5, <1>6, <1>7, OwnerStep, Zenon

LEMMA RestoreCheckPointIndex ==
    ASSUME IndexInv, NEW t \in Threads, RestoreCheckPoint(t)
    PROVE  IndexInv'
<1>0. TypeOK /\ Shape /\ Height(tip) \in Nat /\ Ancestor(tip, Height(tip)) = tip
  BY IndexFacts
<1>i. IndexAt(pc[t])
  BY IndexFacts
<1>1. /\ index # {} /\ HasCheckPoint(HeighestBlock(index)) /\ pc[t] \in DbPcs
      /\ index' = index
  BY <1>0, <1>i DEF RestoreCheckPoint, IndexAt, DbPcs, LockedPcs
<1>3. snapshot' \in State
  <2>1. \A i \in 1..Len(checkpoints) : checkpoints[i] \in CheckPoint
    BY <1>0, ElementOfSeq DEF TypeOK
  <2>2. \A i \in 1..Len(checkpoints) : checkpoints[i].state \in State
    BY <2>1, ZenonT(40) DEF CheckPoint
  <2> QED
    BY <2>2, Zenon DEF RestoreCheckPoint
<1>4. /\ pc' \in [Threads -> Pcs] /\ pc'[t] = "continue"
      /\ \A u \in Threads \ {t} : pc'[u] = pc[u]
  BY <1>0, GotoOK, SMTT(40) DEF RestoreCheckPoint, Goto, TypeOK, Pcs, DbPcs, LockedPcs
<1>5. TypeOK'
  BY <1>0, <1>3, <1>4, TypeParts, TypeStep, Zenon DEF RestoreCheckPoint, stores, locals
<1>6. Shape' /\ IndexAt(pc[t])'
  BY <1>0, <1>1, <1>4, Zenon DEF Shape, IndexAt, TmpPcs
<1> QED
  BY <1>1, <1>4, <1>5, <1>6, OwnerStep, Zenon

LEMMA ProcessContractsIndex ==
    ASSUME IndexInv, NEW t \in Threads, ProcessContracts(t)
    PROVE  IndexInv'
<1>0. TypeOK /\ Shape /\ Height(tip) \in Nat /\ Ancestor(tip, Height(tip)) = tip
  BY IndexFacts
<1>i. IndexAt(pc[t])
  BY IndexFacts
<1>1. /\ index # {} /\ HeighestBlock(index) = tip /\ h \in 0..(Height(tip) + 1)
      /\ pc[t] = "exec" /\ pc[t] \in DbPcs
      /\ index' = index /\ tip' = tip /\ tip \in Block
  BY <1>0, <1>i, Zenon DEF ProcessContracts, IndexAt, DbPcs, LockedPcs, TypeOK, chainVars, stores, locals
<1>2. CASE h <= Height(tip)
  <2>1. snapshot' = Append(snapshot, tip[h + 1]) /\ h' = h + 1 /\ pc' = pc
    BY <1>2, Zenon DEF ProcessContracts
  <2>2. tip[h + 1] \in Payload
    BY <1>0, <1>1, <1>2, BlockAssumption DEF Height
  <2>3. snapshot' \in State
    <3>1. snapshot \in Seq(Payload \cup {Torn}) /\ tip[h + 1] \in Payload \cup {Torn}
      BY <1>0, <2>2, Zenon DEF TypeOK, State
    <3>2. Append(snapshot, tip[h + 1]) \in Seq(Payload \cup {Torn})
      BY <3>1, AppendProperties, Zenon
    <3> QED
      BY <2>1, <3>2, Zenon DEF State
  <2>4. TypeOK'
    BY <1>0, <1>1, <2>1, <2>3, TypeParts, TypeStep DEF ProcessContracts, stores, locals
  <2>5. Shape' /\ IndexAt(pc[t])'
    BY <1>0, <1>1, <1>2, <2>1 DEF Shape, IndexAt, TmpPcs
  <2> QED
    BY <1>1, <2>1, <2>4, <2>5, OwnerStep, Zenon
<1>3. CASE ~ (h <= Height(tip))
  <2>1. /\ snapshot' = snapshot /\ h' = h /\ pc' \in [Threads -> Pcs] /\ pc'[t] = "checkpoint"
        /\ \A u \in Threads \ {t} : pc'[u] = pc[u]
    BY <1>0, GotoOK, <1>3, SMTT(40) DEF ProcessContracts, Goto, TypeOK, Pcs, DbPcs, LockedPcs
  <2>2. TypeOK'
    <3>1. UNCHANGED <<chainVars, checkpoints, tmp, rpc, counters>> /\ UNCHANGED <<index, base>>
      BY DEF ProcessContracts
    <3>2. index' \subseteq Block /\ snapshot' \in State /\ base' \in Nat /\ h' \in Int
      BY <1>0, <2>1, <3>1, TypeParts, Zenon
    <3> QED
      BY <1>0, <2>1, <3>1, <3>2, TypeStep
  <2>3. Shape' /\ IndexAt(pc[t])'
    BY <1>0, <1>1, <2>1, Zenon DEF Shape, IndexAt, TmpPcs
  <2> QED
    BY <1>1, <2>1, <2>2, <2>3, OwnerStep, Zenon
<1> QED
  BY <1>2, <1>3, Zenon

LEMMA ReadBlockFailsIndex ==
    ASSUME IndexInv, NEW t \in Threads, ReadBlockFails(t)
    PROVE  IndexInv'
<1>0. TypeOK /\ Shape /\ Height(tip) \in Nat /\ Ancestor(tip, Height(tip)) = tip
  BY IndexFacts
<1>1. /\ pc' \in [Threads -> Pcs] /\ pc'[t] = "idle"
      /\ \A u \in Threads \ {t} : pc'[u] = pc[u]
  BY <1>0, GotoOK, Zenon DEF ReadBlockFails, Goto, TypeOK, Pcs
<1>2. TypeOK'
  BY <1>0, <1>1 DEF ReadBlockFails, TypeOK, chainVars, stores, locals, counters
<1>3. \A u \in Threads : pc'[u] \in DbPcs => pc'[u] = pc[u]
  BY <1>1 DEF DbPcs, LockedPcs, TmpPcs
<1>4. tip' = tip /\ UNCHANGED <<index, h, base, checkpoints>>
  BY DEF ReadBlockFails, chainVars, stores, locals
<1> QED
  BY <1>2, <1>3, <1>4, OutsideStep, Zenon

LEMMA SaveCheckPointIndex ==
    ASSUME IndexInv, NEW t \in Threads, SaveCheckPoint(t)
    PROVE  IndexInv'
<1>0. TypeOK /\ Shape /\ Height(tip) \in Nat /\ Ancestor(tip, Height(tip)) = tip
  BY IndexFacts
<1>i. IndexAt(pc[t])
  BY IndexFacts
<1>1. /\ index # {} /\ pc[t] \in DbPcs /\ index' = index
      /\ h' = Height(HeighestBlock(index))
  BY <1>0, <1>i DEF SaveCheckPoint, IndexAt, DbPcs, LockedPcs
<1>2. HeighestBlock(index) \in Block /\ h' \in Nat
  BY <1>0, <1>1, TopOfIndex, Zenon
<1>3. [tip |-> HeighestBlock(index), state |-> snapshot] \in CheckPoint
  BY <1>0, <1>2 DEF TypeOK, CheckPoint
<1>4. checkpoints' \in Seq(CheckPoint)
  BY <1>0, <1>3, AppendProperties, ZenonT(40) DEF SaveCheckPoint, TypeOK
<1>5. /\ pc' \in [Threads -> Pcs] /\ pc'[t] = "tmp" /\ \A u \in Threads \ {t} : pc'[u] = pc[u]
  BY <1>0, GotoOK, Zenon DEF SaveCheckPoint, Goto, TypeOK, Pcs, DbPcs, TmpPcs
<1>6. TypeOK'
  BY <1>0, <1>2, <1>4, <1>5 DEF SaveCheckPoint, TypeOK, chainVars, stores, locals, counters
<1>7. Shape' /\ IndexAt(pc[t])'
  BY <1>0, <1>1, <1>5, Zenon DEF Shape, IndexAt
<1> QED
  BY <1>1, <1>5, <1>6, <1>7, OwnerStep, Zenon

LEMMA BackupFailsIndex ==
    ASSUME IndexInv, NEW t \in Threads, BackupFails(t)
    PROVE  IndexInv'
<1>0. TypeOK /\ Shape /\ Height(tip) \in Nat /\ Ancestor(tip, Height(tip)) = tip
  BY IndexFacts
<1>i. IndexAt(pc[t])
  BY IndexFacts
<1>1. /\ index # {} /\ pc[t] \in DbPcs /\ index' = index
      /\ h' = Height(HeighestBlock(index))
  BY <1>0, <1>i, Zenon DEF BackupFails, IndexAt, DbPcs, LockedPcs, chainVars, stores, locals
<1>2. h' \in Nat
  BY <1>0, <1>1, TopOfIndex, Zenon
<1>3. /\ pc' \in [Threads -> Pcs] /\ pc'[t] = "tmp" /\ \A u \in Threads \ {t} : pc'[u] = pc[u]
  BY <1>0, GotoOK, Zenon DEF BackupFails, Goto, TypeOK, Pcs, DbPcs, TmpPcs
<1>4. TypeOK'
  BY <1>0, <1>2, <1>3 DEF BackupFails, TypeOK, chainVars, stores, locals, counters
<1>5. Shape' /\ IndexAt(pc[t])'
  BY <1>0, <1>1, <1>3 DEF Shape, IndexAt
<1> QED
  BY <1>1, <1>3, <1>4, <1>5, OwnerStep

LEMMA SaveTmpStateIndex ==
    ASSUME IndexInv, NEW t \in Threads, SaveTmpState(t)
    PROVE  IndexInv'
<1>0. TypeOK /\ Shape /\ Height(tip) \in Nat /\ Ancestor(tip, Height(tip)) = tip
  BY IndexFacts
<1>i. IndexAt(pc[t])
  BY IndexFacts
<1>1. /\ IndexAt(pc[t]) /\ pc[t] = "tmp" /\ pc[t] \in DbPcs
      /\ index' = index /\ h' = h /\ checkpoints' = checkpoints
  BY <1>0, <1>i, Zenon DEF SaveTmpState, DbPcs, TmpPcs, chainVars, stores, locals
<1>2. /\ pc' \in [Threads -> Pcs] /\ pc'[t] = IF checkpoints = <<>> THEN "purge" ELSE "tmpCopy"
      /\ \A u \in Threads \ {t} : pc'[u] = pc[u]
  BY <1>0, GotoOK DEF SaveTmpState, Goto, TypeOK, Pcs, DbPcs, TmpPcs
<1>3. TypeOK'
  BY <1>0, <1>2, Zenon DEF SaveTmpState, TypeOK, chainVars, stores, locals, counters
<1>4. Shape' /\ IndexAt(pc[t])'
  BY <1>0, <1>1, <1>2, Zenon DEF Shape, IndexAt, TmpPcs
<1> QED
  BY <1>1, <1>2, <1>3, <1>4, OwnerStep, Zenon

LEMMA CopyTmpStateIndex ==
    ASSUME IndexInv, NEW t \in Threads, CopyTmpState(t)
    PROVE  IndexInv'
<1>0. TypeOK /\ Shape /\ Height(tip) \in Nat /\ Ancestor(tip, Height(tip)) = tip
  BY IndexFacts
<1>i. IndexAt(pc[t])
  BY IndexFacts
<1>1. /\ IndexAt(pc[t]) /\ pc[t] = "tmpCopy" /\ pc[t] \in DbPcs /\ checkpoints # <<>>
      /\ index' = index /\ h' = h
  BY <1>0, <1>i, Zenon DEF CopyTmpState, DbPcs, TmpPcs, IndexAt, chainVars, stores, locals
<1>2. /\ pc' \in [Threads -> Pcs] /\ pc'[t] = "purge"
      /\ \A u \in Threads \ {t} : pc'[u] = pc[u]
  BY <1>0, GotoOK, Zenon DEF CopyTmpState, Goto, TypeOK, Pcs, DbPcs, TmpPcs
<1>3. checkpoints[Len(checkpoints)] \in CheckPoint
  <2>1. Len(checkpoints) \in 1..Len(checkpoints)
    BY <1>0, <1>1, EmptySeq, ElementOfSeq DEF TypeOK
  <2> QED
    BY <1>0, <2>1, ElementOfSeq, Zenon DEF TypeOK
<1>4. tmp' \in State
  BY <1>3, Zenon DEF CopyTmpState, LatestBackup, CheckPoint
<1>5. TypeOK'
  BY <1>0, <1>2, <1>4, Zenon DEF CopyTmpState, TypeOK, chainVars, stores, locals, counters
<1>6. Shape' /\ IndexAt(pc[t])'
  BY <1>0, <1>1, <1>2, Zenon DEF Shape, IndexAt, TmpPcs
<1> QED
  BY <1>1, <1>2, <1>5, <1>6, OwnerStep, Zenon

LEMMA ClearCheckPointIndex ==
    ASSUME IndexInv, NEW t \in Threads, ClearCheckPoint(t)
    PROVE  IndexInv'
<1>0. TypeOK /\ Shape /\ Height(tip) \in Nat /\ Ancestor(tip, Height(tip)) = tip
  BY IndexFacts
<1>1. pc[t] = "purge" /\ pc[t] \in DbPcs /\ index' = index
  BY Zenon DEF ClearCheckPoint, DbPcs, TmpPcs
<1>2. /\ pc' \in [Threads -> Pcs] /\ pc'[t] = "idle" /\ \A u \in Threads \ {t} : pc'[u] = pc[u]
  BY <1>0, GotoOK DEF ClearCheckPoint, Goto, TypeOK, Pcs
<1>3. checkpoints' \in Seq(CheckPoint)
  BY <1>0, SuffixProperties, FollowerAssumption, ZenonT(40) DEF ClearCheckPoint, TypeOK
<1>4. TypeOK'
  BY <1>0, <1>2, <1>3, Zenon DEF ClearCheckPoint, TypeOK, chainVars, stores, locals, counters
<1>5. Shape' /\ IndexAt(pc[t])'
  BY <1>0, <1>1, <1>2, Zenon DEF Shape, IndexAt, TmpPcs
<1> QED
  BY <1>1, <1>2, <1>4, <1>5, OwnerStep, Zenon

LEMMA ReadIndex ==
    ASSUME IndexInv, NEW r \in Readers, Read(r)
    PROVE  IndexInv'
<1>0. TypeOK /\ Shape /\ Height(tip) \in Nat /\ Ancestor(tip, Height(tip)) = tip
  BY IndexFacts
<1>1. TypeOK'
  BY <1>0, ZenonT(40) DEF Read, LockTmp, OpenTmp, CloseTmp, TypeOK, chainVars, stores, locals, counters
<1> QED
  BY <1>1, OutsideStep DEF Read, LockTmp, OpenTmp, CloseTmp, chainVars, stores, locals

LEMMA RestartIndex ==
    ASSUME IndexInv, Restart
    PROVE  IndexInv'
<1>0. TypeOK /\ Shape /\ Height(tip) \in Nat /\ Ancestor(tip, Height(tip)) = tip
  BY IndexFacts, Zenon
<1>1. pc' = [t \in Threads |-> "idle"] /\ pc' \in [Threads -> Pcs]
  BY DEF Restart, Pcs
<1>2. snapshot' \in State
  <2>1. Append(snapshot, Torn) \in State
    BY <1>0, AppendProperties, Zenon DEF TypeOK, State
  <2> QED
    BY <1>0, <2>1, ZenonT(40) DEF Restart, TypeOK
<1>3. TypeOK'
  BY <1>0, <1>1, <1>2, BlockAssumption DEF Restart, TypeOK
<1>4. \A u \in Threads : pc'[u] \notin DbPcs
  BY <1>1, Zenon DEF DbPcs, LockedPcs, TmpPcs
<1>5. \A u \in Threads : IndexAt(pc[u])'
  BY <1>4, Zenon DEF IndexAt, DbPcs, LockedPcs, TmpPcs
<1>6. Shape'
  BY <1>0 DEF Restart, Shape
<1> QED
  BY <1>3, <1>4, <1>5, <1>6, ZenonT(40) DEF IndexInv, Shape

LEMMA StutterIndex ==
    ASSUME IndexInv, UNCHANGED vars
    PROVE  IndexInv'
<1>0. TypeOK /\ Shape /\ Height(tip) \in Nat /\ Ancestor(tip, Height(tip)) = tip
  BY IndexFacts, Zenon
<1>1. TypeOK'
  BY <1>0, Zenon DEF vars, TypeOK, chainVars, stores, locals, counters
<1> QED
  BY <1>1, OutsideStep DEF vars, chainVars, stores, locals

\* Every step of the module preserves IndexInv.
LEMMA IndexInvNext ==
    ASSUME IndexInv, [Next]_vars
    PROVE  IndexInv'
<1>1. ASSUME NEW t \in Threads, Observe(t) \/ ReadBlockFails(t) \/ BackupFails(t)
      PROVE  IndexInv'
  BY <1>1, ChainIndex, NothingToDoIndex, FlushStateToDiskIndex, OpenCacheIndex, CreateUpdateStrategyIndex, ClearSnapShotIndex, ClearBlockCacheIndex, RebuildPushIndex, ContinueWalkIndex, ContinuePushIndex, RollbackStepIndex, RollbackPopIndex, RestoreCheckPointIndex, ProcessContractsIndex, ReadBlockFailsIndex, SaveCheckPointIndex, BackupFailsIndex, SaveTmpStateIndex, CopyTmpStateIndex, ClearCheckPointIndex, Zenon DEF Observe
<1> QED
  BY <1>1, ChainIndex, InvalidateBlockIndex, ReadIndex, RestartIndex, StutterIndex, Zenon DEF Next, OpenAborts, OpenTmpAborts, Crash

\* IndexInv holds throughout, whatever crashes, failed reads and failed backups happen.
THEOREM IndexInvariant == Spec => []IndexInv
<1>1. Init => IndexInv
  BY IndexInvInit
<1>2. IndexInv /\ [Next]_vars => IndexInv'
  BY IndexInvNext
<1> QED
  BY <1>1, <1>2, PTL DEF Spec

\* Type correctness of the contract follower.
THEOREM TypeCorrect == Spec => []TypeOK
<1>1. IndexInv => TypeOK
  BY Zenon DEF IndexInv
<1> QED
  BY <1>1, IndexInvariant, PTL

\* block_index is always a contiguous run of blocks of one branch, ending in its highest row.
THEOREM IndexShape == Spec => []IndexIsBranch
<1>1. IndexInv => IndexIsBranch
  BY TopOfIndex DEF IndexInv, Shape, IndexIsBranch
<1> QED
  BY <1>1, IndexInvariant, PTL

\* A checkpoint is only ever tagged with the tip that is active while it is taken.
THEOREM TagIsTip == Spec => []CheckPointTagIsTip
<1>1. IndexInv => CheckPointTagIsTip
  BY Zenon DEF IndexInv, IndexAt, CheckPointTagIsTip
<1> QED
  BY <1>1, IndexInvariant, PTL

-----------------------------------------------------------------------------
(* The contract states.                                                    *)

Tracks == snapshot = IF index = {} THEN <<>> ELSE HeighestBlock(index)
Sound == \A i \in 1..Len(checkpoints) : checkpoints[i].state = checkpoints[i].tip
StateCore == (NotUpdating => Tracks) /\ Sound /\ \A t \in Threads : StateAt(pc[t])

LEMMA OwnerState ==
    ASSUME IndexInv, NEW t \in Threads, pc[t] \in DbPcs,
           \A u \in Threads \ {t} : pc'[u] = pc[u],
           pc'[t] \notin LockedPcs => Tracks', Sound', StateAt(pc[t])'
    PROVE  StateCore'
<1>1. \A u \in Threads \ {t} : pc'[u] \notin DbPcs
  BY Zenon DEF IndexInv
<1>2. \A u \in Threads \ {t} : StateAt(pc[u])'
  BY <1>1, Zenon DEF StateAt, DbPcs, LockedPcs
<1>3. NotUpdating' => Tracks'
  BY Zenon DEF NotUpdating
<1> QED
  BY <1>2, <1>3, Zenon DEF StateCore

LEMMA OutsideState ==
    ASSUME StateCore, UNCHANGED <<index, snapshot, h, base, checkpoints>>,
           \A u \in Threads : pc'[u] \in LockedPcs <=> pc[u] \in LockedPcs,
           \A u \in Threads : pc'[u] \in LockedPcs => pc'[u] = pc[u],
           tip' = tip \/ CsMainFree
    PROVE  StateCore'
<1>1. NotUpdating' => Tracks'
  BY Zenon DEF StateCore, NotUpdating, Tracks
<1>2. Sound'
  BY Zenon DEF StateCore, Sound
<1>3. \A u \in Threads : StateAt(pc[u])'
  <2> SUFFICES ASSUME NEW u \in Threads
               PROVE  StateAt(pc[u])'
    OBVIOUS
  <2>1. CASE pc'[u] \notin LockedPcs
    BY <2>1, Zenon DEF StateAt, LockedPcs
  <2>2. CASE pc'[u] \in LockedPcs
    <3>1. pc'[u] = pc[u] /\ tip' = tip /\ StateAt(pc[u])
      BY <2>2 DEF CsMainFree, StateCore
    <3> QED
      BY <3>1, Zenon DEF StateAt
  <2> QED
    BY <2>1, <2>2, Zenon
<1> QED
  BY <1>1, <1>2, <1>3, Zenon DEF StateCore

\* Executing the next block of the active chain extends the states by that block.
LEMMA ExecuteNext ==
    ASSUME NEW b \in Block, NEW k \in 0..Height(b)
    PROVE  Append(SubSeq(b, 1, k), b[k + 1]) = SubSeq(b, 1, k + 1)
<1>1. b \in Seq(Payload) /\ Len(b) \in Nat /\ k + 1 \in 1..Len(b) /\ Height(b) \in Nat
  BY AncestorSelf, BlockAssumption DEF Height
<1>2. k \in 0..Len(b) /\ k + 1 \in 0..Len(b) /\ b[k + 1] \in Payload
  BY <1>1
<1> DEFINE s == SubSeq(b, 1, k)
           r == SubSeq(b, 1, k + 1)
<1>3. s \in Seq(Payload) /\ Len(s) = k /\ \A i \in 1..k : s[i] = b[i]
  BY <1>1, <1>2, PrefixProperties, Zenon
<1>4. r \in Seq(Payload) /\ Len(r) = k + 1 /\ \A i \in 1..(k + 1) : r[i] = b[i]
  BY <1>1, <1>2, PrefixProperties, Zenon
<1> HIDE DEF s, r
<1>5. /\ Append(s, b[k + 1]) \in Seq(Payload) /\ Len(Append(s, b[k + 1])) = k + 1
      /\ \A i \in 1..k : Append(s, b[k + 1])[i] = s[i]
      /\ Append(s, b[k + 1])[k + 1] = b[k + 1]
  BY <1>1, <1>2, <1>3, AppendProperties
<1>6. \A i \in 1..(k + 1) : Append(s, b[k + 1])[i] = r[i]
  BY <1>1, <1>3, <1>4, <1>5
<1>7. Append(s, b[k + 1]) = r
  BY <1>4, <1>5, <1>6, SeqEqual
<1> QED
  BY <1>7 DEF s, r

\* All of the active chain executed: the states of the tip.
LEMMA ExecutedAll ==
    ASSUME NEW b \in Block
    PROVE  SubSeq(b, 1, Height(b) + 1) = b
BY AncestorSelf, Zenon DEF Ancestor

\* Every step preserves StateCore as long as no crash and no failed block read has happened.
LEMMA StateCoreNext ==
    ASSUME EmptyRangeClears, IndexInv, IndexInv', StateCore, Unharmed, Unharmed', [Next]_vars
    PROVE  StateCore'
<1> USE DEF chainVars, stores, locals, counters
<1>0. TypeOK /\ Shape /\ \A t \in Threads : IndexAt(pc[t])
  BY Zenon DEF IndexInv, Shape
<1>a. tip \in Block /\ Height(tip) \in Nat
  BY <1>0, AncestorSelf DEF TypeOK
<1>b. \A t \in Threads : StateAt(pc[t])
  BY Zenon DEF StateCore
<1>c. pc \in [Threads -> Pcs]
  BY <1>0, Zenon DEF TypeOK
<1>1. ASSUME NEW t \in Threads,
             \/ \E b \in Block : FindMostWorkChain(t, b)
             \/ ActivateBestChainStep(t) \/ NothingToDo(t)
      PROVE  StateCore'
  <2>1. /\ \A u \in Threads \ {t} : pc'[u] = pc[u]
        /\ pc[t] \in {"idle", "find", "step"} /\ pc'[t] \in {"idle", "find", "step", "flush"}
        /\ CsMainFree /\ UNCHANGED <<index, snapshot, h, base, checkpoints>>
    BY <1>1, <1>c, Zenon DEF FindMostWorkChain, ActivateBestChainStep, NothingToDo, Iterate, Leave, Goto
  <2>2. \A u \in Threads : \/ pc'[u] = pc[u]
                           \/ pc'[u] \notin LockedPcs /\ pc[u] \notin LockedPcs
    BY <2>1, Zenon DEF LockedPcs
  <2> QED
    BY <2>1, <2>2, OutsideState, Zenon
<1>2. ASSUME NEW b \in Block, InvalidateBlock(b)
      PROVE  StateCore'
  BY <1>2, OutsideState, Zenon DEF InvalidateBlock
<1>3. ASSUME NEW t \in Threads, FlushStateToDisk(t) \/ OpenCache(t)
      PROVE  StateCore'
  <2>1. \A u \in Threads : \/ pc'[u] = pc[u]
                           \/ pc'[u] \notin LockedPcs /\ pc[u] \notin LockedPcs
    BY <1>3, <1>c, Zenon DEF FlushStateToDisk, OpenCache, Goto, LockedPcs
  <2> QED
    BY <1>3, <2>1, OutsideState, Zenon DEF FlushStateToDisk, OpenCache
<1>4. ASSUME NEW t \in Threads, CreateUpdateStrategy(t)
      PROVE  StateCore'
  <2>1. Strategy \in {"undo", "rebuild", "continue", "rollback"}
    BY Zenon DEF Strategy
  <2>2. PICK p \in {"idle", "rebuildSnapShot", "continue", "rollback"} :
            pc' = [pc EXCEPT ![t] = p] /\ (p \in {"continue", "rollback"} => index # {})
    BY <1>4, <2>1, Zenon DEF CreateUpdateStrategy, Strategy, Goto
  <2>3. pc'[t] = p /\ \A u \in Threads \ {t} : pc'[u] = pc[u]
    BY <1>c, <2>2
  <2>4. pc[t] \in DbPcs /\ Tracks /\ index' = index /\ snapshot' = snapshot
        /\ checkpoints' = checkpoints
    BY <1>4 DEF CreateUpdateStrategy, DbPcs, StateCore, NotUpdating, CsMainFree
  <2>5. Tracks' /\ Sound'
    BY <2>4 DEF Tracks, Sound, StateCore
  <2>6. StateAt(pc[t])'
    BY <2>2, <2>3, <2>4 DEF StateAt, Tracks
  <2> QED
    BY <2>3, <2>4, <2>5, <2>6, OwnerState, Zenon
<1>5. ASSUME NEW t \in Threads, ClearSnapShot(t)
      PROVE  StateCore'
  <2>1. /\ pc'[t] = "rebuildIndex" /\ \A u \in Threads \ {t} : pc'[u] = pc[u]
        /\ pc[t] \in DbPcs /\ snapshot' = <<>> /\ checkpoints' = checkpoints
    BY <1>5, <1>c DEF ClearSnapShot, Goto, Cleared, DbPcs, LockedPcs
  <2>2. Sound' /\ StateAt(pc[t])' /\ pc'[t] \in LockedPcs
    BY <2>1 DEF Sound, StateCore, StateAt, LockedPcs
  <2> QED
    BY <2>1, <2>2, OwnerState
<1>6. ASSUME NEW t \in Threads, ClearBlockCache(t) \/ RebuildPush(t)
      PROVE  StateCore'
  <2>1. /\ pc[t] \in {"rebuildIndex", "rebuildPush"} /\ snapshot = <<>>
    BY <1>6, <1>b, Zenon DEF ClearBlockCache, RebuildPush, StateAt
  <2>2. /\ \/ pc'[t] = "rebuildPush"
           \/ pc'[t] = "exec" /\ h' = 0
        /\ \A u \in Threads \ {t} : pc'[u] = pc[u]
        /\ snapshot' = <<>> /\ checkpoints' = checkpoints
    BY <1>6, <1>c, <2>1 DEF ClearBlockCache, RebuildPush, Goto
  <2>3. SubSeq(tip', 1, 0) = <<>>
    BY NothingTaken, Zenon
  <2>4. Sound' /\ StateAt(pc[t])' /\ pc'[t] \in LockedPcs /\ pc[t] \in DbPcs
    BY <2>1, <2>2, <2>3, Zenon DEF Sound, StateCore, StateAt, LockedPcs, DbPcs
  <2> QED
    BY <2>2, <2>4, OwnerState
<1>7. ASSUME NEW t \in Threads, ContinueWalk(t)
      PROVE  StateCore'
  <2> DEFINE first == HeighestBlock(index)
  <2>1. /\ index # {} /\ snapshot = first /\ pc[t] \in DbPcs /\ tip' = tip
        /\ snapshot' = snapshot /\ checkpoints' = checkpoints
    BY <1>0, <1>b, <1>7, Zenon DEF ContinueWalk, IndexAt, StateAt, DbPcs, LockedPcs
  <2>2. first \in Block /\ Height(first) \in Nat
    BY <1>0, <2>1, TopOfIndex, Zenon
  <2>3. /\ \A u \in Threads \ {t} : pc'[u] = pc[u]
        /\ \/ /\ OnActiveChain(first) /\ h' = Height(first) + 1 /\ base' = Height(first) + 1
              /\ pc'[t] = IF first = tip THEN "exec" ELSE "continuePush"
           \/ pc'[t] = "rollback"
    BY <1>7, <1>c, <2>1, Zenon DEF ContinueWalk, Goto
  <2>4. Sound' /\ pc'[t] \in LockedPcs
    BY <2>1, <2>3, Zenon DEF Sound, StateCore, LockedPcs
  <2>5. StateAt(pc[t])'
    <3>1. CASE pc'[t] = "exec"
      <4>1. first = tip /\ h' = Height(tip) + 1
        BY <2>3, <3>1, Zenon
      <4>2. snapshot' = SubSeq(tip', 1, h')
        BY <1>a, <2>1, <4>1, ExecutedAll, Zenon
      <4> QED
        BY <3>1, <4>2, Zenon DEF StateAt
    <3>2. CASE pc'[t] = "continuePush"
      <4>1. base' - 1 = Height(first) /\ Ancestor(tip, Height(first)) = first
        BY <2>2, <2>3, <3>2 DEF OnActiveChain
      <4>2. snapshot' = Ancestor(tip', base' - 1)
        BY <2>1, <4>1, Zenon
      <4> QED
        BY <3>2, <4>2, Zenon DEF StateAt
    <3>3. CASE pc'[t] = "rollback"
      BY <3>3, Zenon DEF StateAt
    <3> QED
      BY <2>3, <3>1, <3>2, <3>3, Zenon
  <2> QED
    BY <2>1, <2>3, <2>4, <2>5, OwnerState, Zenon
<1>8. ASSUME NEW t \in Threads, ContinuePush(t)
      PROVE  StateCore'
  <2>1. /\ snapshot = Ancestor(tip, base - 1) /\ base \in 1..h /\ h \in 1..Height(tip)
        /\ pc[t] \in DbPcs /\ tip' = tip /\ base' = base
        /\ snapshot' = snapshot /\ checkpoints' = checkpoints
    BY <1>0, <1>b, <1>8, Zenon DEF ContinuePush, IndexAt, StateAt, DbPcs, LockedPcs
  <2>2. /\ \A u \in Threads \ {t} : pc'[u] = pc[u]
        /\ \/ pc'[t] = "continuePush"
           \/ pc'[t] = "exec" /\ h' = base
    BY <1>0, <1>8, <1>c, Zenon DEF ContinuePush, Goto
  <2>3. base - 1 + 1 = base
    BY <2>1
  <2>4. snapshot' = SubSeq(tip', 1, base)
    BY <2>1, <2>3, Zenon DEF Ancestor
  <2>5. Sound' /\ pc'[t] \in LockedPcs /\ StateAt(pc[t])'
    BY <2>1, <2>2, <2>4, Zenon DEF Sound, StateCore, LockedPcs, StateAt
  <2> QED
    BY <2>1, <2>2, <2>5, OwnerState, Zenon
<1>9. ASSUME NEW t \in Threads, RollbackStep(t) \/ RollbackPop(t)
      PROVE  StateCore'
  <2>1. /\ pc[t] \in {"rollback", "rollbackPop"} /\ index # {} /\ h # -1
        /\ checkpoints' = checkpoints
    <3>1. pc[t] \in {"rollback", "rollbackPop"} /\ checkpoints' = checkpoints
      BY <1>9, ZenonT(30) DEF RollbackStep, RollbackPop
    <3>2. index # {} /\ h \in 0..Height(tip)
      BY <1>0, <3>1, ZenonT(30) DEF IndexAt
    <3> QED
      BY <3>1, <3>2
  <2>2. /\ pc'[t] \in {"rollback", "rollbackPop", "restore", "rebuildSnapShot"}
        /\ \A u \in Threads \ {t} : pc'[u] = pc[u]
    BY <1>9, <1>c, <2>1, Zenon DEF RollbackStep, RollbackPop, Goto
  <2>3. Sound' /\ StateAt(pc[t])' /\ pc'[t] \in LockedPcs /\ pc[t] \in DbPcs
    BY <2>1, <2>2, Zenon DEF Sound, StateCore, StateAt, LockedPcs, DbPcs
  <2> QED
    BY <2>2, <2>3, OwnerState, Zenon
<1>10. ASSUME NEW t \in Threads, RestoreCheckPoint(t)
       PROVE  StateCore'
  <2>1. /\ pc[t] \in DbPcs /\ index' = index /\ checkpoints' = checkpoints
    BY <1>10, Zenon DEF RestoreCheckPoint, DbPcs, LockedPcs
  <2>2. pc'[t] = "continue" /\ \A u \in Threads \ {t} : pc'[u] = pc[u]
    BY <1>10, <1>c, Zenon DEF RestoreCheckPoint, Goto
  <2>3. snapshot' = HeighestBlock(index')
    BY <1>10, <2>1, Zenon DEF RestoreCheckPoint, FirstCheckPoint, StateCore, Sound
  <2>4. Sound' /\ StateAt(pc[t])' /\ pc'[t] \in LockedPcs
    BY <2>1, <2>2, <2>3, Zenon DEF Sound, StateCore, StateAt, LockedPcs
  <2> QED
    BY <2>1, <2>2, <2>4, OwnerState, Zenon
<1>11. ASSUME NEW t \in Threads, ProcessContracts(t)
       PROVE  StateCore'
  <2>1. /\ h \in 0..(Height(tip) + 1) /\ snapshot = SubSeq(tip, 1, h)
        /\ pc[t] = "exec" /\ pc[t] \in DbPcs /\ tip' = tip /\ checkpoints' = checkpoints
    BY <1>0, <1>b, <1>11, Zenon DEF ProcessContracts, IndexAt, StateAt, DbPcs, LockedPcs
  <2>2. Sound'
    BY <2>1, Zenon DEF StateCore, Sound
  <2>3. CASE h <= Height(tip)
    <3>1. snapshot' = Append(snapshot, tip[h + 1]) /\ h' = h + 1 /\ pc' = pc
      BY <1>11, <2>3, Zenon DEF ProcessContracts
    <3>2. h \in 0..Height(tip)
      BY <1>a, <2>1, <2>3
    <3>3. snapshot' = SubSeq(tip', 1, h')
      BY <1>a, <2>1, <3>1, <3>2, ExecuteNext, Zenon
    <3>4. StateAt(pc[t])' /\ pc'[t] \in LockedPcs
      BY <2>1, <3>1, <3>3, Zenon DEF StateAt, LockedPcs
    <3> QED
      BY <2>1, <2>2, <3>1, <3>4, OwnerState, Zenon
  <2>4. CASE ~ (h <= Height(tip))
    <3>1. /\ snapshot' = snapshot /\ pc'[t] = "checkpoint"
          /\ \A u \in Threads \ {t} : pc'[u] = pc[u]
      BY <1>11, <1>c, <2>4, Zenon DEF ProcessContracts, Goto
    <3>2. h = Height(tip) + 1
      BY <1>a, <2>1, <2>4
    <3>3. snapshot' = tip'
      BY <1>a, <2>1, <3>1, <3>2, ExecutedAll, Zenon
    <3>4. StateAt(pc[t])' /\ pc'[t] \in LockedPcs
      BY <3>1, <3>3, Zenon DEF StateAt, LockedPcs
    <3> QED
      BY <2>1, <2>2, <3>1, <3>4, OwnerState, Zenon
  <2> QED
    BY <2>3, <2>4, Zenon
<1>12. ASSUME NEW t \in Threads, ReadBlockFails(t)
       PROVE  StateCore'
  BY <1>0, <1>12, HarmIsCounted, Zenon
<1>13. ASSUME NEW t \in Threads, SaveCheckPoint(t) \/ BackupFails(t)
       PROVE  StateCore'
  <2>1. /\ index # {} /\ HeighestBlock(index) = tip /\ snapshot = tip /\ pc[t] \in DbPcs
        /\ index' = index /\ snapshot' = snapshot
        /\ \/ checkpoints' = checkpoints
           \/ checkpoints' = Append(checkpoints, [tip |-> tip, state |-> snapshot])
    BY <1>0, <1>b, <1>13, Zenon DEF SaveCheckPoint, BackupFails, IndexAt, StateAt, DbPcs, LockedPcs
  <2>2. pc'[t] = "tmp" /\ \A u \in Threads \ {t} : pc'[u] = pc[u]
    BY <1>13, <1>c, Zenon DEF SaveCheckPoint, BackupFails, Goto
  <2>3. Tracks' /\ StateAt(pc[t])'
    BY <2>1, <2>2, Zenon DEF Tracks, StateAt
  <2>4. Sound'
    <3>1. CASE checkpoints' = checkpoints
      BY <3>1, Zenon DEF StateCore, Sound
    <3>2. CASE checkpoints' = Append(checkpoints, [tip |-> tip, state |-> snapshot])
      <4> DEFINE cp == [tip |-> tip, state |-> snapshot]
      <4>1. checkpoints \in Seq(CheckPoint) /\ cp \in CheckPoint /\ cp.state = cp.tip
        BY <1>0, <2>1, Zenon DEF TypeOK, CheckPoint
      <4> HIDE DEF cp
      <4>2. checkpoints' = Append(checkpoints, cp)
        BY <3>2 DEF cp
      <4>3. \A i \in 1..Len(checkpoints') :
                (i \in 1..Len(checkpoints) /\ checkpoints'[i] = checkpoints[i]) \/ checkpoints'[i] = cp
        BY <4>1, <4>2, CheckPointAppended, Zenon
      <4>4. ASSUME NEW i \in 1..Len(checkpoints')
            PROVE  checkpoints'[i].state = checkpoints'[i].tip
        <5>1. \A k \in 1..Len(checkpoints) : checkpoints[k].state = checkpoints[k].tip
          BY Zenon DEF StateCore, Sound
        <5> QED
          BY <4>1, <4>3, <5>1, Zenon
      <4> QED
        BY <4>4, Zenon DEF Sound
    <3> QED
      BY <2>1, <3>1, <3>2, Zenon
  <2> QED
    BY <2>1, <2>2, <2>3, <2>4, OwnerState, Zenon
<1>14. ASSUME NEW t \in Threads, SaveTmpState(t) \/ CopyTmpState(t)
       PROVE  StateCore'
  <2>1. \A u \in Threads : \/ pc'[u] = pc[u]
                           \/ pc'[u] \notin LockedPcs /\ pc[u] \notin LockedPcs
    BY <1>14, <1>c, Zenon DEF SaveTmpState, CopyTmpState, Goto, LockedPcs
  <2> QED
    BY <1>14, <2>1, OutsideState, Zenon DEF SaveTmpState, CopyTmpState
<1>15. ASSUME NEW t \in Threads, ClearCheckPoint(t)
       PROVE  StateCore'
  <2>1. pc[t] = "purge" /\ pc[t] \in DbPcs /\ index' = index /\ snapshot' = snapshot
    BY <1>15, Zenon DEF ClearCheckPoint, DbPcs, TmpPcs
  <2>2. pc'[t] = "idle" /\ \A u \in Threads \ {t} : pc'[u] = pc[u]
    BY <1>15, <1>c, Zenon DEF ClearCheckPoint, Goto
  <2>3. NotUpdating
    BY <2>1, Zenon DEF IndexInv, NotUpdating, DbPcs, LockedPcs
  <2>4. Tracks' /\ StateAt(pc[t])'
    BY <2>1, <2>2, <2>3, Zenon DEF StateCore, Tracks, StateAt
  <2>5. Sound'
    <3>1. CASE checkpoints' = checkpoints
      BY <3>1 DEF StateCore, Sound
    <3>2. CASE checkpoints' # checkpoints
      <4> DEFINE n == MaxCheckPointCount
      <4>1. /\ checkpoints \in Seq(CheckPoint) /\ n \in Nat \ {0} /\ Len(checkpoints) > n
            /\ checkpoints' = SubSeq(checkpoints, Len(checkpoints) - n + 1, Len(checkpoints))
        BY <1>0, <1>15, <3>2, FollowerAssumption, Zenon DEF TypeOK, ClearCheckPoint
      <4>2. Len(checkpoints) \in Nat
        BY <4>1, ElementOfSeq, Zenon
      <4> HIDE DEF n
      <4>3. /\ Len(checkpoints') = n
            /\ \A i \in 1..n : checkpoints'[i] = checkpoints[Len(checkpoints) - n + i]
        BY <4>1, SuffixProperties, Zenon
      <4>4. \A i \in 1..n : Len(checkpoints) - n + i \in 1..Len(checkpoints)
        <5> DEFINE m == Len(checkpoints)
        <5>1. m \in Nat /\ n \in Nat /\ m > n
          BY <4>1, <4>2, Zenon
        <5> HIDE DEF m
        <5>2. \A i \in 1..n : m - n + i \in 1..m
          BY <5>1
        <5> QED
          BY <5>2, Zenon DEF m
      <4> QED
        BY <4>3, <4>4, Zenon DEF StateCore, Sound
    <3> QED
      BY <3>1, <3>2, Zenon
  <2> QED
    BY <2>1, <2>2, <2>4, <2>5, OwnerState, Zenon
<1>16. ASSUME NEW r \in Readers, Read(r)
       PROVE  StateCore'
  BY <1>16, OutsideState, Zenon DEF Read, LockTmp, OpenTmp, CloseTmp
<1>17. ASSUME Restart
       PROVE  StateCore'
  BY <1>17 DEF Restart, Unharmed
<1>18. CASE UNCHANGED vars
  BY <1>18, OutsideState, Zenon DEF vars
<1> QED
  BY <1>1, <1>2, <1>3, <1>4, <1>5, <1>6, <1>7, <1>8, <1>9, <1>10, <1>11, <1>12, <1>13, <1>14, <1>15, <1>16, <1>17, <1>18, Zenon DEF Next, Observe, OpenAborts, OpenTmpAborts, Crash

LEMMA StateInvIsCore ==
    ASSUME EmptyRangeClears, Unharmed
    PROVE  StateInv <=> StateCore
BY Zenon DEF StateInv, StateCore, SnapshotTracksIndex, CheckPointsSound, Tracks, Sound

\* StateInv holds throughout: as long as no crash and no failed block read has happened, the
\* contract states are what the loop cursors of the running strategy say they are.
THEOREM StateInvariant == Spec => []StateInv
<1>1. Init => StateInv
  <2> SUFFICES ASSUME Init
               PROVE  StateInv
    OBVIOUS
  <2>1. index = {} /\ snapshot = <<>> /\ checkpoints = <<>>
    BY Zenon DEF Init
  <2>2. \A t \in Threads : pc[t] \in {"flush", "idle"}
    BY Zenon DEF Init
  <2>3. \A t \in Threads : StateAt(pc[t])
    BY <2>2 DEF StateAt
  <2>4. SnapshotTracksIndex /\ CheckPointsSound
    BY SoundInit, Zenon
  <2> QED
    BY <2>3, <2>4, Zenon DEF StateInv
<1>2. IndexInv /\ IndexInv' /\ StateInv /\ [Next]_vars => StateInv'
  <2> SUFFICES ASSUME IndexInv, IndexInv', StateInv, [Next]_vars, EmptyRangeClears, Unharmed'
               PROVE  StateInv'
    BY Zenon DEF StateInv
  <2>1. Unharmed
    BY UnharmedBefore DEF IndexInv
  <2>2. StateCore
    BY <2>1, StateInvIsCore, Zenon
  <2>3. StateCore'
    BY <2>1, <2>2, StateCoreNext
  <2> QED
    BY <2>3, Zenon DEF StateInv, StateCore, SnapshotTracksIndex, CheckPointsSound, Tracks, Sound
<1> QED
  BY <1>1, <1>2, IndexInvariant, PTL DEF Spec

\* If clearAllStates empties a database, then between updates the contract states are those of
\* the block the index ends in, on every block tree and for any number of threads.
THEOREM SnapshotTracks ==
    ASSUME EmptyRangeClears
    PROVE  Spec => []SnapshotTracksIndex
<1>1. StateInv => SnapshotTracksIndex
  BY Zenon DEF StateInv, SnapshotTracksIndex
<1> QED
  BY <1>1, StateInvariant, PTL

\* Under the same assumption every checkpoint holds the states of the block it is tagged with.
THEOREM CheckPointsAreSound ==
    ASSUME EmptyRangeClears
    PROVE  Spec => []CheckPointsSound
<1>1. StateInv => CheckPointsSound
  BY Zenon DEF StateInv, CheckPointsSound
<1> QED
  BY <1>1, StateInvariant, PTL

-----------------------------------------------------------------------------
(* The database of the readers, and the service that an update implements. *)

Occupied == LockedPcs \cup TmpPcs

\* A step that is no part of an update: a move of the chain, a reader, the opening of the databases.
Outside ==
    /\ UNCHANGED <<index, snapshot, checkpoints, tmp>>
    /\ \A u \in Threads : pc'[u] = pc[u] \/ (pc'[u] \notin Occupied /\ pc[u] \notin Occupied)
    /\ tip' = tip \/ CsMainFree
\* Thread t begins an update.
Begins(t) ==
    /\ pc[t] = "opened" /\ CsMainFree /\ pc'[t] \in LockedPcs
    /\ \A u \in Threads \ {t} : pc'[u] = pc[u]
    /\ UNCHANGED <<tip, snapshot>>
\* Thread t, with cs_main, goes on with its update.
GoesOn(t) ==
    /\ pc[t] \in LockedPcs /\ pc'[t] \in LockedPcs
    /\ \A u \in Threads \ {t} : pc'[u] = pc[u]
    /\ UNCHANGED tip

\* Without crashes and failed reads every step is one of these, or one of the steps after an update.
LEMMA KindsOfSteps ==
    ASSUME IndexInv, Unharmed, Unharmed', [Next]_vars
    PROVE  \/ Outside
           \/ \E t \in Threads :
                \/ Begins(t) \/ GoesOn(t)
                \/ SaveCheckPoint(t) \/ BackupFails(t)
                \/ SaveTmpState(t) \/ CopyTmpState(t) \/ ClearCheckPoint(t)
<1> USE DEF chainVars, stores, locals, counters
<1>0. TypeOK /\ \A t \in Threads : IndexAt(pc[t])
  BY Zenon DEF IndexInv
<1>c. pc \in [Threads -> Pcs]
  BY <1>0, Zenon DEF TypeOK
<1>1. ASSUME NEW t \in Threads,
             \/ \E b \in Block : FindMostWorkChain(t, b)
             \/ ActivateBestChainStep(t) \/ NothingToDo(t)
      PROVE  Outside
  <2>1. /\ \A u \in Threads \ {t} : pc'[u] = pc[u]
        /\ pc[t] \in {"idle", "find", "step"} /\ pc'[t] \in {"idle", "find", "step", "flush"}
        /\ CsMainFree /\ UNCHANGED <<index, snapshot, checkpoints, tmp>>
    BY <1>1, <1>c, Zenon DEF FindMostWorkChain, ActivateBestChainStep, NothingToDo, Iterate, Leave, Goto
  <2> QED
    BY <2>1, Zenon DEF Outside, Occupied, LockedPcs, TmpPcs
<1>2. ASSUME NEW b \in Block, InvalidateBlock(b)
      PROVE  Outside
  BY <1>2, Zenon DEF InvalidateBlock, Outside
<1>3. ASSUME NEW t \in Threads, FlushStateToDisk(t) \/ OpenCache(t)
      PROVE  Outside
  BY <1>3, <1>c, Zenon DEF FlushStateToDisk, OpenCache, Goto, Outside, Occupied, LockedPcs, TmpPcs
<1>4. ASSUME NEW t \in Threads, CreateUpdateStrategy(t)
      PROVE  Outside \/ Begins(t)
  <2>0. Strategy \in {"undo", "rebuild", "continue", "rollback"}
    BY DEF Strategy
  <2>1. PICK p \in {"idle", "rebuildSnapShot", "continue", "rollback"} : pc' = [pc EXCEPT ![t] = p]
    BY <1>4, <2>0, Zenon DEF CreateUpdateStrategy, Goto
  <2>2. /\ pc[t] = "opened" /\ pc'[t] = p /\ \A u \in Threads \ {t} : pc'[u] = pc[u]
        /\ CsMainFree /\ UNCHANGED <<tip, index, snapshot, checkpoints, tmp>>
    BY <1>4, <1>c, <2>1, Zenon DEF CreateUpdateStrategy
  <2> QED
    BY <2>1, <2>2, Zenon DEF Outside, Begins, Occupied, LockedPcs, TmpPcs
<1>5. ASSUME NEW t \in Threads, ClearSnapShot(t) \/ ClearBlockCache(t) \/ RebuildPush(t)
      PROVE  GoesOn(t)
  BY <1>5, <1>c, Zenon DEF ClearSnapShot, ClearBlockCache, RebuildPush, Goto, GoesOn, LockedPcs
<1>6. ASSUME NEW t \in Threads, ContinueWalk(t) \/ ContinuePush(t)
      PROVE  GoesOn(t)
  <2>1. pc[t] = "continue" => index # {}
    BY <1>0, Zenon DEF IndexAt
  <2> QED
    BY <1>6, <1>c, <2>1, Zenon DEF ContinueWalk, ContinuePush, Goto, GoesOn, LockedPcs
<1>7. ASSUME NEW t \in Threads, RollbackStep(t) \/ RollbackPop(t)
      PROVE  GoesOn(t)
  <2>1. pc[t] = "rollback" => index # {}
    BY <1>0, Zenon DEF IndexAt
  <2> QED
    BY <1>7, <1>c, <2>1, Zenon DEF RollbackStep, RollbackPop, Goto, GoesOn, LockedPcs
<1>8. ASSUME NEW t \in Threads, RestoreCheckPoint(t) \/ ProcessContracts(t)
      PROVE  GoesOn(t)
  BY <1>8, <1>c DEF RestoreCheckPoint, ProcessContracts, Goto, GoesOn, LockedPcs
<1>9. ASSUME Restart \/ \E t \in Threads : ReadBlockFails(t)
      PROVE  FALSE
  BY <1>0, <1>9, HarmIsCounted, Zenon
<1>10. ASSUME NEW r \in Readers, Read(r)
       PROVE  Outside
  BY <1>10, Zenon DEF Read, LockTmp, OpenTmp, CloseTmp, Outside
<1>11. CASE UNCHANGED vars
  BY <1>11, Zenon DEF vars, Outside
<1> QED
  BY <1>1, <1>2, <1>3, <1>4, <1>5, <1>6, <1>7, <1>8, <1>9, <1>10, <1>11, Zenon DEF Next, Observe, OpenAborts, OpenTmpAborts, Crash

Serves == index = {} \/ HeighestBlock(index) = Genesis \/ tmp = HeighestBlock(index)

\* The newest backup is the one of the last update, unless that ended in the genesis block.
BackedUp ==
    \/ HeighestBlock(index) = Genesis
    \/ checkpoints # <<>> /\ checkpoints[Len(checkpoints)].tip = HeighestBlock(index)

\* The inductive invariant behind TmpServesIndex.
TmpCore ==
    /\ (\A t \in Threads : pc[t] \notin Occupied) => Serves
    /\ \A t \in Threads : /\ pc[t] \in {"tmp", "tmpCopy"} => BackedUp
                          /\ pc[t] = "purge" => Serves
TmpInv == EmptyRangeClears /\ Unharmed /\ backupErrors = 0 => TmpCore

\* The thread that has the databases open is the only one that the invariant speaks of.
LEMMA OwnerTmp ==
    ASSUME IndexInv, NEW t \in Threads, pc[t] \in DbPcs, \A u \in Threads \ {t} : pc'[u] = pc[u],
           pc'[t] \in {"tmp", "tmpCopy"} => BackedUp', pc'[t] \notin LockedPcs \cup {"tmp", "tmpCopy"} => Serves'
    PROVE  TmpCore'
<1>1. \A u \in Threads \ {t} : pc'[u] \notin DbPcs
  BY Zenon DEF IndexInv
<1> QED
  BY <1>1, Zenon DEF TmpCore, Occupied, DbPcs, LockedPcs, TmpPcs

\* Every step keeps the newest backup, or what was copied from it, that of the index.
LEMMA TmpCoreNext ==
    ASSUME IndexInv, StateInv, EmptyRangeClears, Unharmed, Unharmed', backupErrors = 0, backupErrors' = 0,
           TmpCore, [Next]_vars
    PROVE  TmpCore'
<1> USE DEF chainVars, stores, locals, counters
<1>0. TypeOK /\ (\A t \in Threads : IndexAt(pc[t])) /\ Shape
  BY Zenon DEF IndexInv, Shape
<1>c. pc \in [Threads -> Pcs] /\ checkpoints \in Seq(CheckPoint) /\ Len(checkpoints) \in Nat
  BY <1>0, ElementOfSeq, Zenon DEF TypeOK
<1>1. CASE Outside
  BY <1>1, Zenon DEF Outside, TmpCore, Serves, BackedUp, Occupied, TmpPcs
<1>2. ASSUME NEW t \in Threads, Begins(t) \/ GoesOn(t)
      PROVE  TmpCore'
  <2>1. pc[t] \in DbPcs /\ pc'[t] \in LockedPcs /\ \A u \in Threads \ {t} : pc'[u] = pc[u]
    BY <1>2, Zenon DEF Begins, GoesOn, DbPcs
  <2> QED
    BY <2>1, OwnerTmp, Zenon DEF LockedPcs
<1>3. ASSUME NEW t \in Threads, BackupFails(t)
      PROVE  FALSE
  BY <1>3 DEF BackupFails
<1>4. ASSUME NEW t \in Threads, SaveCheckPoint(t)
      PROVE  TmpCore'
  <2>1. pc[t] \in DbPcs /\ pc'[t] = "tmp" /\ \A u \in Threads \ {t} : pc'[u] = pc[u]
    BY <1>4, <1>c, Zenon DEF SaveCheckPoint, Goto, DbPcs, LockedPcs
  <2>2. index # {} /\ HeighestBlock(index) = tip /\ tip \in Block /\ snapshot \in State /\ index' = index
    BY <1>0, <1>4, Zenon DEF SaveCheckPoint, IndexAt, TypeOK
  <2>3. BackedUp'
    <3>1. CASE Height(tip) = 0
      BY <2>2, <3>1, GenesisUnique, Zenon DEF BackedUp
    <3>2. CASE Height(tip) # 0
      <4> DEFINE cp == [tip |-> tip, state |-> snapshot]
      <4>1. checkpoints' = Append(checkpoints, cp) /\ cp \in CheckPoint /\ cp.tip = tip
        BY <1>4, <2>2, <3>2 DEF SaveCheckPoint, CheckPoint
      <4> HIDE DEF cp
      <4>2. Len(checkpoints') = Len(checkpoints) + 1 /\ checkpoints'[Len(checkpoints) + 1] = cp
        BY <1>c, <4>1, CheckPointAppended, Zenon
      <4>3. checkpoints' # <<>>
        BY <1>c, <4>1, CheckPointAppended, Zenon
      <4> QED
        BY <2>2, <4>1, <4>2, <4>3, Zenon DEF BackedUp
    <3> QED
      BY <3>1, <3>2, Zenon
  <2> QED
    BY <2>1, <2>3, OwnerTmp, Zenon
<1>5. ASSUME NEW t \in Threads, SaveTmpState(t)
      PROVE  TmpCore'
  <2>1. pc[t] = "tmp" /\ pc[t] \in DbPcs /\ BackedUp /\ index' = index /\ checkpoints' = checkpoints
    BY <1>5, Zenon DEF SaveTmpState, TmpCore, DbPcs, TmpPcs
  <2>2. /\ \A u \in Threads \ {t} : pc'[u] = pc[u]
        /\ \/ pc'[t] = "purge" /\ checkpoints = <<>>
           \/ pc'[t] = "tmpCopy"
    BY <1>5, <1>c, Zenon DEF SaveTmpState, Goto
  <2>3. BackedUp' /\ (checkpoints = <<>> => Serves')
    BY <2>1, Zenon DEF BackedUp, Serves
  <2> QED
    BY <2>1, <2>2, <2>3, OwnerTmp, Zenon DEF LockedPcs
<1>6. ASSUME NEW t \in Threads, CopyTmpState(t)
      PROVE  TmpCore'
  <2>1. /\ pc[t] = "tmpCopy" /\ pc[t] \in DbPcs /\ BackedUp /\ index' = index
        /\ tmp' = checkpoints[Len(checkpoints)].state
    BY <1>6, Zenon DEF CopyTmpState, TmpCore, DbPcs, TmpPcs, LatestBackup
  <2>2. pc'[t] = "purge" /\ \A u \in Threads \ {t} : pc'[u] = pc[u]
    BY <1>6, <1>c, Zenon DEF CopyTmpState, Goto
  <2>3. ASSUME checkpoints # <<>>
        PROVE  checkpoints[Len(checkpoints)].state = checkpoints[Len(checkpoints)].tip
    <3>1. Len(checkpoints) \in 1..Len(checkpoints)
      BY <1>c, <2>3
    <3> QED
      BY <3>1, Zenon DEF StateInv, CheckPointsSound
  <2>4. Serves'
    BY <2>1, <2>3, Zenon DEF BackedUp, Serves
  <2> QED
    BY <2>1, <2>2, <2>4, OwnerTmp, Zenon
<1>7. ASSUME NEW t \in Threads, ClearCheckPoint(t)
      PROVE  TmpCore'
  <2>1. pc[t] = "purge" /\ pc[t] \in DbPcs /\ Serves /\ index' = index /\ tmp' = tmp
    BY <1>7, Zenon DEF ClearCheckPoint, TmpCore, DbPcs, TmpPcs
  <2>2. pc'[t] = "idle" /\ \A u \in Threads \ {t} : pc'[u] = pc[u]
    BY <1>7, <1>c DEF ClearCheckPoint, Goto
  <2> QED
    BY <2>1, <2>2, OwnerTmp, Zenon DEF Serves
<1> QED
  BY <1>1, <1>2, <1>3, <1>4, <1>5, <1>6, <1>7, KindsOfSteps, Zenon

\* If clearAllStates empties a database, then after an update the database that dumpcontractmessage
\* reads holds the states of the block the index ends in, unless a backup failed: saveTmpState
\* copies the backup of this update and no other, although cs_main is free by then.
THEOREM TmpServes ==
    ASSUME EmptyRangeClears
    PROVE  Spec => []TmpServesIndex
<1>1. Init => TmpInv
  <2>1. ASSUME Init
        PROVE  index = {} /\ \A t \in Threads : pc[t] \in {"flush", "idle"}
    BY <2>1, Zenon DEF Init
  <2> QED
    BY <2>1, Zenon DEF TmpInv, TmpCore, Serves
<1>2. IndexInv /\ StateInv /\ TmpInv /\ [Next]_vars => TmpInv'
  <2> SUFFICES ASSUME IndexInv, StateInv, TmpInv, [Next]_vars, Unharmed', backupErrors' = 0
               PROVE  TmpCore'
    BY Zenon DEF TmpInv
  <2>1. Unharmed
    BY UnharmedBefore DEF IndexInv
  <2>2. backupErrors = 0
    BY BackupsCounted, Zenon DEF IndexInv
  <2> QED
    BY <2>1, <2>2, TmpCoreNext, Zenon DEF TmpInv
<1>3. TmpInv => TmpServesIndex
  BY Zenon DEF TmpInv, TmpCore, TmpServesIndex, Serves, Occupied
<1> QED
  BY <1>1, <1>2, <1>3, IndexInvariant, StateInvariant, PTL DEF Spec

\* Each step is a step of the service, or none that it shows.
LEMMA ServiceStep ==
    ASSUME EmptyRangeClears, IndexInv, IndexInv', StateInv, [Next]_vars
    PROVE  Service!ServiceNext \/ UNCHANGED Service!serviceVars
<1>1. CASE ~ Unharmed'
  BY <1>1, Zenon DEF Service!ServiceNext, Service!Break
<1>2. CASE Unharmed'
  <2>1. Unharmed /\ (Unharmed' <=> Unharmed)
    BY <1>2, UnharmedBefore, Zenon DEF IndexInv
  <2>2. tip' \in Block /\ pc \in [Threads -> Pcs]
    BY DEF IndexInv, TypeOK
  <2>3. CASE Outside
    <3>1. NotUpdating' <=> NotUpdating
      BY <2>3, Zenon DEF Outside, NotUpdating, Occupied
    <3>2. snapshot' = snapshot
      BY <2>3 DEF Outside
    <3>3. CASE NotUpdating
      <4>1. Service!Move
        BY <2>1, <2>2, <3>1, <3>2, <3>3, Zenon DEF Service!Move
      <4> QED
        BY <4>1 DEF Service!ServiceNext
    <3>4. CASE ~ NotUpdating
      <4>1. tip' = tip
        BY <2>3, <3>4 DEF Outside, NotUpdating, CsMainFree
      <4> QED
        BY <2>1, <3>1, <3>2, <4>1, Zenon DEF Service!serviceVars
    <3> QED
      BY <3>3, <3>4, Zenon
  <2>4. ASSUME NEW t \in Threads, Begins(t)
        PROVE  Service!ServiceNext
    <3>1. NotUpdating /\ ~ NotUpdating' /\ tip' = tip
      BY <2>4 DEF Begins, NotUpdating, CsMainFree
    <3> QED
      BY <2>1, <3>1, Zenon DEF Service!ServiceNext, Service!Begin
  <2>5. ASSUME NEW t \in Threads, GoesOn(t)
        PROVE  UNCHANGED Service!serviceVars
    <3>1. ~ NotUpdating /\ ~ NotUpdating' /\ tip' = tip
      BY <2>5 DEF GoesOn, NotUpdating
    <3> QED
      BY <2>1, <3>1, Zenon DEF Service!serviceVars
  <2>6. ASSUME NEW t \in Threads, SaveCheckPoint(t) \/ BackupFails(t)
        PROVE  Service!ServiceNext
    <3>1. /\ pc[t] = "checkpoint" /\ pc'[t] = "tmp" /\ \A u \in Threads \ {t} : pc'[u] = pc[u]
          /\ tip' = tip /\ snapshot' = snapshot
      BY <2>2, <2>6, Zenon DEF SaveCheckPoint, BackupFails, Goto, chainVars, stores
    <3>2. \A u \in Threads \ {t} : pc[u] \notin LockedPcs
      BY <3>1, Zenon DEF IndexInv, DbPcs, LockedPcs
    <3>3. ~ NotUpdating /\ NotUpdating'
      BY <3>1, <3>2, Zenon DEF NotUpdating, LockedPcs
    <3>4. snapshot = tip
      BY <2>1, <3>1 DEF StateInv, StateAt
    <3> QED
      BY <2>1, <3>1, <3>3, <3>4, Zenon DEF Service!ServiceNext, Service!Finish
  <2>7. ASSUME NEW t \in Threads, SaveTmpState(t) \/ CopyTmpState(t) \/ ClearCheckPoint(t)
        PROVE  UNCHANGED Service!serviceVars
    <3>1. /\ pc[t] \in {"tmp", "tmpCopy", "purge"} /\ pc'[t] \in {"tmpCopy", "purge", "idle"}
          /\ \A u \in Threads \ {t} : pc'[u] = pc[u]
          /\ tip' = tip /\ snapshot' = snapshot
      BY <2>2, <2>7, Zenon DEF SaveTmpState, CopyTmpState, ClearCheckPoint, Goto, chainVars
    <3>2. NotUpdating /\ NotUpdating'
      BY <3>1 DEF NotUpdating, IndexInv, DbPcs, LockedPcs, TmpPcs
    <3> QED
      BY <2>1, <3>1, <3>2, Zenon DEF Service!serviceVars
  <2> QED
    BY <1>2, <2>1, <2>3, <2>4, <2>5, <2>6, <2>7, KindsOfSteps, Zenon
<1> QED
  BY <1>1, <1>2

\* Under the same assumption whoever holds cs_main sees an update as one step, from the states of
\* one block to those of the tip: onChainStateSet implements ContractService, until the process
\* ends or a block cannot be read.
THEOREM UpdateIsAtomic ==
    ASSUME EmptyRangeClears
    PROVE  Spec => ImplementsService
<1>1. Init => Service!ServiceInit
  <2> SUFFICES ASSUME Init
               PROVE  Service!ServiceInit
    OBVIOUS
  <2>1. NotUpdating /\ Unharmed /\ snapshot = <<>> /\ tip = Genesis
    BY DEF Init, NotUpdating, LockedPcs, Unharmed
  <2> QED
    BY <2>1, Zenon DEF Service!ServiceInit
<1>2. IndexInv /\ IndexInv' /\ StateInv /\ [Next]_vars => [Service!ServiceNext]_(Service!serviceVars)
  BY ServiceStep, Zenon
<1> QED
  BY <1>1, <1>2, IndexInvariant, StateInvariant, PTL DEF Spec, ImplementsService, Service!ServiceSpec

\* No reader of tmp sees it change while it has it open, whatever the writers do.
THEOREM ReadersAreIsolated == Spec => ReadersSeeOneState
<1>1. Init => ReadExcludesWrite
  BY Zenon DEF Init, ReadExcludesWrite
<1>2. TypeOK /\ ReadExcludesWrite /\ [Next]_vars => ReadExcludesWrite'
  BY ReadExcludesWriteNext, Zenon
<1>3. ReadExcludesWrite /\ [Next]_vars =>
        [\A r \in Readers : rpc[r] = "reading" /\ rpc'[r] = "reading" => tmp' = tmp]_vars
  BY TmpStays, Zenon DEF vars
<1> QED
  BY <1>1, <1>2, <1>3, TypeCorrect, PTL DEF Spec, ReadersSeeOneState
=============================================================================
