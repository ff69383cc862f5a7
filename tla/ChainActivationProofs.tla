----------------------- MODULE ChainActivationProofs -----------------------
(***************************************************************************)
(* Theorems about ChainActivation: types, the undo data and the failure    *)
(* flags on disk.  The last part shows that the steps keep the invariant   *)
(* of the active chain, which ChainInvariantProofs uses.                   *)
(***************************************************************************)
EXTENDS ChainActivation, BlockTreeProofs

LEMMA NothingFailedYet ==
    Init => failedValid = {} /\ failedChild = {} /\ disk.failedValid = {} /\ disk.failedChild = {}
BY DEF Init

LEMMA OffChainPath ==
    ASSUME tip \in Block, NEW b \in Block
    PROVE  /\ OffChain(b) = Path(b) \ Path(tip)
           /\ Waypoints(b) \subseteq Path(tip) \cup Path(b)
<1>1. Path(b) \subseteq Block
  BY PathProperties
<1> QED
  BY <1>1, PathContains DEF OffChain, Waypoints

-----------------------------------------------------------------------------
(* What a step of ActivateBestChain and a write to disk do.                *)

DiskType ==
    [known : SUBSET Block, data : SUBSET Block, undo : SUBSET Block,
     failedValid : SUBSET Block, failedChild : SUBSET Block,
     bare : SUBSET Block, tip : Block]

LEMMA WrittenType ==
    ASSUME TypeOK, NEW d \in SUBSET Block, NEW und \in SUBSET Block,
           NEW fv \in SUBSET Block, NEW fc \in SUBSET Block, NEW coins \in Block
    PROVE  Written(d, und, fv, fc, coins) \in DiskType
<1>1. /\ disk \in DiskType /\ data \subseteq Block /\ bare \subseteq Block
  BY DEF TypeOK, DiskType
<1>2. \A old, new \in SUBSET Block : Merge(old, new, d) \in SUBSET Block
  BY DEF Merge
<1>3. /\ disk.known \cup d \in SUBSET Block
      /\ Merge(disk.data, data, d) \in SUBSET Block
      /\ Merge(disk.undo, und, d) \in SUBSET Block
      /\ Merge(disk.failedValid, fv, d) \in SUBSET Block
      /\ Merge(disk.failedChild, fc, d) \in SUBSET Block
      /\ Merge(disk.bare, bare, d) \in SUBSET Block
  BY <1>1, <1>2 DEF DiskType
<1> QED
  BY <1>3 DEF Written, DiskType

LEMMA CountType ==
    ASSUME TypeOK, NEW op \in {"invalidate", "reconsider", "precious", "flush", "restart"}
    PROVE  [count EXCEPT ![op] = @ + 1] \in
               [{"invalidate", "reconsider", "precious", "flush", "restart"} -> Nat]
BY DEF TypeOK

LEMMA CountInit ==
    [invalidate |-> 0, reconsider |-> 0, precious |-> 0, flush |-> 0, restart |-> 0]
        \in [{"invalidate", "reconsider", "precious", "flush", "restart"} -> Nat]
OBVIOUS

LEMMA CountTwice ==
    ASSUME NEW c \in [{"invalidate", "reconsider", "precious", "flush", "restart"} -> Nat], NEW d,
           d = [c EXCEPT !.invalidate = @ + 1, !.flush = @ + 1]
    PROVE  /\ d \in [{"invalidate", "reconsider", "precious", "flush", "restart"} -> Nat]
           /\ d["invalidate"] # 0 /\ d["reconsider"] = c["reconsider"]
<1> DEFINE ops == {"invalidate", "reconsider", "precious", "flush", "restart"}
<1>1. d = [op \in ops |-> IF op = "invalidate" \/ op = "flush" THEN c[op] + 1 ELSE c[op]]
  BY ZenonT(40)
<1>2. \A op \in ops : c[op] \in Nat /\ c[op] + 1 \in Nat /\ c[op] + 1 # 0
  OBVIOUS
<1> QED
  BY <1>1, <1>2

\* What Step amounts to.
StepEffect(t, most, cands, fc) ==
    \E rejected \in SUBSET (Invalid \cap Path(most)), next \in {most, NoBlock} :
        /\ tip' \in Path(most)
        /\ Path(tip') \cap OffChain(most) \cap Invalid = {}
        /\ candidates' \subseteq cands
        /\ undo' = undo \cup OffChain(tip')
        /\ failedValid' = failedValid \cup rejected
        /\ failedChild' = fc
        /\ FlushIfNeeded(tip', fc, rejected)
        /\ goal' = [goal EXCEPT ![t] = next]
        /\ pc' \in {pc, [pc EXCEPT ![t] = "idle"]}
        /\ UNCHANGED <<links, order>>

LEMMA StepDoes ==
    ASSUME tip \in Block, NEW t \in Threads, NEW most \in Block, NEW cands, NEW fc,
           Step(t, most, cands, fc)
    PROVE  StepEffect(t, most, cands, fc)
<1> DEFINE rejected(last) == {last} \cap Invalid \cap OffChain(most)
           new(last) == IF rejected(last) = {} THEN last ELSE Pprev(last)
           next(last) == NextGoal(most, rejected(last))
<1>1. PICK last \in Path(most) :
          /\ IsLast(most, last)
          /\ tip' = new(last)
          /\ candidates' = (IF Contains(tip, new(last)) THEN cands
                            ELSE Prune(cands, Order, new(last))) \ rejected(last)
          /\ undo' = undo \cup OffChain(new(last))
          /\ failedValid' = failedValid \cup rejected(last)
          /\ failedChild' = fc
          /\ FlushIfNeeded(new(last), fc, rejected(last))
          /\ IF new(last) = next(last)
             THEN Return(t)
             ELSE goal' = [goal EXCEPT ![t] = next(last)] /\ UNCHANGED pc
          /\ UNCHANGED <<links, order>>
  BY ZenonT(40) DEF Step
<1>2. last \in Block /\ Path(last) \subseteq Path(most) /\ last \in Path(last) /\ Path(most) \subseteq Block
  BY PathProperties, PathTransitive
<1>3. OffChain(most) = Path(most) \ Path(tip)
  BY OffChainPath
<1>4. Genesis \in Path(tip)
  BY PathProperties, Zenon
<1>5. ~Contains(tip, most) =>
          /\ last \in OffChain(most)
          /\ \A y \in OffChain(most) \cap Invalid : Height(last) <= Height(y)
  BY <1>1 DEF IsLast, Stops
<1>6. Contains(tip, most) => OffChain(most) = {}
  BY <1>3, PathContains, PathTransitive
<1>7. CASE rejected(last) = {}
  <2>1. new(last) = last /\ next(last) = most
    BY <1>7 DEF NextGoal
  <2>2. Path(last) \cap OffChain(most) \cap Invalid = {}
    <3> SUFFICES ASSUME NEW y \in Path(last) \cap OffChain(most) \cap Invalid
                 PROVE  FALSE
      OBVIOUS
    <3>1. last \in OffChain(most) /\ Height(last) <= Height(y)
      BY <1>5, <1>6
    <3>2. Height(y) \in 0..Height(last) /\ Height(last) \in Nat
      BY <1>2, PathProperties
    <3>3. Height(last) = Height(y)
      BY <3>1, <3>2
    <3>4. last = y
      BY <1>2, <3>3, PathHeight, Zenon
    <3> QED
      BY <1>7, <3>4
  <2>3. candidates' \subseteq cands
    BY <1>1 DEF Prune
  <2>4. \/ Return(t) /\ most = last
        \/ goal' = [goal EXCEPT ![t] = most] /\ UNCHANGED pc
    BY <1>1, <2>1
  <2>5. \E n \in {most, NoBlock} : /\ goal' = [goal EXCEPT ![t] = n]
                                  /\ pc' \in {pc, [pc EXCEPT ![t] = "idle"]}
    BY <2>4, Zenon DEF Return
  <2> HIDE DEF new, next
  <2> QED
    BY <1>1, <1>7, <2>1, <2>2, <2>3, <2>5, ZenonT(40) DEF StepEffect
<1>8. CASE rejected(last) # {}
  <2>1. new(last) = Pprev(last) /\ next(last) = NoBlock /\ last \in OffChain(most) \cap Invalid
    BY <1>8 DEF NextGoal
  <2>2. last # Genesis /\ ~Contains(tip, most)
    BY <1>3, <1>4, <1>6, <2>1
  <2>3. /\ Pprev(last) \in Path(last) /\ Height(Pprev(last)) < Height(last)
        /\ Pprev(last) \in Block /\ Height(last) \in Nat
    BY <1>2, <2>2, PathPprev, PathProperties
  <2>4. Path(Pprev(last)) \cap OffChain(most) \cap Invalid = {}
    <3> SUFFICES ASSUME NEW y \in Path(Pprev(last)) \cap OffChain(most) \cap Invalid
                 PROVE  FALSE
      OBVIOUS
    <3>1. Height(last) <= Height(y)
      BY <1>5, <2>2
    <3>2. Height(y) \in 0..Height(Pprev(last)) /\ Height(Pprev(last)) \in Nat
      BY <2>3, PathProperties, Zenon
    <3> QED
      BY <2>3, <3>1, <3>2
  <2>5. candidates' \subseteq cands
    BY <1>1 DEF Prune
  <2>6. /\ goal' = [goal EXCEPT ![t] = NoBlock]
        /\ pc' \in {pc, [pc EXCEPT ![t] = "idle"]}
    BY <1>1, <2>1 DEF Return
  <2>7. rejected(last) \in SUBSET (Invalid \cap Path(most))
    BY <1>3
  <2> HIDE DEF new, next, rejected
  <2> QED
    BY <1>1, <1>2, <2>1, <2>3, <2>4, <2>5, <2>6, <2>7, Zenon DEF StepEffect
<1> QED
  BY <1>7, <1>8

LEMMA MarkDoes ==
    ASSUME TypeOK, NEW passed \in SUBSET candidates, NEW x \in Mark(passed)
    PROVE  \/ x \in failedChild
           \/ \E c \in passed : /\ x \in Path(c)
                               /\ \A y \in Broken(c) : y \in Path(c) /\ Height(x) > Height(y)
BY DEF Mark, MarkFrom, Broken, OffChain

LEMMA MarkType ==
    ASSUME TypeOK, NEW passed \in SUBSET candidates
    PROVE  Mark(passed) \subseteq Block /\ Erase(passed) \subseteq candidates
<1>1. failedChild \subseteq Block /\ candidates \subseteq Block
  BY DEF TypeOK
<1>2. \A c \in passed : Path(c) \subseteq Block
  BY <1>1, PathProperties
<1>3. Mark(passed) \subseteq Block
  BY <1>1, <1>2, MarkDoes
<1> QED
  BY <1>3 DEF Erase

\* How the files on disk, the dirty entries and the counters change.
Flushed(d, und, fv, fc, coins) ==
    /\ count' = [count EXCEPT !["flush"] = @ + 1]
    /\ disk' = Written(d, und, fv, fc, coins)

\* What FlushIfNeeded amounts to.
FlushEffect(new, fc, rejected) ==
    \/ /\ dirty' = dirty \cup Fresh(new, fc) \cup rejected
       /\ UNCHANGED <<disk, count>>
    \/ \E coins \in Block :
        LET done == Fresh(new, fc) \cap Path(coins) IN
        /\ coins \in Path(tip) \cup Path(new)
        /\ Flushed(dirty \cup done, undo \cup done, failedValid, fc, coins)
        /\ dirty' = (Fresh(new, fc) \ done) \cup rejected

LEMMA FlushDoes ==
    ASSUME tip \in Block, NEW new \in Block, NEW fc, NEW rejected,
           FlushIfNeeded(new, fc, rejected)
    PROVE  FlushEffect(new, fc, rejected)
<1>1. Waypoints(new) \subseteq Path(tip) \cup Path(new)
  BY OffChainPath
<1>2. Path(tip) \subseteq Block /\ Path(new) \subseteq Block
  BY PathProperties
<1> QED
  BY <1>1, <1>2, ZenonT(40) DEF FlushIfNeeded, Flushed, Bounded, FlushEffect

LEMMA FlushType ==
    ASSUME TypeOK, NEW new \in Block, NEW fc \in SUBSET Block, NEW rejected \in SUBSET Block,
           FlushIfNeeded(new, fc, rejected)
    PROVE  /\ dirty' \subseteq Block
           /\ disk' \in DiskType
           /\ count' \in [{"invalidate", "reconsider", "precious", "flush", "restart"} -> Nat]
           /\ count'.invalidate = count.invalidate
           /\ count'.reconsider = count.reconsider
<1>1. /\ tip \in Block /\ dirty \subseteq Block /\ undo \subseteq Block
      /\ failedValid \subseteq Block /\ disk \in DiskType
      /\ count \in [{"invalidate", "reconsider", "precious", "flush", "restart"} -> Nat]
  BY DEF TypeOK, DiskType
<1>2. Fresh(new, fc) \subseteq Block
  BY PathProperties DEF Fresh, OffChain
<1>3. CASE dirty' = dirty \cup Fresh(new, fc) \cup rejected /\ UNCHANGED <<disk, count>>
  BY <1>1, <1>2, <1>3, Zenon
<1>4. CASE ~(dirty' = dirty \cup Fresh(new, fc) \cup rejected /\ UNCHANGED <<disk, count>>)
  <2>0. FlushEffect(new, fc, rejected)
    BY <1>1, FlushDoes
  <2>1. PICK coins \in Block, done \in SUBSET Block :
               /\ Flushed(dirty \cup done, undo \cup done, failedValid, fc, coins)
               /\ dirty' = (Fresh(new, fc) \ done) \cup rejected
    BY <1>2, <1>4, <2>0, ZenonT(40) DEF FlushEffect
  <2>2. disk' \in DiskType
    BY <1>1, <2>1, WrittenType, Zenon DEF Flushed
  <2>3. count' \in [{"invalidate", "reconsider", "precious", "flush", "restart"} -> Nat]
    BY <2>1, CountType DEF Flushed
  <2>4. count'.invalidate = count.invalidate /\ count'.reconsider = count.reconsider
    BY <1>1, <2>1, Zenon DEF Flushed
  <2> QED
    BY <1>2, <2>1, <2>2, <2>3, <2>4, Zenon
<1> QED
  BY <1>3, <1>4, Zenon
-----------------------------------------------------------------------------
(* Type correctness.                                                       *)

LEMMA TypeStep ==
    ASSUME TypeOK, NEW t \in Threads, NEW most \in Block, NEW cands \in SUBSET Block,
           NEW fc \in SUBSET Block, StepEffect(t, most, cands, fc)
    PROVE  TypeOK'
<1>1. PICK rejected \in SUBSET (Invalid \cap Path(most)), next \in {most, NoBlock} :
        /\ tip' \in Path(most)
        /\ candidates' \subseteq cands
        /\ undo' = undo \cup OffChain(tip')
        /\ failedValid' = failedValid \cup rejected
        /\ failedChild' = fc
        /\ FlushIfNeeded(tip', fc, rejected)
        /\ goal' = [goal EXCEPT ![t] = next]
        /\ pc' \in {pc, [pc EXCEPT ![t] = "idle"]}
        /\ UNCHANGED <<links, order>>
  BY ZenonT(40) DEF StepEffect
<1>2. Path(most) \subseteq Block
  BY PathProperties, Zenon
<1>3. tip' \in Block /\ OffChain(tip') \subseteq Block /\ rejected \in SUBSET Block
  BY <1>1, <1>2, PathProperties, Zenon DEF OffChain
<1>4. /\ dirty' \subseteq Block /\ disk' \in DiskType
      /\ count' \in [{"invalidate", "reconsider", "precious", "flush", "restart"} -> Nat]
  BY <1>1, <1>3, FlushType, Zenon
<1>5. /\ candidates' \subseteq Block /\ undo' \subseteq Block /\ failedValid' \subseteq Block
      /\ failedChild' \subseteq Block
  BY <1>1, <1>3, Zenon DEF TypeOK
<1>6. /\ goal' \in [Threads -> Block \cup {NoBlock}]
      /\ pc' \in [Threads -> {"idle", "loop"}]
  BY <1>1 DEF TypeOK
<1> QED
  BY <1>1, <1>3, <1>4, <1>5, <1>6 DEF TypeOK, DiskType, links, order

LEMMA TypeFindAndStep ==
    ASSUME TypeOK, NEW t \in Threads, FindAndStep(t)
    PROVE  /\ TypeOK'
           /\ \E most \in candidates :
                 /\ most \in Block
                 /\ BetterThan(most) \subseteq candidates
                 /\ \A c \in BetterThan(most) : ~Usable(c)
                 /\ Mark(BetterThan(most)) \subseteq Block
                 /\ Usable(most)
                 /\ StepEffect(t, most, candidates, Mark(BetterThan(most)))
<1>1. PICK most \in candidates :
        IsMostWork(most) /\ Step(t, most, Erase(BetterThan(most)), Mark(BetterThan(most)))
  BY DEF FindAndStep
<1>2. candidates \subseteq Block /\ tip \in Block
  BY DEF TypeOK
<1>3. BetterThan(most) \subseteq candidates /\ \A c \in BetterThan(most) : ~Usable(c)
  BY DEF BetterThan
<1>4. Mark(BetterThan(most)) \subseteq Block /\ Erase(BetterThan(most)) \subseteq candidates
  BY <1>3, MarkType
<1>5. StepEffect(t, most, Erase(BetterThan(most)), Mark(BetterThan(most)))
  BY <1>1, <1>2, StepDoes
<1>6. StepEffect(t, most, candidates, Mark(BetterThan(most)))
  BY <1>4, <1>5, ZenonT(40) DEF StepEffect
<1>7. TypeOK'
  BY <1>2, <1>4, <1>6, TypeStep
<1> QED
  BY <1>1, <1>2, <1>3, <1>4, <1>6, <1>7, Zenon DEF IsMostWork

LEMMA TypeStepAgain ==
    ASSUME TypeOK, NEW t \in Threads, StepAgain(t)
    PROVE  TypeOK' /\ goal[t] \in Block /\ StepEffect(t, goal[t], candidates, failedChild)
<1>1. /\ candidates \subseteq Block /\ tip \in Block /\ failedChild \subseteq Block
      /\ goal[t] \in Block \cup {NoBlock}
  BY Zenon DEF TypeOK
<1>2. goal[t] \in Block
  BY <1>1 DEF StepAgain
<1>3. StepEffect(t, goal[t], candidates, failedChild)
  BY <1>1, <1>2, StepDoes, Zenon DEF StepAgain
<1> QED
  BY <1>1, <1>2, <1>3, TypeStep

LEMMA TypeHeader ==
    ASSUME TypeOK, NEW b \in Block, AcceptBlockHeader(b)
    PROVE  TypeOK'
BY DEF TypeOK, AcceptBlockHeader, flags, order, threads

LEMMA LinkedWithType ==
    ASSUME TypeOK, NEW b \in Block
    PROVE  /\ LinkedWith(b) \subseteq Block
           /\ Cardinality(LinkedWith(b)) \in Nat
<1>1. LinkedWith(b) \subseteq Block
  BY DEF TypeOK, LinkedWith
<1> QED
  BY <1>1, ChainAssumption

LEMMA TypeReceived ==
    ASSUME TypeOK, NEW b \in Block, ReceivedBlockTransactions(b)
    PROVE  /\ data' \subseteq Block /\ linked' \subseteq Block /\ unlinked' \subseteq Block
           /\ candidates' \subseteq Block /\ bare' \subseteq Block
           /\ seqId' \in [Block -> Int] /\ \A x \in Block : seqId'[x] >= MinSequenceId
           /\ nextSeq' \in Nat \ {0} /\ reverseSeq' \in MinSequenceId..(-1) /\ lastPrecious' \in Nat
<1>1. /\ data \subseteq Block /\ linked \subseteq Block /\ unlinked \subseteq Block
      /\ candidates \subseteq Block /\ bare \subseteq Block
      /\ seqId \in [Block -> Int] /\ (\A x \in Block : seqId[x] >= MinSequenceId)
      /\ nextSeq \in Nat \ {0} /\ reverseSeq \in MinSequenceId..(-1) /\ lastPrecious \in Nat
  BY DEF TypeOK
<1>2. LinkedWith(b) \subseteq Block /\ Cardinality(LinkedWith(b)) \in Nat
  BY LinkedWithType
<1>3. /\ data' = data \cup {b} /\ UNCHANGED <<bare, reverseSeq, lastPrecious>>
  BY DEF ReceivedBlockTransactions
<1>4. CASE Pprev(b) \in linked
  <2>1. /\ linked' = linked \cup LinkedWith(b)
        /\ unlinked' = unlinked \ LinkedWith(b)
        /\ nextSeq' = nextSeq + Cardinality(LinkedWith(b))
        /\ candidates' \subseteq candidates \cup LinkedWith(b)
    BY <1>4 DEF ReceivedBlockTransactions
  <2>2. PICK rank \in QueueOrders(LinkedWith(b)) :
            seqId' = [x \in Block |-> IF x \in LinkedWith(b) THEN nextSeq + rank[x] - 1
                                     ELSE seqId[x]]
    BY <1>4 DEF ReceivedBlockTransactions
  <2>3. rank \in [LinkedWith(b) -> 1..Cardinality(LinkedWith(b))]
    BY DEF QueueOrders
  <2>4. \A x \in LinkedWith(b) : nextSeq + rank[x] - 1 \in Nat
    BY <1>1, <1>2, <2>3
  <2>5. \A x \in Block : seqId'[x] \in Int /\ seqId'[x] >= MinSequenceId
    BY <1>1, <2>2, <2>4, ChainAssumption
  <2>6. nextSeq' \in Nat \ {0}
    BY <1>1, <1>2, <2>1
  <2>7. seqId' \in [Block -> Int]
    BY <2>2, <2>5
  <2> QED
    BY <1>1, <1>2, <1>3, <2>1, <2>5, <2>6, <2>7
<1>5. CASE Pprev(b) \notin linked
  <2>1. unlinked' = Wait(b) /\ UNCHANGED <<linked, seqId, nextSeq, candidates>>
    BY <1>5, Zenon DEF ReceivedBlockTransactions
  <2> QED
    BY <1>1, <1>3, <2>1 DEF Wait
<1> QED
  BY <1>4, <1>5

LEMMA TypeProcess ==
    ASSUME TypeOK, NEW t \in Threads, NEW b \in Block, NEW requested, ProcessNewBlock(t, b, requested)
    PROVE  TypeOK'
<1>1. known' = known \cup {b} /\ UNCHANGED <<undo, tip, disk, count>>
  BY Zenon DEF ProcessNewBlock
<1>2. CASE /\ ReceivedBlockTransactions(b) /\ dirty' = dirty \cup {b}
           /\ CallActivateBestChain(t) /\ UNCHANGED flags
  <2>1. pc' \in [Threads -> {"idle", "loop"}] /\ goal' \in [Threads -> Block \cup {NoBlock}]
    BY <1>2, Zenon DEF CallActivateBestChain, TypeOK
  <2> QED
    BY <1>1, <1>2, <2>1, TypeReceived DEF TypeOK, flags
<1>3. CASE /\ failedValid' = failedValid \cup {b} /\ dirty' = dirty \cup {b}
           /\ UNCHANGED <<failedChild, data, linked, unlinked, candidates, order, threads>>
  BY <1>1, <1>3, Zenon DEF TypeOK, order, threads
<1>4. CASE /\ dirty' = (IF b \in known THEN dirty ELSE dirty \cup {b})
           /\ CallActivateBestChain(t)
           /\ UNCHANGED <<flags, data, linked, unlinked, candidates, order>>
  <2>1. pc' \in [Threads -> {"idle", "loop"}] /\ goal' \in [Threads -> Block \cup {NoBlock}]
    BY <1>4, Zenon DEF CallActivateBestChain, TypeOK
  <2> QED
    BY <1>1, <1>4, <2>1, Zenon DEF TypeOK, flags, order
<1> QED
  BY <1>2, <1>3, <1>4, Zenon DEF ProcessNewBlock

\* What NothingToDo amounts to.
LEMMA TypeNothing ==
    ASSUME TypeOK, NEW t \in Threads, NothingToDo(t)
    PROVE  /\ TypeOK'
           /\ candidates' \subseteq candidates
           /\ goal' = [goal EXCEPT ![t] = NoBlock]
           /\ UNCHANGED <<failedValid, links, undo, order, tip, dirty, disk, count>>
           /\ \/ UNCHANGED failedChild
              \/ \E passed \in SUBSET candidates :
                    /\ failedChild' = Mark(passed)
                    /\ \A c \in passed : ~Usable(c)
<1>1. UNCHANGED <<failedValid, links, undo, order, tip, dirty, disk, count>> /\ Return(t)
  BY ZenonT(40) DEF NothingToDo
<1>2. CASE UNCHANGED <<candidates, failedChild>>
  BY <1>1, <1>2 DEF TypeOK, links, order, Return
<1>3. CASE \E passed \in SUBSET candidates :
               /\ candidates' = Erase(passed) /\ failedChild' = Mark(passed)
               /\ \A c \in passed : ~Usable(c)
  <2>1. failedChild' \subseteq Block /\ candidates' \subseteq candidates
    BY <1>3, MarkType, Zenon
  <2>2. TypeOK'
    BY <1>1, <2>1 DEF TypeOK, links, order, Return
  <2> QED
    BY <1>1, <1>3, <2>1, <2>2 DEF Return
<1>4. BetterThan(tip) \subseteq candidates /\ \A c \in BetterThan(tip) : ~Usable(c)
  BY Zenon DEF BetterThan
<1>5. \/ candidates' = Erase(BetterThan(tip)) /\ failedChild' = Mark(BetterThan(tip))
      \/ /\ candidates' = Erase(candidates) /\ failedChild' = Mark(candidates)
         /\ \A c \in candidates : ~Usable(c)
      \/ UNCHANGED <<candidates, failedChild>>
  BY DEF NothingToDo
<1>6. CASE candidates' = Erase(BetterThan(tip)) /\ failedChild' = Mark(BetterThan(tip))
  BY <1>3, <1>4, <1>6
<1>7. CASE /\ candidates' = Erase(candidates) /\ failedChild' = Mark(candidates)
           /\ \A c \in candidates : ~Usable(c)
  BY <1>3, <1>7
<1> QED
  BY <1>2, <1>5, <1>6, <1>7

\* What InvalidateBlock amounts to.
InvalidateEffect(t, b) ==
    \E walked \in SUBSET Path(tip), d \in SUBSET Block, fc \in SUBSET Block, coins \in Path(tip) :
        /\ failedValid' = failedValid \cup {b}
        /\ failedChild' = failedChild \cup walked
        /\ tip' \in Path(tip)
        /\ candidates' \subseteq candidates \cup linked
        /\ \/ dirty' = dirty \cup {b} \cup walked /\ UNCHANGED disk
           \/ /\ disk' = Written(d, undo, failedValid', fc, coins)
              /\ dirty \subseteq d /\ b \in d /\ dirty' \subseteq walked
              /\ fc \subseteq failedChild \cup walked
        /\ count' \in [{"invalidate", "reconsider", "precious", "flush", "restart"} -> Nat]
        /\ count'["invalidate"] # 0
        /\ count'["reconsider"] = count["reconsider"]
        /\ goal' = [goal EXCEPT ![t] = NoBlock]
        /\ pc' = [pc EXCEPT ![t] = "loop"]
        /\ UNCHANGED <<links, undo, order>>
        /\ \A x \in walked : b \in Path(x)

LEMMA InvalidateDoes ==
    ASSUME TypeOK, NEW t \in Threads, NEW b \in Block, InvalidateBlock(t, b)
    PROVE  InvalidateEffect(t, b)
<1> DEFINE walked == IF Contains(tip, b) THEN Branch(tip, Height(b)) ELSE {}
           new == IF Contains(tip, b) THEN Pprev(b) ELSE tip
           fv == failedValid \cup {b}
           fc == failedChild \cup walked
           left(coins) == {x \in walked : Height(x) > Height(coins)}
<1>1. /\ b # Genesis
      /\ failedValid' = fv
      /\ failedChild' = fc
      /\ tip' = new
      /\ candidates' = (candidates \ ({b} \cup walked)) \cup Reinserted(fv, fc, new)
      /\ CallActivateBestChain(t)
      /\ UNCHANGED <<links, undo, order>>
  BY DEF InvalidateBlock
<1>2. \/ /\ dirty' = dirty \cup {b} \cup walked
         /\ count' = [count EXCEPT !.invalidate = @ + 1]
         /\ UNCHANGED disk
      \/ \E coins \in Waypoints(new) :
         /\ count' = [count EXCEPT !.invalidate = @ + 1, !.flush = @ + 1]
         /\ disk' = Written(dirty \cup {b} \cup left(coins), undo, fv, failedChild \cup left(coins), coins)
         /\ dirty' = walked \ left(coins)
  BY ZenonT(40) DEF InvalidateBlock
<1>3. /\ tip \in Block /\ dirty \subseteq Block /\ failedChild \subseteq Block
      /\ count \in [{"invalidate", "reconsider", "precious", "flush", "restart"} -> Nat]
  BY DEF TypeOK
<1>4. Path(tip) \subseteq Block /\ tip \in Path(tip) /\ Height(b) \in Nat /\ Height(tip) \in Nat
  BY <1>3, PathProperties
<1>5. walked \subseteq Path(tip)
  <2>1. \A h \in Height(b)..Height(tip) : h \in 0..Height(tip)
    BY <1>4
  <2> QED
    BY <2>1 DEF Path, Branch
<1>6. new \in Path(tip)
  <2>1. CASE Contains(tip, b)
    <3>1. b \in Path(tip)
      BY <1>3, <2>1, PathContains, Zenon
    <3>2. Pprev(b) \in Block /\ Pprev(b) \in Path(Pprev(b)) /\ Path(b) = Path(Pprev(b)) \cup {b}
      BY <1>1, PathPprev, PathProperties
    <3>3. Path(b) \subseteq Path(tip)
      BY <1>3, <3>1, PathTransitive, Zenon
    <3> QED
      BY <2>1, <3>2, <3>3
  <2> QED
    BY <1>4, <2>1
<1>7. new \in Block /\ Path(new) \subseteq Path(tip)
  BY <1>3, <1>4, <1>6, PathTransitive, Zenon
<1>8. Waypoints(new) \subseteq Path(tip)
  <2> HIDE DEF new
  <2> QED
    BY <1>3, <1>7, OffChainPath, Zenon
<1>9. candidates' \subseteq candidates \cup linked
  BY <1>1 DEF Reinserted
<1>10. \A x \in walked : b \in Path(x)
  <2> SUFFICES ASSUME NEW x \in walked, Contains(tip, b) PROVE b \in Path(x)
    OBVIOUS
  <2>1. b \in Path(tip) /\ x \in Path(tip)
    BY <1>3, <1>5, PathContains
  <2>2. PICK h \in Height(b)..Height(tip) : x = Ancestor(tip, h)
    BY DEF Branch
  <2>3. Height(x) = h /\ Height(b) <= Height(x)
    BY <1>3, <1>4, <2>2, AncestorProperties
  <2> HIDE DEF walked
  <2> QED
    BY <1>3, <2>1, <2>3, PathOrder, Zenon
<1> DEFINE rest == /\ \A x \in walked : b \in Path(x)
                   /\ failedValid' = failedValid \cup {b}
                   /\ failedChild' = failedChild \cup walked
                   /\ tip' \in Path(tip)
                   /\ candidates' \subseteq candidates \cup linked
                   /\ goal' = [goal EXCEPT ![t] = NoBlock]
                   /\ pc' = [pc EXCEPT ![t] = "loop"]
                   /\ UNCHANGED <<links, undo, order>>
<1>11. rest
  BY <1>1, <1>6, <1>9, <1>10, ZenonT(40) DEF CallActivateBestChain
<1>12. CASE /\ dirty' = dirty \cup {b} \cup walked
            /\ count' = [count EXCEPT !.invalidate = @ + 1]
            /\ UNCHANGED disk
  <2>1. /\ count' \in [{"invalidate", "reconsider", "precious", "flush", "restart"} -> Nat]
        /\ count'["invalidate"] # 0 /\ count'["reconsider"] = count["reconsider"]
    BY <1>3, <1>12
  <2> HIDE DEF walked, new
  <2> QED
    BY <1>4, <1>5, <1>11, <1>12, <2>1, Zenon DEF InvalidateEffect
<1>13. ASSUME NEW coins \in Waypoints(new),
              count' = [count EXCEPT !.invalidate = @ + 1, !.flush = @ + 1],
              disk' = Written(dirty \cup {b} \cup left(coins), undo, fv, failedChild \cup left(coins), coins),
              dirty' = walked \ left(coins)
       PROVE  InvalidateEffect(t, b)
  <2>1. /\ count' \in [{"invalidate", "reconsider", "precious", "flush", "restart"} -> Nat]
        /\ count'["invalidate"] # 0 /\ count'["reconsider"] = count["reconsider"]
    BY <1>3, <1>13, CountTwice, ZenonT(40)
  <2>2. /\ dirty \cup {b} \cup left(coins) \in SUBSET Block
        /\ failedChild \cup left(coins) \in SUBSET Block
        /\ failedChild \cup left(coins) \subseteq failedChild \cup walked
    BY <1>3, <1>4, <1>5
  <2>3. coins \in Path(tip) /\ dirty' \subseteq walked
    BY <1>8, <1>13
  <2> HIDE DEF walked, new, left
  <2> QED
    BY <1>5, <1>11, <1>13, <2>1, <2>2, <2>3 DEF InvalidateEffect
<1> QED
  BY <1>2, <1>12, <1>13, ZenonT(40)

LEMMA TypeInvalidate ==
    ASSUME TypeOK, NEW t \in Threads, NEW b \in Block, InvalidateEffect(t, b)
    PROVE  TypeOK'
<1>1. PICK walked \in SUBSET Path(tip), d \in SUBSET Block, fc \in SUBSET Block, coins \in Path(tip) :
        /\ failedValid' = failedValid \cup {b}
        /\ failedChild' = failedChild \cup walked
        /\ tip' \in Path(tip)
        /\ candidates' \subseteq candidates \cup linked
        /\ \/ dirty' = dirty \cup {b} \cup walked /\ UNCHANGED disk
           \/ /\ disk' = Written(d, undo, failedValid', fc, coins)
              /\ dirty \subseteq d /\ dirty' \subseteq walked
        /\ count' \in [{"invalidate", "reconsider", "precious", "flush", "restart"} -> Nat]
        /\ goal' = [goal EXCEPT ![t] = NoBlock]
        /\ pc' = [pc EXCEPT ![t] = "loop"]
        /\ UNCHANGED <<links, undo, order>>
  BY ZenonT(40) DEF InvalidateEffect
<1>2. Path(tip) \subseteq Block
  BY PathProperties DEF TypeOK
<1>3. /\ failedValid' \subseteq Block /\ failedChild' \subseteq Block /\ tip' \in Block
      /\ candidates' \subseteq Block /\ dirty' \subseteq Block /\ undo \subseteq Block
  BY <1>1, <1>2 DEF TypeOK
<1>4. disk' \in DiskType
  <2>1. disk \in DiskType
    BY DEF TypeOK, DiskType
  <2> QED
    BY <1>1, <1>2, <1>3, <2>1, WrittenType
<1>5. pc' \in [Threads -> {"idle", "loop"}] /\ goal' \in [Threads -> Block \cup {NoBlock}]
  BY <1>1, Zenon DEF TypeOK
<1> QED
  BY <1>1, <1>3, <1>4, <1>5 DEF TypeOK, DiskType, links, order

LEMMA TypeReset ==
    ASSUME TypeOK, NEW t \in Threads, NEW b \in Block, ResetBlockFailureFlags(t, b)
    PROVE  TypeOK'
<1>1. Path(b) \subseteq Block
  BY PathProperties, Zenon
<1>2. /\ failedValid' \subseteq failedValid /\ failedChild' \subseteq failedChild
      /\ candidates' \subseteq candidates \cup linked
      /\ dirty' \subseteq dirty \cup known \cup Path(b)
      /\ CallActivateBestChain(t)
      /\ count' = [count EXCEPT !["reconsider"] = @ + 1]
      /\ UNCHANGED <<links, undo, order, tip, disk>>
  BY Zenon DEF ResetBlockFailureFlags, Bounded
<1>3. pc' \in [Threads -> {"idle", "loop"}] /\ goal' \in [Threads -> Block \cup {NoBlock}]
  BY <1>2 DEF TypeOK, CallActivateBestChain
<1>4. count' \in [{"invalidate", "reconsider", "precious", "flush", "restart"} -> Nat]
  BY <1>2, CountType, Zenon
<1> QED
  BY <1>1, <1>2, <1>3, <1>4, Zenon DEF TypeOK, links, order

LEMMA TypePrecious ==
    ASSUME TypeOK, NEW t \in Threads, NEW b \in Block, PreciousBlock(t, b)
    PROVE  TypeOK'
<1>1. /\ lastPrecious' = Work[tip]
      /\ seqId' = [seqId EXCEPT ![b] = ReverseId]
      /\ reverseSeq' = DecrementId(ReverseId)
      /\ candidates' \subseteq candidates \cup linked
      /\ CallActivateBestChain(t)
      /\ count' = [count EXCEPT !["precious"] = @ + 1]
      /\ UNCHANGED <<flags, links, undo, bare, nextSeq, tip, dirty, disk>>
  BY DEF PreciousBlock, Bounded, Prune
<1>2. ReverseId \in MinSequenceId..(-1)
  <2>1. reverseSeq \in MinSequenceId..(-1)
    BY Zenon DEF TypeOK
  <2> QED
    BY <2>1, ChainAssumption DEF ReverseId
<1>3. reverseSeq' \in MinSequenceId..(-1)
  BY <1>1, <1>2, ChainAssumption DEF DecrementId
<1>4. seqId' \in [Block -> Int] /\ \A x \in Block : seqId'[x] >= MinSequenceId
  BY <1>1, <1>2, ChainAssumption DEF TypeOK
<1>5. lastPrecious' \in Nat
  BY <1>1, OrderAssumption, ZenonT(40) DEF TypeOK
<1>6. pc' \in [Threads -> {"idle", "loop"}] /\ goal' \in [Threads -> Block \cup {NoBlock}]
  BY <1>1 DEF TypeOK, CallActivateBestChain
<1>7. count' \in [{"invalidate", "reconsider", "precious", "flush", "restart"} -> Nat]
  BY <1>1, CountType, Zenon
<1> QED
  BY <1>1, <1>3, <1>4, <1>5, <1>6, <1>7, Zenon DEF TypeOK, links, flags

\* What FlushStateToDisk amounts to.
LEMMA TypeFlush ==
    ASSUME TypeOK, FlushStateToDisk
    PROVE  /\ TypeOK'
           /\ \E coins \in {disk.tip, tip} :
                 Flushed(dirty, undo, failedValid, failedChild, coins)
           /\ dirty' = {}
           /\ count'.invalidate = count.invalidate /\ count'.reconsider = count.reconsider
           /\ UNCHANGED <<flags, links, undo, candidates, order, tip, threads>>
<1>1. PICK coins \in {disk.tip, tip} : Flushed(dirty, undo, failedValid, failedChild, coins)
  BY DEF FlushStateToDisk, Bounded, Flushed
<1>2. dirty' = {} /\ UNCHANGED <<flags, links, undo, candidates, order, tip, threads>>
  BY Zenon DEF FlushStateToDisk
<1>3. /\ tip \in Block /\ disk.tip \in Block /\ dirty \subseteq Block /\ undo \subseteq Block
      /\ failedValid \subseteq Block /\ failedChild \subseteq Block
      /\ count \in [{"invalidate", "reconsider", "precious", "flush", "restart"} -> Nat]
  BY DEF TypeOK
<1>4. disk' \in DiskType
  BY <1>1, <1>3, WrittenType DEF Flushed
<1>5. count' \in [{"invalidate", "reconsider", "precious", "flush", "restart"} -> Nat]
  BY <1>1, CountType, Zenon DEF Flushed
<1>6. count'.invalidate = count.invalidate /\ count'.reconsider = count.reconsider
  BY <1>1, <1>3, Zenon DEF Flushed
<1>7. TypeOK'
  BY <1>2, <1>4, <1>5, Zenon DEF TypeOK, DiskType, flags, links, order, threads
<1> QED
  BY <1>1, <1>2, <1>6, <1>7, Zenon

LEMMA TypeRestart ==
    ASSUME TypeOK, NEW t \in Threads, Restart(t)
    PROVE  /\ TypeOK'
           /\ count'.invalidate = count.invalidate /\ count'.reconsider = count.reconsider
<1>1. /\ known' = disk.known /\ data' = disk.data /\ undo' = disk.undo /\ bare' = LoadBare
      /\ failedValid' = disk.failedValid /\ failedChild' = disk.failedChild
      /\ linked' = LoadLinked(disk.data) /\ unlinked' = LoadUnlinked(disk.data)
      /\ tip' = disk.tip
      /\ candidates' \subseteq LoadLinked(disk.data)
      /\ dirty' = {} /\ UNCHANGED disk
  BY ZenonT(40) DEF Restart, Prune, LoadCandidates
<1>2. /\ disk.known \subseteq Block /\ disk.data \subseteq Block /\ disk.undo \subseteq Block
      /\ disk.failedValid \subseteq Block /\ disk.failedChild \subseteq Block /\ disk.tip \in Block
      /\ count \in [{"invalidate", "reconsider", "precious", "flush", "restart"} -> Nat]
  BY DEF TypeOK
<1>3. /\ seqId' = [b \in Block |-> 0] /\ nextSeq' = 1 /\ reverseSeq' = -1 /\ lastPrecious' = 0
  BY ZenonT(40) DEF Restart
<1>4. /\ seqId' \in [Block -> Int] /\ (\A x \in Block : seqId'[x] >= MinSequenceId)
      /\ nextSeq' \in Nat \ {0} /\ reverseSeq' \in MinSequenceId..(-1) /\ lastPrecious' \in Nat
  BY <1>3, ChainAssumption
<1>5. /\ bare' \subseteq Block /\ linked' \subseteq Block /\ unlinked' \subseteq Block
      /\ candidates' \subseteq Block
  BY <1>1, <1>2, Zenon DEF LoadBare, LoadLinked, LoadUnlinked
<1>6. pc' \in [Threads -> {"idle", "loop"}] /\ goal' \in [Threads -> Block \cup {NoBlock}]
  BY Zenon DEF Restart
<1>7. count' = [count EXCEPT !["restart"] = @ + 1]
  BY DEF Restart, Bounded
<1>8. count' \in [{"invalidate", "reconsider", "precious", "flush", "restart"} -> Nat]
  BY <1>7, CountType
<1>9. count'.invalidate = count.invalidate /\ count'.reconsider = count.reconsider
  BY <1>2, <1>7, Zenon
<1> QED
  BY <1>1, <1>2, <1>4, <1>5, <1>6, <1>8, <1>9, Zenon DEF TypeOK

LEMMA TypeInit == Init => TypeOK
<1> SUFFICES ASSUME Init PROVE TypeOK
  OBVIOUS
<1>1. Genesis \in Block
  BY PathGenesis
<1>2. disk \in DiskType /\ disk.tip \in Block
  BY <1>1, ZenonT(40) DEF Init, DiskType
<1>3. seqId \in [Block -> Int] /\ \A b \in Block : seqId[b] >= MinSequenceId
  BY ChainAssumption DEF Init
<1>4. count \in [{"invalidate", "reconsider", "precious", "flush", "restart"} -> Nat]
  <2>1. count = [invalidate |-> 0, reconsider |-> 0, precious |-> 0, flush |-> 0, restart |-> 0]
    BY Zenon DEF Init
  <2> QED
    BY <2>1, CountInit, ZenonT(40)
<1>5. /\ nextSeq \in Nat \ {0} /\ reverseSeq \in MinSequenceId..(-1) /\ lastPrecious \in Nat
  BY ChainAssumption DEF Init
<1> QED
  BY <1>1, <1>2, <1>3, <1>4, <1>5, ZenonT(40) DEF Init, TypeOK, DiskType

\* Every variable of the block index keeps its type in every reachable state, whatever the
\* block tree and the bounds; in particular PreciousBlock's counter never leaves an int32_t.
THEOREM ChainTypeCorrect == Spec => []TypeOK
<1>1. Init => TypeOK
  BY TypeInit, Zenon
<1>2. TypeOK /\ [Next]_vars => TypeOK'
  <2> SUFFICES ASSUME TypeOK, [Next]_vars PROVE TypeOK'
    OBVIOUS
  <2>1. CASE UNCHANGED vars
    BY <2>1 DEF vars, TypeOK, flags, links, order, threads
  <2>2. CASE \E b \in Block : AcceptBlockHeader(b)
    BY <2>2, TypeHeader
  <2>3. CASE \E t \in Threads, b \in Block, requested \in BOOLEAN : ProcessNewBlock(t, b, requested)
    BY <2>3, TypeProcess
  <2>4. CASE \E t \in Threads : FindAndStep(t)
    BY <2>4, TypeFindAndStep
  <2>5. CASE \E t \in Threads : StepAgain(t)
    BY <2>5, TypeStepAgain
  <2>6. CASE \E t \in Threads : NothingToDo(t)
    BY <2>6, TypeNothing
  <2>7. CASE \E t \in Threads, b \in Block : InvalidateBlock(t, b)
    BY <2>7, InvalidateDoes, TypeInvalidate
  <2>8. CASE \E t \in Threads, b \in Block : ResetBlockFailureFlags(t, b)
    BY <2>8, TypeReset
  <2>9. CASE \E t \in Threads, b \in Block : PreciousBlock(t, b)
    BY <2>9, TypePrecious, Zenon
  <2>10. CASE FlushStateToDisk
    BY <2>10, TypeFlush
  <2>11. CASE \E t \in Threads : Restart(t)
    BY <2>11, TypeRestart, Zenon
  <2> QED
    BY <2>1, <2>2, <2>3, <2>4, <2>5, <2>6, <2>7, <2>8, <2>9, <2>10, <2>11, Zenon DEF Next
<1> QED
  BY <1>1, <1>2, PTL DEF Spec

-----------------------------------------------------------------------------
(* A write of the block index.                                             *)

LEMMA WrittenFields ==
    ASSUME NEW d, NEW und, NEW fv, NEW fc, NEW coins, NEW w, w = Written(d, und, fv, fc, coins)
    PROVE  /\ w.known = disk.known \cup d
           /\ w.data = (disk.data \ d) \cup (data \cap d)
           /\ w.undo = (disk.undo \ d) \cup (und \cap d)
           /\ w.failedValid = (disk.failedValid \ d) \cup (fv \cap d)
           /\ w.failedChild = (disk.failedChild \ d) \cup (fc \cap d)
           /\ w.tip = coins
BY Zenon DEF Written, Merge

\* The same, for a write that a step has made.
Stored(d, und, fv, fc, coins) == disk' = Written(d, und, fv, fc, coins)

LEMMA StoredFields ==
    ASSUME NEW d, NEW und, NEW fv, NEW fc, NEW coins, Stored(d, und, fv, fc, coins)
    PROVE  /\ disk'.undo = (disk.undo \ d) \cup (und \cap d)
           /\ disk'.failedValid = (disk.failedValid \ d) \cup (fv \cap d)
           /\ disk'.failedChild = (disk.failedChild \ d) \cup (fc \cap d)
           /\ disk'.tip = coins
BY WrittenFields DEF Stored

LEMMA StoredWithin ==
    ASSUME NEW d, NEW und, NEW fv, NEW fc, NEW coins, Stored(d, und, fv, fc, coins)
    PROVE  /\ disk'.data \subseteq disk.data \cup data
           /\ disk'.failedValid \subseteq disk.failedValid \cup fv
           /\ disk'.failedChild \subseteq disk.failedChild \cup fc
           /\ disk'.tip = coins
BY WrittenFields DEF Stored

-----------------------------------------------------------------------------
(* Undo data.                                                              *)

\* The invariant behind CoinsHaveUndo: blocks are connected with their undo data, and what is
\* not on disk is dirty.
UndoInv ==
    /\ Path(tip) \ {Genesis} \subseteq undo
    /\ undo \subseteq disk.undo \cup dirty /\ disk.undo \subseteq undo
    /\ Path(disk.tip) \ {Genesis} \subseteq disk.undo

LEMMA UndoStep ==
    ASSUME TypeOK, UndoInv, NEW t \in Threads, NEW most \in Block, NEW cands,
           NEW fc \in SUBSET Block, StepEffect(t, most, cands, fc)
    PROVE  UndoInv'
<1>1. PICK rejected \in SUBSET (Invalid \cap Path(most)) :
        /\ tip' \in Path(most)
        /\ undo' = undo \cup OffChain(tip')
        /\ FlushIfNeeded(tip', fc, rejected)
  BY Zenon DEF StepEffect
<1>2. tip \in Block /\ tip' \in Block
  BY <1>1, PathProperties, Zenon DEF TypeOK
<1>3. OffChain(tip') = Path(tip') \ Path(tip)
  BY <1>2, OffChainPath, Zenon
<1>4. /\ Path(tip) \ {Genesis} \subseteq undo
      /\ undo \subseteq disk.undo \cup dirty /\ disk.undo \subseteq undo
      /\ Path(disk.tip) \ {Genesis} \subseteq disk.undo
  BY Zenon DEF UndoInv
<1>5. Path(tip') \ {Genesis} \subseteq undo'
  BY <1>1, <1>3, <1>4, Zenon
<1>6. OffChain(tip') \ undo \subseteq Fresh(tip', fc)
  BY Zenon DEF Fresh
<1>7. FlushEffect(tip', fc, rejected)
  BY <1>1, <1>2, FlushDoes, Zenon
<1>8. CASE dirty' = dirty \cup Fresh(tip', fc) \cup rejected /\ UNCHANGED <<disk, count>>
  <2>1. undo' \subseteq disk'.undo \cup dirty'
    BY <1>1, <1>4, <1>6, <1>8, Zenon
  <2> QED
    BY <1>1, <1>4, <1>5, <1>8, <2>1, Zenon DEF UndoInv
<1>9. ASSUME NEW coins \in Block, NEW done, done = Fresh(tip', fc) \cap Path(coins),
             coins \in Path(tip) \cup Path(tip'),
             Flushed(dirty \cup done, undo \cup done, failedValid, fc, coins),
             dirty' = (Fresh(tip', fc) \ done) \cup rejected
      PROVE  UndoInv'
  <2>1. /\ disk'.undo = (disk.undo \ (dirty \cup done)) \cup ((undo \cup done) \cap (dirty \cup done))
        /\ disk'.tip = coins
    <3>1. Stored(dirty \cup done, undo \cup done, failedValid, fc, coins)
      BY <1>9, Zenon DEF Flushed, Stored
    <3> QED
      BY <3>1, StoredFields
  <2>2. undo \cup done \subseteq disk'.undo
    BY <1>4, <2>1
  <2>3. undo' \subseteq disk'.undo \cup dirty'
    <3>1. OffChain(tip') \subseteq undo \cup done \cup dirty'
      BY <1>6, <1>9, Zenon
    <3> QED
      BY <1>1, <2>2, <3>1, Zenon
  <2>4. Path(coins) \subseteq Path(tip) \/ Path(coins) \subseteq Path(tip')
    BY <1>2, <1>9, PathTransitive, Zenon
  <2>5. Path(coins) \ {Genesis} \subseteq undo \cup done
    BY <1>3, <1>4, <1>6, <1>9, <2>4, Zenon
  <2>6. disk'.undo \subseteq undo'
    <3>1. done \subseteq OffChain(tip')
      BY <1>9, Zenon DEF Fresh
    <3> QED
      BY <1>1, <1>4, <2>1, <3>1, Zenon
  <2> QED
    BY <1>5, <2>1, <2>2, <2>3, <2>5, <2>6, Zenon DEF UndoInv
<1> QED
  BY <1>7, <1>8, <1>9, ZenonT(40) DEF FlushEffect

LEMMA UndoInvalidate ==
    ASSUME TypeOK, UndoInv, NEW t \in Threads, NEW b \in Block, InvalidateEffect(t, b)
    PROVE  UndoInv'
<1>1. PICK walked \in SUBSET Path(tip), d \in SUBSET Block, fc \in SUBSET Block, coins \in Path(tip) :
        /\ tip' \in Path(tip)
        /\ \/ dirty' = dirty \cup {b} \cup walked /\ UNCHANGED disk
           \/ /\ disk' = Written(d, undo, failedValid', fc, coins)
              /\ dirty \subseteq d /\ dirty' \subseteq walked
        /\ UNCHANGED <<links, undo, order>>
  BY ZenonT(40) DEF InvalidateEffect
<1>2. tip \in Block
  BY DEF TypeOK
<1>3. Path(tip') \subseteq Path(tip) /\ Path(coins) \subseteq Path(tip)
  BY <1>1, <1>2, PathTransitive
<1>4. CASE dirty' = dirty \cup {b} \cup walked /\ UNCHANGED disk
  BY <1>1, <1>3, <1>4, Zenon DEF UndoInv
<1>5. CASE disk' = Written(d, undo, failedValid', fc, coins) /\ dirty \subseteq d
  <2>1. disk'.undo = (disk.undo \ d) \cup (undo \cap d) /\ disk'.tip = coins
    BY <1>5, WrittenFields
  <2>2. undo \subseteq disk'.undo
    BY <1>5, <2>1, Zenon DEF UndoInv
  <2> QED
    BY <1>1, <1>3, <2>1, <2>2, Zenon DEF UndoInv
<1> QED
  BY <1>1, <1>4, <1>5

LEMMA UndoFlush ==
    ASSUME TypeOK, UndoInv, FlushStateToDisk
    PROVE  UndoInv'
<1>1. PICK coins \in {disk.tip, tip} : Flushed(dirty, undo, failedValid, failedChild, coins)
  BY TypeFlush, Zenon
<1>2. UNCHANGED <<undo, tip>>
  BY TypeFlush, Zenon
<1>3. disk'.undo = (disk.undo \ dirty) \cup (undo \cap dirty) /\ disk'.tip = coins
  BY <1>1, WrittenFields DEF Flushed
<1>4. undo \subseteq disk'.undo
  BY <1>3, Zenon DEF UndoInv
<1>5. Path(coins) \ {Genesis} \subseteq disk'.undo
  <2>1. CASE coins = tip
    BY <1>4, <2>1 DEF UndoInv
  <2>2. CASE coins = disk.tip
    <3>1. Path(disk.tip) \ {Genesis} \subseteq disk.undo /\ undo \subseteq disk.undo \cup dirty
          /\ disk.undo \subseteq undo
      BY Zenon DEF UndoInv
    <3> QED
      BY <1>3, <2>2, <3>1
  <2> QED
    BY <1>1, <2>1, <2>2
<1> QED
  BY <1>2, <1>3, <1>4, <1>5, Zenon DEF UndoInv

LEMMA UndoNext ==
    ASSUME TypeOK, UndoInv, [Next]_vars
    PROVE  UndoInv'
<1>1. CASE UNCHANGED <<undo, tip, disk>> /\ dirty \subseteq dirty'
  BY <1>1, Zenon DEF UndoInv
<1>2. CASE UNCHANGED vars
  BY <1>1, <1>2 DEF vars
<1>3. ASSUME NEW b \in Block, AcceptBlockHeader(b) PROVE UndoInv'
  BY <1>1, <1>3, Zenon DEF AcceptBlockHeader
<1>4. ASSUME NEW t \in Threads, NEW b \in Block, NEW requested \in BOOLEAN,
             ProcessNewBlock(t, b, requested)
      PROVE  UndoInv'
  BY <1>1, <1>4, Zenon DEF ProcessNewBlock
<1>5. ASSUME NEW t \in Threads, FindAndStep(t) PROVE UndoInv'
  BY <1>5, TypeFindAndStep, UndoStep
<1>6. ASSUME NEW t \in Threads, StepAgain(t) PROVE UndoInv'
  <2>1. failedChild \in SUBSET Block
    BY Zenon DEF TypeOK
  <2> QED
    BY <1>6, <2>1, TypeStepAgain, UndoStep, Zenon
<1>7. ASSUME NEW t \in Threads, NothingToDo(t) PROVE UndoInv'
  BY <1>1, <1>7 DEF NothingToDo
<1>8. ASSUME NEW t \in Threads, NEW b \in Block, InvalidateBlock(t, b) PROVE UndoInv'
  BY <1>8, InvalidateDoes, UndoInvalidate, Zenon
<1>9. ASSUME NEW t \in Threads, NEW b \in Block, ResetBlockFailureFlags(t, b) PROVE UndoInv'
  BY <1>1, <1>9 DEF ResetBlockFailureFlags
<1>10. ASSUME NEW t \in Threads, NEW b \in Block, PreciousBlock(t, b) PROVE UndoInv'
  BY <1>1, <1>10, Zenon DEF PreciousBlock
<1>11. ASSUME NEW t \in Threads, Restart(t) PROVE UndoInv'
  BY <1>11 DEF UndoInv, Restart
<1> QED
  BY <1>2, <1>3, <1>4, <1>5, <1>6, <1>7, <1>8, <1>9, <1>10, <1>11, UndoFlush, Zenon DEF Next

\* FlushStateToDisk's order of writes: in every reachable state, wherever the process ends,
\* the coins database on disk is at a block whose whole chain has undo data in the block index
\* on disk.
THEOREM UndoIsWritten == Spec => []CoinsHaveUndo
<1>1. Init => UndoInv
  <2> SUFFICES ASSUME Init PROVE UndoInv
    OBVIOUS
  <2>1. Path(Genesis) \ {Genesis} = {}
    BY PathGenesis
  <2> QED
    BY <2>1 DEF Init, UndoInv
<1>2. TypeOK /\ UndoInv /\ [Next]_vars => UndoInv'
  BY UndoNext, Zenon
<1>3. UndoInv => CoinsHaveUndo
  BY Zenon DEF UndoInv, CoinsHaveUndo
<1> QED
  BY <1>1, <1>2, <1>3, ChainTypeCorrect, PTL DEF Spec

-----------------------------------------------------------------------------
(* Causes of failure.                                                      *)

Caused(x, fv) == Path(x) \cap fv # {}

\* The invariant behind FailedHaveCause: a block that is marked as the child of a failed one has
\* a failed block on its chain, in memory and on disk, and a failed block that is not on disk as
\* such is dirty.
CauseInv ==
    count.reconsider = 0 =>
        /\ \A x \in failedChild : Caused(x, failedValid)
        /\ \A x \in disk.failedChild : Caused(x, disk.failedValid)
        /\ disk.failedValid \subseteq failedValid
        /\ failedValid \subseteq disk.failedValid \cup dirty

\* A write of all that is dirty leaves on disk the blocks that failed and those above them.
LEMMA CauseWrite ==
    ASSUME CauseInv, count.reconsider = 0,
           NEW d, NEW und, NEW fv, NEW fc, NEW coins, Stored(d, und, fv, fc, coins),
           dirty \subseteq d, failedValid \subseteq fv, fv \subseteq failedValid \cup d,
           \A x \in fc : Caused(x, fv)
    PROVE  disk'.failedValid = fv /\ \A x \in disk'.failedChild : Caused(x, disk'.failedValid)
<1>1. /\ disk'.failedValid = (disk.failedValid \ d) \cup (fv \cap d)
      /\ disk'.failedChild = (disk.failedChild \ d) \cup (fc \cap d)
  BY StoredFields
<1>2. /\ disk.failedValid \subseteq failedValid /\ failedValid \subseteq disk.failedValid \cup dirty
      /\ \A x \in disk.failedChild : Caused(x, disk.failedValid)
  BY Zenon DEF CauseInv
<1>3. disk'.failedValid = fv
  BY <1>1, <1>2, Zenon
<1>4. disk.failedValid \subseteq fv
  BY <1>2, Zenon
<1>5. \A x \in disk'.failedChild : Caused(x, fv)
  BY <1>1, <1>2, <1>4, Zenon DEF Caused
<1> QED
  BY <1>3, <1>5, Zenon

\* FindMostWorkChain marks only blocks above a failed one.
LEMMA MarkCaused ==
    ASSUME TypeOK, CauseInv, count.reconsider = 0, NEW passed \in SUBSET candidates,
           \A c \in passed : ~Usable(c)
    PROVE  \A x \in Mark(passed) : Caused(x, failedValid)
<1> SUFFICES ASSUME NEW x \in Mark(passed), x \notin failedChild
             PROVE  Caused(x, failedValid)
  BY Zenon DEF CauseInv
<1>1. PICK c \in passed : x \in Path(c) /\ \A y \in Broken(c) : y \in Path(c) /\ Height(x) > Height(y)
  BY MarkDoes
<1>2. PICK y \in Broken(c) : TRUE
  BY Zenon DEF Usable
<1>3. c \in Block
  BY Zenon DEF TypeOK
<1>4. x \in Path(c) /\ y \in Path(c) /\ Height(x) > Height(y) /\ x \in Block /\ y \in Block
  BY <1>1, <1>2, <1>3, PathProperties, Zenon
<1>5. Height(x) \in Nat /\ Height(y) \in Nat
  BY <1>4, PathProperties, Zenon
<1>6. y \in Path(x)
  BY <1>3, <1>4, <1>5, PathOrder
<1>7. Caused(y, failedValid)
  <2>1. y \in failedValid \/ y \in failedChild
    BY <1>2, Zenon DEF Broken, Failed
  <2>2. y \in Path(y)
    BY <1>4, PathProperties, Zenon
  <2> QED
    BY <2>1, <2>2 DEF CauseInv, Caused
<1>8. Path(y) \subseteq Path(x)
  BY <1>4, <1>6, PathTransitive, Zenon
<1> QED
  BY <1>7, <1>8, Zenon DEF Caused

LEMMA CauseStep ==
    ASSUME TypeOK, CauseInv, NEW t \in Threads, NEW most \in Block, NEW fc \in SUBSET Block,
           count.reconsider = 0 => \A x \in fc : Caused(x, failedValid),
           StepEffect(t, most, candidates, fc)
    PROVE  CauseInv'
<1>1. PICK rejected \in SUBSET (Invalid \cap Path(most)) :
        /\ tip' \in Path(most)
        /\ failedValid' = failedValid \cup rejected
        /\ failedChild' = fc
        /\ FlushIfNeeded(tip', fc, rejected)
  BY ZenonT(40) DEF StepEffect
<1>2. tip \in Block /\ tip' \in Block /\ rejected \in SUBSET Block
  <2>1. tip \in Block /\ Path(most) \subseteq Block
    BY PathProperties, Zenon DEF TypeOK
  <2> QED
    BY <1>1, <2>1, Zenon
<1>3. count'.reconsider = count.reconsider
  BY <1>1, <1>2, FlushType, Zenon
<1>4. FlushEffect(tip', fc, rejected)
  BY <1>1, <1>2, FlushDoes
<1> SUFFICES ASSUME count.reconsider = 0
             PROVE  /\ \A x \in failedChild' : Caused(x, failedValid')
                    /\ \A x \in disk'.failedChild : Caused(x, disk'.failedValid)
                    /\ disk'.failedValid \subseteq failedValid'
                    /\ failedValid' \subseteq disk'.failedValid \cup dirty'
  BY <1>3, Zenon DEF CauseInv
<1>5. \A x \in failedChild' : Caused(x, failedValid')
  BY <1>1, Zenon DEF Caused
<1>6. CASE dirty' = dirty \cup Fresh(tip', fc) \cup rejected /\ UNCHANGED <<disk, count>>
  <2>1. /\ \A x \in disk.failedChild : Caused(x, disk.failedValid)
        /\ disk.failedValid \subseteq failedValid
        /\ failedValid \subseteq disk.failedValid \cup dirty
    BY Zenon DEF CauseInv
  <2>2. /\ disk'.failedValid \subseteq failedValid'
        /\ failedValid' \subseteq disk'.failedValid \cup dirty'
    BY <1>1, <1>6, <2>1
  <2> QED
    BY <1>5, <1>6, <2>1, <2>2, Zenon
<1>7. ASSUME NEW coins \in Block, NEW done,
             Flushed(dirty \cup done, undo \cup done, failedValid, fc, coins),
             rejected \subseteq dirty'
      PROVE  /\ \A x \in disk'.failedChild : Caused(x, disk'.failedValid)
             /\ disk'.failedValid = failedValid
  <2>1. Stored(dirty \cup done, undo \cup done, failedValid, fc, coins)
    BY <1>7, Zenon DEF Flushed, Stored
  <2>2. failedValid \subseteq failedValid \cup (dirty \cup done) /\ dirty \subseteq dirty \cup done
    BY Zenon
  <2> QED
    BY <2>1, <2>2, CauseWrite, Zenon
<1>8. CASE ~(dirty' = dirty \cup Fresh(tip', fc) \cup rejected /\ UNCHANGED <<disk, count>>)
  <2>1. PICK coins \in Block :
            LET done == Fresh(tip', fc) \cap Path(coins) IN
            /\ Flushed(dirty \cup done, undo \cup done, failedValid, fc, coins)
            /\ dirty' = (Fresh(tip', fc) \ done) \cup rejected
    BY <1>4, <1>8, ZenonT(40) DEF FlushEffect
  <2>2. rejected \subseteq dirty'
    BY <2>1
  <2>3. (\A x \in disk'.failedChild : Caused(x, disk'.failedValid)) /\ disk'.failedValid = failedValid
    BY <1>7, <2>1, <2>2, ZenonT(40)
  <2> QED
    BY <1>1, <1>5, <2>2, <2>3, Zenon
<1> QED
  BY <1>6, <1>8

LEMMA CauseInvalidate ==
    ASSUME TypeOK, CauseInv, NEW t \in Threads, NEW b \in Block, InvalidateEffect(t, b)
    PROVE  CauseInv'
<1>1. PICK walked \in SUBSET Path(tip), d \in SUBSET Block, fc \in SUBSET Block, coins \in Path(tip) :
        /\ failedValid' = failedValid \cup {b}
        /\ failedChild' = failedChild \cup walked
        /\ \/ dirty' = dirty \cup {b} \cup walked /\ UNCHANGED disk
           \/ /\ disk' = Written(d, undo, failedValid', fc, coins)
              /\ dirty \subseteq d /\ b \in d
              /\ fc \subseteq failedChild \cup walked
        /\ count'["reconsider"] = count["reconsider"]
        /\ \A x \in walked : b \in Path(x)
  BY ZenonT(60) DEF InvalidateEffect
<1> SUFFICES ASSUME count.reconsider = 0
             PROVE  /\ \A x \in failedChild' : Caused(x, failedValid')
                    /\ \A x \in disk'.failedChild : Caused(x, disk'.failedValid)
                    /\ disk'.failedValid \subseteq failedValid'
                    /\ failedValid' \subseteq disk'.failedValid \cup dirty'
  <2>1. count'.reconsider = count.reconsider
    BY <1>1
  <2> QED
    BY <2>1, Zenon DEF CauseInv
<1>2. \A x \in failedChild \cup walked : Caused(x, failedValid')
  BY <1>1 DEF CauseInv, Caused
<1>3. CASE dirty' = dirty \cup {b} \cup walked /\ UNCHANGED disk
  <2>1. /\ \A x \in disk.failedChild : Caused(x, disk.failedValid)
        /\ disk.failedValid \subseteq failedValid
        /\ failedValid \subseteq disk.failedValid \cup dirty
    BY DEF CauseInv
  <2>2. /\ disk'.failedValid \subseteq failedValid'
        /\ failedValid' \subseteq disk'.failedValid \cup dirty'
    BY <1>1, <1>3, <2>1
  <2> QED
    BY <1>1, <1>2, <1>3, <2>1, <2>2, ZenonT(40)
<1>4. CASE /\ disk' = Written(d, undo, failedValid', fc, coins)
           /\ dirty \subseteq d /\ b \in d /\ fc \subseteq failedChild \cup walked
  <2>1. failedValid \subseteq failedValid' /\ failedValid' \subseteq failedValid \cup d
    BY <1>1, <1>4
  <2>2. \A x \in fc : Caused(x, failedValid')
    BY <1>2, <1>4
  <2>3. disk'.failedValid = failedValid' /\ \A x \in disk'.failedChild : Caused(x, disk'.failedValid)
    <3>1. Stored(d, undo, failedValid', fc, coins)
      BY <1>4, Zenon DEF Stored
    <3> QED
      BY <1>4, <2>1, <2>2, <3>1, CauseWrite, Zenon
  <2> QED
    BY <1>1, <1>2, <2>3, Zenon
<1> QED
  BY <1>1, <1>3, <1>4, Zenon

LEMMA CauseFlush ==
    ASSUME TypeOK, CauseInv, FlushStateToDisk
    PROVE  CauseInv'
<1>1. PICK coins \in {disk.tip, tip} : Flushed(dirty, undo, failedValid, failedChild, coins)
  BY TypeFlush
<1>2. count'.reconsider = count.reconsider /\ UNCHANGED <<failedValid, failedChild>>
  BY TypeFlush, ZenonT(40) DEF flags
<1> SUFFICES ASSUME count.reconsider = 0
             PROVE  /\ \A x \in failedChild' : Caused(x, failedValid')
                    /\ \A x \in disk'.failedChild : Caused(x, disk'.failedValid)
                    /\ disk'.failedValid = failedValid'
  BY <1>2 DEF CauseInv, Caused
<1>3. \A x \in failedChild : Caused(x, failedValid)
  BY DEF CauseInv
<1>4. disk'.failedValid = failedValid /\ \A x \in disk'.failedChild : Caused(x, disk'.failedValid)
  <2>1. Stored(dirty, undo, failedValid, failedChild, coins)
    BY <1>1, Zenon DEF Flushed, Stored
  <2>2. failedValid \subseteq failedValid \cup dirty
    BY Zenon
  <2> QED
    BY <1>3, <2>1, <2>2, CauseWrite, Zenon
<1> QED
  BY <1>2, <1>3, <1>4

LEMMA CauseNext ==
    ASSUME TypeOK, CauseInv, [Next]_vars
    PROVE  CauseInv'
<1>1. CASE /\ failedValid \subseteq failedValid' /\ failedValid' \subseteq failedValid \cup dirty'
           /\ dirty \subseteq dirty' /\ count'.reconsider = count.reconsider
           /\ UNCHANGED <<failedChild, disk>>
  BY <1>1 DEF CauseInv, Caused
<1>2. CASE UNCHANGED vars
  BY <1>1, <1>2, Zenon DEF vars, flags
<1>3. ASSUME NEW b \in Block, AcceptBlockHeader(b) PROVE CauseInv'
  BY <1>1, <1>3 DEF AcceptBlockHeader, flags
<1>4. ASSUME NEW t \in Threads, NEW b \in Block, NEW requested \in BOOLEAN,
             ProcessNewBlock(t, b, requested)
      PROVE  CauseInv'
  <2>1. UNCHANGED <<failedChild, disk, count>> /\ dirty \subseteq dirty'
    BY <1>4, Zenon DEF ProcessNewBlock, flags
  <2>2. failedValid \subseteq failedValid' /\ failedValid' \subseteq failedValid \cup dirty'
    BY <1>4 DEF ProcessNewBlock, flags
  <2> QED
    BY <1>1, <2>1, <2>2, Zenon
<1>5. ASSUME NEW t \in Threads, FindAndStep(t) PROVE CauseInv'
  <2>1. PICK most \in candidates :
            /\ most \in Block
            /\ BetterThan(most) \subseteq candidates
            /\ \A c \in BetterThan(most) : ~Usable(c)
            /\ Mark(BetterThan(most)) \subseteq Block
            /\ StepEffect(t, most, candidates, Mark(BetterThan(most)))
    BY <1>5, TypeFindAndStep, Zenon
  <2>2. count.reconsider = 0 => \A x \in Mark(BetterThan(most)) : Caused(x, failedValid)
    BY <2>1, MarkCaused
  <2> QED
    BY <2>1, <2>2, CauseStep, Zenon
<1>6. ASSUME NEW t \in Threads, StepAgain(t) PROVE CauseInv'
  <2>1. failedChild \in SUBSET Block
    BY DEF TypeOK
  <2>2. count.reconsider = 0 => \A x \in failedChild : Caused(x, failedValid)
    BY Zenon DEF CauseInv
  <2> QED
    BY <1>6, <2>1, <2>2, TypeStepAgain, CauseStep, Zenon
<1>7. ASSUME NEW t \in Threads, NothingToDo(t) PROVE CauseInv'
  <2>1. UNCHANGED <<failedValid, dirty, disk, count>>
    BY <1>7, TypeNothing
  <2>2. count.reconsider = 0 => \A x \in failedChild' : Caused(x, failedValid)
    BY <1>7, TypeNothing, MarkCaused, ZenonT(40) DEF CauseInv
  <2> QED
    BY <2>1, <2>2, Zenon DEF CauseInv, Caused
<1>8. ASSUME NEW t \in Threads, NEW b \in Block, InvalidateBlock(t, b) PROVE CauseInv'
  BY <1>8, InvalidateDoes, CauseInvalidate
<1>9. ASSUME NEW t \in Threads, NEW b \in Block, ResetBlockFailureFlags(t, b) PROVE CauseInv'
  <2>1. count' = [count EXCEPT !["reconsider"] = @ + 1]
    BY <1>9, Zenon DEF ResetBlockFailureFlags, Bounded
  <2>2. count'.reconsider # 0
    BY <2>1 DEF TypeOK
  <2> QED
    BY <2>2, Zenon DEF CauseInv
<1>10. ASSUME NEW t \in Threads, NEW b \in Block, PreciousBlock(t, b) PROVE CauseInv'
  <2>1. count' = [count EXCEPT !["precious"] = @ + 1] /\ UNCHANGED <<flags, dirty, disk>>
    BY <1>10, Zenon DEF PreciousBlock, Bounded
  <2>2. count'.reconsider = count.reconsider
    BY <2>1, Zenon DEF TypeOK
  <2> QED
    BY <1>1, <2>1, <2>2 DEF flags
<1>11. ASSUME NEW t \in Threads, Restart(t) PROVE CauseInv'
  <2>1. /\ failedValid' = disk.failedValid /\ failedChild' = disk.failedChild
        /\ UNCHANGED disk
    BY <1>11, ZenonT(40) DEF Restart
  <2>2. count'.reconsider = count.reconsider
    BY <1>11, TypeRestart
  <2> QED
    BY <2>1, <2>2 DEF CauseInv, Caused
<1> QED
  BY <1>2, <1>3, <1>4, <1>5, <1>6, <1>7, <1>8, <1>9, <1>10, <1>11, CauseFlush DEF Next

\* CheckBlockIndex, on BLOCK_FAILED_MASK: until a failed block is reconsidered by RPC, a block
\* that carries a failure flag has a block that itself failed on its chain, whatever a flush
\* wrote and from wherever the process restarted.
THEOREM FailuresHaveACause == Spec => [](count.reconsider = 0 => FailedHaveCause)
<1>1. Init => CauseInv
  BY NothingFailedYet DEF CauseInv
<1>2. TypeOK /\ CauseInv /\ [Next]_vars => CauseInv'
  BY CauseNext
<1>3. TypeOK /\ CauseInv => (count.reconsider = 0 => FailedHaveCause)
  <2> SUFFICES ASSUME TypeOK, CauseInv, count.reconsider = 0, NEW b \in Failed
               PROVE  Path(b) \cap failedValid # {}
    BY Zenon DEF FailedHaveCause
  <2>1. CASE b \in failedChild
    BY <2>1 DEF CauseInv, Caused
  <2>2. CASE b \in failedValid
    <3>1. b \in Path(b)
      BY <2>2, PathProperties, Zenon DEF TypeOK
    <3> QED
      BY <2>2, <3>1, Zenon
  <2> QED
    BY <2>1, <2>2 DEF Failed
<1> QED
  BY <1>1, <1>2, <1>3, ChainTypeCorrect, PTL DEF Spec

-----------------------------------------------------------------------------
(* The active chain.                                                       *)

LEMMA CountedRPC ==
    ASSUME TypeOK
    PROVE  /\ count' = [count EXCEPT !["reconsider"] = @ + 1] => count'.reconsider # 0
           /\ count' = [count EXCEPT !["precious"] = @ + 1] =>
                count'.invalidate = count.invalidate /\ count'.reconsider = count.reconsider
BY DEF TypeOK

\* b or an ancestor of it breaks the rules.
Tainted(b) == Path(b) \cap Unsound # {}

\* SoundInv without the types, in the form the proofs use.
Sound ==
    /\ data \cap Malformed = {} /\ disk.data \cap Malformed = {}
    /\ unlinked \subseteq data
    /\ \A b \in linked : Path(b) \subseteq data
    /\ candidates \subseteq linked
    /\ \A t \in Threads : goal[t] # NoBlock => goal[t] \in linked
    /\ ~Tainted(tip) /\ ~Tainted(disk.tip)
    /\ count.invalidate = 0 =>
        /\ \A b \in failedValid : Tainted(b)
        /\ \A b \in failedChild : Tainted(b)
        /\ \A b \in disk.failedValid : Tainted(b)
        /\ \A b \in disk.failedChild : Tainted(b)

LEMMA SoundForm ==
    /\ SoundInv <=> TypeOK /\ Sound
    /\ SoundInv' <=> TypeOK' /\ Sound'
BY DEF SoundInv, Sound, Tainted, Failed

\* A thread's pindexMostWork is linked, whichever of these a thread changes it to.
LEMMA GoalLinked ==
    ASSUME TypeOK, Sound, NEW t \in Threads, NEW L, linked \subseteq L,
           NEW next \in L \cup {NoBlock}, NEW g, g = [goal EXCEPT ![t] = next]
    PROVE  \A u \in Threads : g[u] # NoBlock => g[u] \in L
<1>1. goal \in [Threads -> Block \cup {NoBlock}]
  BY Zenon DEF TypeOK
<1>2. \A u \in Threads : goal[u] # NoBlock => goal[u] \in linked
  BY DEF Sound
<1> QED
  BY <1>2

LEMMA TaintedAbove ==
    ASSUME NEW b \in Block, NEW x \in Path(b)
    PROVE  Tainted(x) => Tainted(b)
BY PathTransitive DEF Tainted

LEMMA TaintedSelf ==
    ASSUME NEW b \in Block, b \in Unsound
    PROVE  Tainted(b)
BY PathProperties, Zenon DEF Tainted

\* FindMostWorkChain marks only blocks above a failed one.
LEMMA MarkSound ==
    ASSUME TypeOK, Sound, count.invalidate = 0, NEW passed \in SUBSET candidates,
           \A c \in passed : ~Usable(c)
    PROVE  \A x \in Mark(passed) : Tainted(x)
<1> SUFFICES ASSUME NEW x \in Mark(passed), x \notin failedChild
             PROVE  Tainted(x)
  BY Zenon DEF Sound
<1>1. PICK c \in passed : x \in Path(c) /\ \A y \in Broken(c) : y \in Path(c) /\ Height(x) > Height(y)
  BY MarkDoes
<1>2. PICK y \in Broken(c) : TRUE
  BY Zenon DEF Usable
<1>3. c \in Block
  BY Zenon DEF TypeOK
<1>4. x \in Path(c) /\ y \in Path(c) /\ Height(x) > Height(y) /\ x \in Block /\ y \in Block
  BY <1>1, <1>2, <1>3, PathProperties, Zenon
<1>5. Height(x) \in Nat /\ Height(y) \in Nat
  BY <1>4, PathProperties, Zenon
<1>6. y \in Path(x)
  BY <1>3, <1>4, <1>5, PathOrder
<1>7. Tainted(y)
  BY DEF Broken, Failed, Sound
<1> QED
  BY <1>4, <1>6, <1>7, TaintedAbove, Zenon

LEMMA SoundStep ==
    ASSUME TypeOK, Sound, NEW t \in Threads, NEW most \in linked, NEW fc \in SUBSET Block,
           count.invalidate = 0 => \A x \in fc : Tainted(x),
           StepEffect(t, most, candidates, fc)
    PROVE  Sound'
<1>1. PICK rejected \in SUBSET (Invalid \cap Path(most)), next \in {most, NoBlock} :
        /\ tip' \in Path(most)
        /\ Path(tip') \cap OffChain(most) \cap Invalid = {}
        /\ candidates' \subseteq candidates
        /\ failedValid' = failedValid \cup rejected
        /\ failedChild' = fc
        /\ FlushIfNeeded(tip', fc, rejected)
        /\ goal' = [goal EXCEPT ![t] = next]
        /\ UNCHANGED <<links, order>>
  BY ZenonT(40) DEF StepEffect
<1>2. most \in Block /\ tip \in Block /\ tip' \in Block /\ rejected \in SUBSET Block
  BY <1>1, PathProperties, Zenon DEF TypeOK
<1>3. ~Tainted(tip')
  <2>1. Path(most) \cap Malformed = {} /\ Path(tip) \cap Invalid = {}
    BY Zenon DEF Sound, Tainted, Unsound
  <2>2. Path(tip') \subseteq Path(most)
    BY <1>1, <1>2, PathTransitive, Zenon
  <2>3. OffChain(most) = Path(most) \ Path(tip)
    BY <1>2, OffChainPath, Zenon
  <2> QED
    BY <1>1, <2>1, <2>2, <2>3, Zenon DEF Tainted, Unsound
<1>4. /\ (data \cap Malformed = {})' /\ (unlinked \subseteq data)'
      /\ (\A b \in linked : Path(b) \subseteq data)' /\ (candidates \subseteq linked)'
  BY <1>1 DEF Sound, links
<1>5. \A u \in Threads : goal'[u] # NoBlock => goal'[u] \in linked'
  <2>1. linked' = linked /\ next \in linked' \cup {NoBlock} /\ goal' = [goal EXCEPT ![t] = next]
    BY <1>1 DEF links
  <2>2. linked \subseteq linked'
    BY <2>1, Zenon
  <2> QED
    BY <2>1, <2>2, GoalLinked, ZenonT(40)
<1>6. count'.invalidate = count.invalidate
  BY <1>1, <1>2, FlushType, Zenon
<1>7. count'.invalidate = 0 => (\A b \in failedValid' : Tainted(b)) /\ (\A b \in failedChild' : Tainted(b))
  <2>1. \A b \in rejected : Tainted(b)
    BY <1>1, <1>2, TaintedSelf DEF Unsound
  <2> QED
    BY <1>1, <1>6, <2>1, Zenon DEF Sound
<1>8. /\ disk'.data \cap Malformed = {} /\ ~Tainted(disk'.tip)
      /\ count'.invalidate = 0 => /\ \A b \in disk'.failedValid : Tainted(b)
                                  /\ \A b \in disk'.failedChild : Tainted(b)
  <2>1. CASE UNCHANGED disk
    BY <1>6, <2>1, Zenon DEF Sound
  <2>2. ASSUME NEW d, NEW und, NEW coins \in Path(tip) \cup Path(tip'),
               disk' = Written(d, und, failedValid, fc, coins)
        PROVE  /\ disk'.data \cap Malformed = {} /\ ~Tainted(disk'.tip)
               /\ count'.invalidate = 0 => /\ \A b \in disk'.failedValid : Tainted(b)
                                           /\ \A b \in disk'.failedChild : Tainted(b)
    <3>1. /\ disk'.data \subseteq disk.data \cup data
          /\ disk'.failedValid \subseteq disk.failedValid \cup failedValid
          /\ disk'.failedChild \subseteq disk.failedChild \cup fc
          /\ disk'.tip = coins
      BY <2>2, StoredWithin, Zenon DEF Stored
    <3>2. ~Tainted(coins)
      BY <1>2, <1>3, TaintedAbove, Zenon DEF Sound
    <3> QED
      BY <1>6, <3>1, <3>2, Zenon DEF Sound
  <2>3. FlushEffect(tip', fc, rejected)
    BY <1>1, <1>2, FlushDoes
  <2> QED
    BY <2>1, <2>2, <2>3, ZenonT(40) DEF FlushEffect, Flushed
<1> QED
  BY <1>3, <1>4, <1>5, <1>7, <1>8, Zenon DEF Sound, Tainted

\* The ancestry of what becomes linked with b is complete.
LEMMA LinkedWithComplete ==
    ASSUME TypeOK, Sound, NEW b \in Block, b # Genesis, Pprev(b) \in linked, NEW x \in LinkedWith(b)
    PROVE  Path(x) \subseteq data \cup {b}
<1>1. Path(b) \subseteq data \cup {b}
  <2>1. Path(b) = Path(Pprev(b)) \cup {b}
    BY PathPprev, Zenon
  <2>2. Path(Pprev(b)) \subseteq data
    BY Zenon DEF Sound
  <2> QED
    BY <2>1, <2>2, Zenon
<1>2. CASE x = b
  BY <1>1, <1>2, Zenon
<1>3. CASE x # b
  <2>1. /\ x \in Block /\ b \in Path(x)
        /\ \A y \in Path(x) : Height(y) > Height(b) => y \in unlinked
    BY <1>3, Zenon DEF LinkedWith, TypeOK
  <2>2. ASSUME NEW y \in Path(x)
        PROVE  y \in data \cup {b}
    <3>1. Height(y) \in Nat /\ Height(b) \in Nat
      BY <2>1, PathProperties, Zenon
    <3>2. CASE Height(y) > Height(b)
      BY <2>1, <3>2, Zenon DEF Sound
    <3>3. CASE Height(y) <= Height(b)
      BY <1>1, <2>1, <3>3, PathOrder, Zenon
    <3> QED
      BY <3>1, <3>2, <3>3
  <2> QED
    BY <2>2, Zenon
<1> QED
  BY <1>2, <1>3, Zenon

LEMMA SoundReceived ==
    ASSUME TypeOK, Sound, NEW b \in Block, b # Genesis, b \notin Malformed, ReceivedBlockTransactions(b)
    PROVE  /\ data' \cap Malformed = {} /\ unlinked' \subseteq data'
           /\ (\A x \in linked' : Path(x) \subseteq data')
           /\ candidates' \subseteq linked' /\ linked \subseteq linked'
<1>1. data' = data \cup {b}
  BY Zenon DEF ReceivedBlockTransactions
<1>2. CASE Pprev(b) \in linked
  <2>1. /\ linked' = linked \cup LinkedWith(b)
        /\ unlinked' = unlinked \ LinkedWith(b)
        /\ candidates' \subseteq candidates \cup LinkedWith(b)
    BY <1>2 DEF ReceivedBlockTransactions
  <2>2. \A x \in LinkedWith(b) : Path(x) \subseteq data'
    BY <1>1, <1>2, LinkedWithComplete, Zenon
  <2> QED
    BY <1>1, <2>1, <2>2 DEF Sound
<1>3. CASE Pprev(b) \notin linked
  <2>1. unlinked' \subseteq unlinked \cup {b} /\ UNCHANGED <<linked, candidates>>
    BY <1>3, Zenon DEF ReceivedBlockTransactions, Wait
  <2> QED
    BY <1>1, <2>1, Zenon DEF Sound
<1> QED
  BY <1>2, <1>3

LEMMA SoundProcess ==
    ASSUME TypeOK, Sound, Genesis \in data, NEW t \in Threads, NEW b \in Block, NEW requested,
           ProcessNewBlock(t, b, requested)
    PROVE  Sound'
<1>1. UNCHANGED <<undo, tip, disk, count>>
  BY DEF ProcessNewBlock
<1>2. CASE /\ b \notin data /\ b \notin Malformed /\ ReceivedBlockTransactions(b)
           /\ CallActivateBestChain(t) /\ UNCHANGED flags
  <2>1. b # Genesis
    BY <1>2, Zenon
  <2>2. /\ data' \cap Malformed = {} /\ unlinked' \subseteq data'
        /\ (\A x \in linked' : Path(x) \subseteq data')
        /\ candidates' \subseteq linked' /\ linked \subseteq linked'
    BY <1>2, SoundReceived
  <2>3. \A u \in Threads : goal'[u] # NoBlock => goal'[u] \in linked'
    BY <1>2, <2>2, GoalLinked, ZenonT(40) DEF CallActivateBestChain
  <2> QED
    BY <1>1, <1>2, <2>2, <2>3, ZenonT(40) DEF Sound, Tainted, flags
<1>3. CASE /\ b \in Malformed /\ failedValid' = failedValid \cup {b}
           /\ UNCHANGED <<failedChild, data, linked, unlinked, candidates, order, threads>>
  <2>1. Tainted(b)
    BY <1>3, TaintedSelf DEF Unsound
  <2> QED
    BY <1>1, <1>3, <2>1, ZenonT(40) DEF Sound, Tainted, threads
<1>4. CASE /\ CallActivateBestChain(t)
           /\ UNCHANGED <<flags, data, linked, unlinked, candidates, order>>
  <2>1. \A u \in Threads : goal'[u] # NoBlock => goal'[u] \in linked'
    <3>1. linked' = linked /\ goal' = [goal EXCEPT ![t] = NoBlock]
      BY <1>4 DEF CallActivateBestChain
    <3>2. linked \subseteq linked' /\ NoBlock \in linked' \cup {NoBlock}
      BY <3>1, Zenon
    <3> QED
      BY <3>1, <3>2, GoalLinked, ZenonT(40)
  <2> QED
    BY <1>1, <1>4, <2>1, ZenonT(40) DEF Sound, Tainted, flags
<1> QED
  BY <1>2, <1>3, <1>4, Zenon DEF ProcessNewBlock

LEMMA SoundNothing ==
    ASSUME TypeOK, Sound, NEW t \in Threads, NothingToDo(t)
    PROVE  Sound'
<1>1. /\ candidates' \subseteq candidates /\ goal' = [goal EXCEPT ![t] = NoBlock]
      /\ UNCHANGED <<failedValid, links, undo, order, tip, dirty, disk, count>>
  BY TypeNothing
<1>2. count.invalidate = 0 => \A x \in failedChild' : Tainted(x)
  BY TypeNothing, MarkSound, ZenonT(40) DEF Sound
<1>3. \A u \in Threads : goal'[u] # NoBlock => goal'[u] \in linked
  BY <1>1, GoalLinked, ZenonT(40)
<1> QED
  BY <1>1, <1>2, <1>3, Zenon DEF Sound, Tainted, links

LEMMA SoundInvalidate ==
    ASSUME TypeOK, Sound, NEW t \in Threads, NEW b \in Block, InvalidateEffect(t, b)
    PROVE  Sound'
<1>1. PICK d \in SUBSET Block, fc \in SUBSET Block, coins \in Path(tip) :
        /\ tip' \in Path(tip)
        /\ candidates' \subseteq candidates \cup linked
        /\ disk' = disk \/ disk' = Written(d, undo, failedValid', fc, coins)
        /\ count'["invalidate"] # 0
        /\ goal' = [goal EXCEPT ![t] = NoBlock]
        /\ UNCHANGED <<links, undo, order>>
  BY SMTT(40) DEF InvalidateEffect
<1>2. tip \in Block
  BY DEF TypeOK
<1>3. ~Tainted(tip') /\ ~Tainted(coins)
  BY <1>1, <1>2, TaintedAbove, ZenonT(40) DEF Sound
<1>4. disk'.data \cap Malformed = {} /\ ~Tainted(disk'.tip)
  <2>1. CASE disk' = disk
    BY <2>1, Zenon DEF Sound
  <2>2. CASE disk' = Written(d, undo, failedValid', fc, coins)
    <3>1. disk'.data \subseteq disk.data \cup data /\ disk'.tip = coins
      BY <2>2, StoredWithin, Zenon DEF Stored
    <3> QED
      BY <1>3, <3>1, Zenon DEF Sound
  <2> QED
    BY <1>1, <2>1, <2>2, ZenonT(40)
<1>5. \A u \in Threads : goal'[u] # NoBlock => goal'[u] \in linked
  BY <1>1, GoalLinked, ZenonT(40)
<1>6. count'.invalidate # 0
  BY <1>1
<1> QED
  BY <1>1, <1>3, <1>4, <1>5, <1>6, ZenonT(40) DEF Sound, Tainted, links

LEMMA SoundReset ==
    ASSUME TypeOK, Sound, NEW t \in Threads, NEW b \in Block, ResetBlockFailureFlags(t, b)
    PROVE  Sound'
<1>1. /\ failedValid' \subseteq failedValid /\ failedChild' \subseteq failedChild
      /\ candidates' \subseteq candidates \cup linked
      /\ CallActivateBestChain(t)
      /\ count' = [count EXCEPT !["reconsider"] = @ + 1]
      /\ UNCHANGED <<links, undo, order, tip, disk>>
  BY DEF ResetBlockFailureFlags, Bounded
<1>2. \A u \in Threads : goal'[u] # NoBlock => goal'[u] \in linked
  BY <1>1, GoalLinked, ZenonT(40) DEF CallActivateBestChain
<1>3. count'.invalidate = count.invalidate
  BY <1>1 DEF TypeOK
<1> QED
  BY <1>1, <1>2, <1>3, Zenon DEF Sound, Tainted, links

LEMMA SoundPrecious ==
    ASSUME TypeOK, Sound, NEW t \in Threads, NEW b \in Block, PreciousBlock(t, b)
    PROVE  Sound'
<1>1. /\ candidates' \subseteq candidates \cup linked
      /\ CallActivateBestChain(t)
      /\ count' = [count EXCEPT !["precious"] = @ + 1]
      /\ UNCHANGED <<flags, links, undo, bare, nextSeq, tip, dirty, disk>>
  BY DEF PreciousBlock, Bounded, Prune
<1>2. \A u \in Threads : goal'[u] # NoBlock => goal'[u] \in linked
  BY <1>1, GoalLinked, ZenonT(40) DEF CallActivateBestChain
<1>3. count'.invalidate = count.invalidate
  BY <1>1 DEF TypeOK
<1> QED
  BY <1>1, <1>2, <1>3, ZenonT(40) DEF Sound, Tainted, links, flags

LEMMA SoundFlush ==
    ASSUME TypeOK, Sound, FlushStateToDisk
    PROVE  Sound'
<1>1. PICK coins \in {disk.tip, tip} : Flushed(dirty, undo, failedValid, failedChild, coins)
  BY TypeFlush
<1>2. /\ count'.invalidate = count.invalidate
      /\ UNCHANGED <<flags, links, undo, candidates, order, tip, threads>>
  BY TypeFlush, ZenonT(40)
<1>3. /\ disk'.data \subseteq disk.data \cup data
      /\ disk'.failedValid \subseteq disk.failedValid \cup failedValid
      /\ disk'.failedChild \subseteq disk.failedChild \cup failedChild
      /\ disk'.tip = coins
  BY <1>1, StoredWithin, Zenon DEF Flushed, Stored
<1>4. /\ disk'.data \cap Malformed = {} /\ ~Tainted(disk'.tip)
      /\ count'.invalidate = 0 => /\ \A b \in disk'.failedValid : Tainted(b)
                                  /\ \A b \in disk'.failedChild : Tainted(b)
  BY <1>1, <1>2, <1>3, ZenonT(40) DEF Sound
<1> QED
  BY <1>2, <1>4, ZenonT(40) DEF Sound, Tainted, flags, links, threads

LEMMA SoundRestart ==
    ASSUME TypeOK, Sound, NEW t \in Threads, Restart(t)
    PROVE  Sound'
<1>1. /\ data' = disk.data
      /\ failedValid' = disk.failedValid /\ failedChild' = disk.failedChild
      /\ linked' = LoadLinked(disk.data) /\ unlinked' = LoadUnlinked(disk.data)
      /\ tip' = disk.tip
      /\ candidates' \subseteq LoadLinked(disk.data)
      /\ goal' = [x \in Threads |-> NoBlock]
      /\ UNCHANGED disk
  BY ZenonT(40) DEF Restart, Prune, LoadCandidates
<1>2. count'.invalidate = count.invalidate
  BY TypeRestart
<1>3. \A b \in LoadLinked(disk.data) : Path(b) \subseteq disk.data
  BY ZenonT(40) DEF LoadLinked
<1>4. LoadUnlinked(disk.data) \subseteq disk.data
  BY ZenonT(40) DEF LoadUnlinked
<1>5. (\A b \in linked' : Path(b) \subseteq data') /\ unlinked' \subseteq data'
  BY <1>1, <1>3, <1>4, ZenonT(40)
<1> QED
  BY <1>1, <1>2, <1>5, ZenonT(40) DEF Sound, Tainted

LEMMA SoundNext ==
    ASSUME TypeOK, Sound, Genesis \in data, [Next]_vars
    PROVE  Sound'
<1>1. CASE UNCHANGED vars
  BY <1>1, Zenon DEF vars, Sound, Tainted, flags, links, threads
<1>2. ASSUME NEW b \in Block, AcceptBlockHeader(b) PROVE Sound'
  BY <1>2, Zenon DEF AcceptBlockHeader, Sound, Tainted, flags, threads
<1>3. ASSUME NEW t \in Threads, FindAndStep(t) PROVE Sound'
  <2>1. PICK most \in candidates :
            /\ BetterThan(most) \subseteq candidates
            /\ \A c \in BetterThan(most) : ~Usable(c)
            /\ Mark(BetterThan(most)) \subseteq Block
            /\ StepEffect(t, most, candidates, Mark(BetterThan(most)))
    BY <1>3, TypeFindAndStep, Zenon
  <2>2. most \in linked
    BY Zenon DEF Sound
  <2>3. count.invalidate = 0 => \A x \in Mark(BetterThan(most)) : Tainted(x)
    BY <2>1, MarkSound, Zenon
  <2> QED
    BY <2>1, <2>2, <2>3, SoundStep, Zenon
<1>4. ASSUME NEW t \in Threads, StepAgain(t) PROVE Sound'
  <2>1. goal[t] \in linked /\ failedChild \in SUBSET Block
    BY <1>4, ZenonT(40) DEF StepAgain, Sound, TypeOK
  <2>2. count.invalidate = 0 => \A x \in failedChild : Tainted(x)
    BY Zenon DEF Sound
  <2> QED
    BY <1>4, <2>1, <2>2, TypeStepAgain, SoundStep, Zenon
<1>5. ASSUME NEW t \in Threads, NEW b \in Block, InvalidateBlock(t, b) PROVE Sound'
  BY <1>5, InvalidateDoes, SoundInvalidate, Zenon
<1> QED
  BY <1>1, <1>2, <1>3, <1>4, <1>5, SoundProcess, SoundNothing, SoundReset, SoundPrecious, SoundFlush, SoundRestart, Zenon DEF Next

LEMMA SoundImplies ==
    ASSUME TypeOK, Sound, count.invalidate = 0
    PROVE  ActiveChainValid
<1> SUFFICES ASSUME NEW x \in Path(tip) \cap Failed
             PROVE  FALSE
  BY DEF ActiveChainValid
<1>1. Tainted(x)
  BY Zenon DEF Sound, Failed
<1>2. tip \in Block
  BY DEF TypeOK
<1> QED
  BY <1>1, <1>2, TaintedAbove DEF Sound
=============================================================================
