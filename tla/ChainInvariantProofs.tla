------------------------ MODULE ChainInvariantProofs ------------------------
(***************************************************************************)
(* Theorems about ChainActivation: the comparator is an order, the active  *)
(* chain is valid, which blocks are linked, and what is left of the        *)
(* candidates when calls overlap.  The lemmas on the moves of the tip are  *)
(* also for BestChainProofs.                                               *)
(***************************************************************************)
EXTENDS ChainActivationProofs

-----------------------------------------------------------------------------
(* The comparator.                                                         *)

\* The comparator is an order without GPoW, and with it if only equal times count as equal.
Ordered == ~GPoWEnabled \/ TimeError = 0

\* What CBlockIndexWorkComparator compares are numbers.
LEMMA FieldTypes ==
    ASSUME NEW ord, ord.seq \in [Block -> Int], NEW a \in Block
    PROVE  /\ Work[a] \in Nat /\ Time[a] \in Nat /\ Address[a] \in Nat /\ ord.seq[a] \in Int
           /\ PrecisionTimeOf(ord, a) \in Nat /\ HashGPoWOf(ord, a) \in Nat
BY OrderAssumption DEF PrecisionTimeOf, HashGPoWOf

\* Of two blocks exactly one sorts before the other.
LEMMA WorseTotal ==
    ASSUME NEW ord, ord.seq \in [Block -> Int], NEW a \in Block, NEW b \in Block
    PROVE  /\ Work[a] < Work[b] => Worse(ord, a, b)
           /\ Worse(ord, a, b) => Work[a] <= Work[b] /\ ~Worse(ord, b, a)
           /\ a = b \/ Worse(ord, a, b) \/ Worse(ord, b, a)
           /\ ~Worse(ord, a, a)
<1>1. /\ Work[a] \in Nat /\ Time[a] \in Nat /\ Address[a] \in Nat /\ ord.seq[a] \in Int
      /\ PrecisionTimeOf(ord, a) \in Nat /\ HashGPoWOf(ord, a) \in Nat
      /\ Work[b] \in Nat /\ Time[b] \in Nat /\ Address[b] \in Nat /\ ord.seq[b] \in Int
      /\ PrecisionTimeOf(ord, b) \in Nat /\ HashGPoWOf(ord, b) \in Nat
  BY FieldTypes
<1>2. TimeError \in Nat /\ GPoWEnabled \in BOOLEAN /\ (Address[a] = Address[b] => a = b)
  BY OrderAssumption
<1>3. ReceivedLater(ord, a, b) => ~ReceivedLater(ord, b, a)
  BY <1>1 DEF ReceivedLater
<1>4. a = b \/ ReceivedLater(ord, a, b) \/ ReceivedLater(ord, b, a)
  BY <1>1, <1>2 DEF ReceivedLater
<1>5. MinedLater(ord, a, b) => ~MinedLater(ord, b, a)
  BY <1>1, <1>2 DEF MinedLater
<1>6. a = b \/ MinedLater(ord, a, b) \/ MinedLater(ord, b, a)
  BY <1>1, <1>2 DEF MinedLater
<1>7. ~ReceivedLater(ord, a, a) /\ ~MinedLater(ord, a, a)
  <2>1. ~ReceivedLater(ord, a, a)
    BY <1>1 DEF ReceivedLater
  <2>2. ~MinedLater(ord, a, a)
    BY <1>1, <1>2 DEF MinedLater
  <2> QED  BY <2>1, <2>2, Zenon
<1>8. Worse(ord, a, b) => Work[a] <= Work[b] /\ ~Worse(ord, b, a)
  BY <1>1, <1>3, <1>5 DEF Worse
<1>9. a = b \/ Worse(ord, a, b) \/ Worse(ord, b, a)
  BY <1>1, <1>4, <1>6 DEF Worse
<1>10. (Work[a] < Work[b] => Worse(ord, a, b)) /\ ~Worse(ord, a, a)
  BY <1>1, <1>7 DEF Worse
<1> QED  BY <1>8, <1>9, <1>10, Zenon

LEMMA WorseTransitive ==
    ASSUME Ordered, NEW ord, ord.seq \in [Block -> Int],
           NEW a \in Block, NEW b \in Block, NEW c \in Block, Worse(ord, a, b), Worse(ord, b, c)
    PROVE  Worse(ord, a, c)
<1>1. \A x \in {a, b, c} :
        /\ Work[x] \in Nat /\ Time[x] \in Nat /\ Address[x] \in Nat /\ ord.seq[x] \in Int
        /\ PrecisionTimeOf(ord, x) \in Nat /\ HashGPoWOf(ord, x) \in Nat
  BY FieldTypes
<1>2. GPoWEnabled \in BOOLEAN
  BY OrderAssumption
<1>3. ReceivedLater(ord, a, b) /\ ReceivedLater(ord, b, c) => ReceivedLater(ord, a, c)
  BY <1>1 DEF ReceivedLater
<1>4. GPoWEnabled /\ MinedLater(ord, a, b) /\ MinedLater(ord, b, c) => MinedLater(ord, a, c)
  <2> SUFFICES ASSUME GPoWEnabled, MinedLater(ord, a, b), MinedLater(ord, b, c)
               PROVE  MinedLater(ord, a, c)
    OBVIOUS
  <2>1. TimeError = 0
    BY DEF Ordered
  <2>2. \A x, y \in {a, b, c} : MinedLater(ord, x, y) <=>
          \/ Time[x] > Time[y]
          \/ Time[x] = Time[y] /\ PrecisionTimeOf(ord, x) > PrecisionTimeOf(ord, y)
          \/ Time[x] = Time[y] /\ PrecisionTimeOf(ord, x) = PrecisionTimeOf(ord, y)
                /\ HashGPoWOf(ord, x) > HashGPoWOf(ord, y)
          \/ Time[x] = Time[y] /\ PrecisionTimeOf(ord, x) = PrecisionTimeOf(ord, y)
                /\ HashGPoWOf(ord, x) = HashGPoWOf(ord, y) /\ Address[x] > Address[y]
    BY <1>1, <2>1 DEF MinedLater
  <2> QED  BY <1>1, <2>2
<1>5. Work[a] \in Nat /\ Work[b] \in Nat /\ Work[c] \in Nat
  BY <1>1
<1> QED  BY <1>2, <1>3, <1>4, <1>5 DEF Worse

\* The comparator in a state.
LEMMA OrderFacts ==
    ASSUME TypeOK, Ordered
    PROVE  /\ \A a, b \in Block : Worse(Order, a, b) => ~Worse(Order, b, a)
           /\ \A a, b \in Block : a = b \/ Worse(Order, a, b) \/ Worse(Order, b, a)
           /\ \A a, b, c \in Block : Worse(Order, a, b) /\ Worse(Order, b, c) => Worse(Order, a, c)
           /\ \A a, b \in Block : Work[a] < Work[b] => Worse(Order, a, b)
<1>1. Order.seq \in [Block -> Int]
  BY DEF Order, TypeOK
<1>2. ASSUME NEW a \in Block, NEW b \in Block
      PROVE  /\ Work[a] < Work[b] => Worse(Order, a, b)
             /\ Worse(Order, a, b) => ~Worse(Order, b, a)
             /\ a = b \/ Worse(Order, a, b) \/ Worse(Order, b, a)
  BY <1>1, WorseTotal
<1>3. ASSUME NEW a \in Block, NEW b \in Block, NEW c \in Block,
             Worse(Order, a, b), Worse(Order, b, c)
      PROVE  Worse(Order, a, c)
  BY <1>1, <1>3, WorseTransitive
<1> QED  BY <1>2, <1>3

\* The counters of calls count.
LEMMA CountMore ==
    ASSUME TypeOK
    PROVE  /\ count' = [count EXCEPT !["precious"] = @ + 1] => count'.precious # 0
           /\ count' = [count EXCEPT !["restart"] = @ + 1] =>
                count'.restart # 0 /\ count'.restart # count.restart
BY DEF TypeOK

\* nChainWork grows along a chain; BestChainProofs proves it (WorkAbove).
WorkGrows == \A b \in Block : \A x \in Path(b) : x = b \/ Work[x] < Work[b]

\* A block is better than those it is built on.
LEMMA PathWorse ==
    ASSUME TypeOK, Ordered, WorkGrows
    PROVE  \A b \in Block : \A x \in Path(b) : x = b \/ Worse(Order, x, b)
BY OrderFacts, PathProperties, Zenon DEF WorkGrows

\* The comparator looks only at the blocks it compares.
LEMMA WorseSame ==
    ASSUME NEW o, NEW p, NEW a, NEW b, o.bare = p.bare,
           GPoWEnabled \/ (o.seq[a] = p.seq[a] /\ o.seq[b] = p.seq[b])
    PROVE  Worse(o, a, b) <=> Worse(p, a, b)
<1>1. MinedLater(o, a, b) <=> MinedLater(p, a, b)
  BY DEF MinedLater, PrecisionTimeOf, HashGPoWOf
<1>2. o.seq[a] = p.seq[a] /\ o.seq[b] = p.seq[b] => (ReceivedLater(o, a, b) <=> ReceivedLater(p, a, b))
  BY DEF ReceivedLater
<1> QED  BY <1>1, <1>2 DEF Worse

-----------------------------------------------------------------------------
(* Links.                                                                  *)

\* The two halves of LinkInv: the one that always holds, and the one that holds until a block
\* is invalidated or reconsidered.
LinkBase ==
    /\ Genesis \in disk.data
    /\ data \subseteq known /\ disk.data \subseteq data /\ data \subseteq disk.data \cup dirty
    /\ disk.data \subseteq disk.known
    /\ unlinked \subseteq data \ linked
    /\ \A b \in Block : seqId[b] > 0 => b \in linked
LinkMemory ==
    /\ \A b \in data : Path(b) \subseteq data => b \in linked
    /\ \A b \in data \ linked : b \in unlinked \/ Pprev(b) \in failedValid \cap Malformed
    /\ failedChild \subseteq linked
    /\ failedValid \subseteq linked \cup Malformed
LinkDisk ==
    /\ disk.failedChild \subseteq LoadLinked(disk.data)
    /\ disk.failedValid \subseteq LoadLinked(disk.data) \cup Malformed
Untouched == count.invalidate = 0 /\ count.reconsider = 0

LEMMA LinkForm ==
    /\ LinkInv <=> LinkBase /\ (Untouched => LinkMemory /\ LinkDisk)
    /\ LinkInv' <=> LinkBase' /\ (Untouched' => LinkMemory' /\ LinkDisk')
BY Zenon DEF LinkInv, LinkBase, LinkMemory, LinkDisk, Untouched

LEMMA LinkBaseInit == Init => LinkBase
BY DEF Init, LinkBase

\* PreciousBlock gives negative sequence ids only.
LEMMA PreciousIds ==
    ASSUME TypeOK, LinkBase, NEW b \in Block, seqId' = [seqId EXCEPT ![b] = ReverseId]
    PROVE  \A x \in Block : seqId'[x] > 0 => x \in linked
<1>1. ReverseId < 0 /\ ReverseId \in Int
  BY DEF ReverseId, TypeOK
<1> QED
  BY <1>1 DEF LinkBase, TypeOK

\* A batch that contains everything dirty leaves on disk what is in memory.
LEMMA LinkWrite ==
    ASSUME TypeOK, Sound, LinkBase, NEW d, NEW und, NEW fv, NEW fc, NEW coins,
           Stored(d, und, fv, fc, coins), dirty \subseteq d
    PROVE  /\ disk'.data = data
           /\ disk'.data \subseteq disk'.known
           /\ LinkDisk /\ fc \subseteq linked /\ fv \subseteq linked \cup Malformed =>
                /\ disk'.failedChild \subseteq LoadLinked(disk'.data)
                /\ disk'.failedValid \subseteq LoadLinked(disk'.data) \cup Malformed
<1>1. /\ disk'.known = disk.known \cup d
      /\ disk'.data = (disk.data \ d) \cup (data \cap d)
      /\ disk'.failedValid \subseteq disk.failedValid \cup fv
      /\ disk'.failedChild \subseteq disk.failedChild \cup fc
  BY WrittenFields DEF Stored
<1>2. /\ disk.data \subseteq data /\ data \subseteq disk.data \cup dirty
      /\ disk.data \subseteq disk.known
  BY Zenon DEF LinkBase
<1>3. disk'.data = data /\ disk'.data \subseteq disk'.known
  BY <1>1, <1>2, Zenon
<1>4. LoadLinked(disk.data) \subseteq LoadLinked(data)
  BY <1>2, Zenon DEF LoadLinked
<1>5. linked \subseteq LoadLinked(data)
  <2>1. \A b \in linked : b \in Path(b) /\ Path(b) \subseteq data
    BY PathProperties, Zenon DEF TypeOK, Sound
  <2> QED
    BY <2>1, Zenon DEF LoadLinked
<1> QED
  BY <1>1, <1>3, <1>4, <1>5, ZenonT(40) DEF LinkDisk

\* Ancestors of linked blocks are linked.
LEMMA LinkedBelow ==
    ASSUME TypeOK, Sound, LinkMemory, NEW c \in linked
    PROVE  Path(c) \subseteq linked
<1>1. c \in Block /\ Path(c) \subseteq data
  BY Zenon DEF TypeOK, Sound
<1>2. \A x \in Path(c) : Path(x) \subseteq data
  BY <1>1, PathTransitive, Zenon
<1> QED
  BY <1>1, <1>2, Zenon DEF LinkMemory

LEMMA MarkLinked ==
    ASSUME TypeOK, Sound, LinkMemory, NEW passed \in SUBSET candidates
    PROVE  Mark(passed) \subseteq linked
<1>1. \A c \in passed : Path(c) \subseteq linked
  BY LinkedBelow, Zenon DEF Sound
<1> QED
  BY <1>1, MarkDoes, Zenon DEF LinkMemory

LEMMA LinkStep ==
    ASSUME TypeOK, Sound, LinkInv, NEW t \in Threads, NEW most \in linked, NEW fc \in SUBSET Block,
           LinkMemory => fc \subseteq linked,
           StepEffect(t, most, candidates, fc)
    PROVE  LinkInv'
<1>1. PICK rejected \in SUBSET (Invalid \cap Path(most)) :
        /\ tip' \in Path(most)
        /\ failedValid' = failedValid \cup rejected
        /\ failedChild' = fc
        /\ FlushIfNeeded(tip', fc, rejected)
        /\ UNCHANGED <<links, order>>
  BY Zenon DEF StepEffect
<1>2. most \in Block /\ tip \in Block /\ tip' \in Block /\ rejected \in SUBSET Block
  BY <1>1, PathProperties, Zenon DEF TypeOK
<1>3. UNCHANGED <<known, data, linked, unlinked, seqId>>
  BY <1>1, Zenon DEF links, order
<1>4. Untouched' => Untouched
  BY <1>1, <1>2, FlushType, Zenon DEF Untouched
<1>5. LinkBase /\ (Untouched => LinkMemory /\ LinkDisk)
  BY LinkForm, Zenon
<1>6. LinkMemory => LinkMemory'
  <2>1. LinkMemory => rejected \subseteq linked
    BY LinkedBelow, Zenon
  <2> QED
    BY <1>1, <1>3, <2>1, Zenon DEF LinkMemory
<1>7. FlushEffect(tip', fc, rejected)
  BY <1>1, <1>2, FlushDoes, Zenon
<1>8. CASE dirty' = dirty \cup Fresh(tip', fc) \cup rejected /\ UNCHANGED disk
  <2>1. LinkBase' /\ (LinkDisk => LinkDisk')
    BY <1>3, <1>5, <1>8, Zenon DEF LinkBase, LinkDisk
  <2> QED
    BY <1>4, <1>5, <1>6, <2>1, LinkForm, Zenon
<1>9. ASSUME NEW d, NEW und, NEW coins, dirty \subseteq d,
             disk' = Written(d, und, failedValid, fc, coins)
      PROVE  LinkInv'
  <2>1. /\ disk'.data = data
        /\ disk'.data \subseteq disk'.known
        /\ LinkDisk /\ fc \subseteq linked /\ failedValid \subseteq linked \cup Malformed =>
              /\ disk'.failedChild \subseteq LoadLinked(disk'.data)
              /\ disk'.failedValid \subseteq LoadLinked(disk'.data) \cup Malformed
    <3>1. Stored(d, und, failedValid, fc, coins)
      BY <1>9, Zenon DEF Stored
    <3> QED
      BY <1>5, <1>9, <3>1, LinkWrite, Zenon
  <2>2. LinkBase'
    BY <1>3, <1>5, <2>1, Zenon DEF LinkBase
  <2>3. LinkMemory /\ LinkDisk => LinkDisk'
    BY <2>1, Zenon DEF LinkMemory, LinkDisk, LoadLinked
  <2> QED
    BY <1>4, <1>5, <1>6, <2>2, <2>3, LinkForm, Zenon
<1> QED
  BY <1>7, <1>8, <1>9, ZenonT(40) DEF FlushEffect, Flushed

\* A block above b that has been received waits in mapBlocksUnlinked until b comes.
LEMMA AboveWaits ==
    ASSUME TypeOK, Sound, LinkBase, LinkMemory, NEW b \in Block, b \notin data, b \notin Malformed,
           NEW x \in data, b \in Path(x), Path(x) \subseteq data \cup {b}
    PROVE  x \in unlinked
<1>1. x \in Block /\ x # b
  BY Zenon DEF TypeOK
<1>2. x \notin linked
  BY DEF Sound
<1>3. x # Genesis
  BY PathGenesis, Zenon
<1>4. Pprev(x) \in Path(x)
  BY <1>1, <1>3, PathPprev, PathProperties
<1>5. Pprev(x) \notin Malformed
  BY <1>4, Zenon DEF Sound
<1> QED
  BY <1>2, <1>5, Zenon DEF LinkMemory

LEMMA LinkReceivedLinked ==
    ASSUME TypeOK, Sound, LinkBase, LinkMemory, NEW b \in Block, b \notin data, b \notin Malformed,
           Pprev(b) \in linked, data' = data \cup {b},
           linked' = linked \cup LinkedWith(b), unlinked' = unlinked \ LinkedWith(b),
           UNCHANGED <<failedValid, failedChild>>
    PROVE  LinkMemory'
<1>1. ASSUME NEW x \in data', Path(x) \subseteq data'
      PROVE  x \in linked'
  <2>1. CASE x = b
    BY <2>1, Zenon DEF LinkedWith
  <2>2. CASE x # b /\ b \notin Path(x)
    BY <1>1, <2>2, Zenon DEF LinkMemory
  <2>3. CASE x # b /\ b \in Path(x)
    <3>1. x \in data /\ x \in Block
      BY <2>3, Zenon DEF TypeOK
    <3>2. x \in unlinked
      BY <1>1, <2>3, AboveWaits, Zenon
    <3>3. ASSUME NEW y \in Path(x), Height(y) > Height(b)
          PROVE  y \in unlinked
      <4>1. Height(y) \in Nat /\ Height(b) \in Nat /\ y \in Block
        BY <3>1, PathProperties, Zenon
      <4>2. y # b /\ Height(b) <= Height(y)
        BY <3>3, <4>1
      <4>3. b \in Path(y) /\ Path(y) \subseteq Path(x)
        BY <2>3, <3>1, <4>2, PathOrder, PathTransitive, Zenon
      <4>4. y \in data /\ Path(y) \subseteq data \cup {b}
        BY <1>1, <4>2, <4>3, Zenon
      <4> QED
        BY <4>3, <4>4, AboveWaits, Zenon
    <3>4. x \in LinkedWith(b)
      BY <2>3, <3>2, <3>3, Zenon DEF LinkedWith
    <3> QED
      BY <3>4, Zenon
  <2> QED
    BY <2>1, <2>2, <2>3, Zenon
<1>2. b \in LinkedWith(b)
  BY Zenon DEF LinkedWith
<1>3. \A x \in data' \ linked' : x \in unlinked' \/ Pprev(x) \in failedValid' \cap Malformed
  BY <1>2, Zenon DEF LinkMemory
<1> QED
  BY <1>1, <1>3, Zenon DEF LinkMemory

LEMMA LinkReceivedWaits ==
    ASSUME TypeOK, Sound, LinkBase, LinkMemory, NEW b \in Block, b \notin data, b \notin Malformed,
           b # Genesis, Pprev(b) \notin linked, data' = data \cup {b}, unlinked' = Wait(b),
           UNCHANGED <<failedValid, failedChild, linked>>
    PROVE  LinkMemory'
<1>1. /\ Pprev(b) \in Block /\ Pprev(b) \in Path(Pprev(b)) /\ b \notin Path(Pprev(b))
      /\ Path(b) = Path(Pprev(b)) \cup {b}
  BY PathPprev, PathProperties, Zenon
<1>2. ASSUME NEW x \in data', Path(x) \subseteq data'
      PROVE  x \in linked'
  <2>1. CASE b \notin Path(x)
    <3>1. x \in Path(x)
      BY PathProperties, Zenon DEF TypeOK
    <3> QED
      BY <1>2, <2>1, <3>1, Zenon DEF LinkMemory
  <2>2. CASE b \in Path(x)
    <3>1. Path(b) \subseteq Path(x)
      BY <2>2, PathTransitive, Zenon DEF TypeOK
    <3>2. Pprev(b) \in data /\ Path(Pprev(b)) \subseteq data
      BY <1>1, <1>2, <3>1, Zenon
    <3> QED
      BY <3>2, Zenon DEF LinkMemory
  <2> QED
    BY <2>1, <2>2, Zenon
<1>3. b \in unlinked' \/ Pprev(b) \in failedValid' \cap Malformed
  BY Zenon DEF Wait, Failed, LinkMemory
<1>4. \A x \in data' \ linked' : x \in unlinked' \/ Pprev(x) \in failedValid' \cap Malformed
  BY <1>3, Zenon DEF LinkMemory, Wait
<1> QED
  BY <1>2, <1>4, Zenon DEF LinkMemory

LEMMA LinkReceived ==
    ASSUME TypeOK, Sound, LinkBase, NEW b \in Block, b \notin data, b \notin Malformed,
           ReceivedBlockTransactions(b), UNCHANGED <<failedValid, failedChild, disk>>,
           known' = known \cup {b}, dirty' = dirty \cup {b}
    PROVE  LinkBase' /\ (LinkMemory => LinkMemory')
<1>1. data' = data \cup {b}
  BY Zenon DEF ReceivedBlockTransactions
<1>2. b # Genesis
  BY Zenon DEF LinkBase
<1>3. CASE Pprev(b) \in linked
  <2>1. /\ linked' = linked \cup LinkedWith(b)
        /\ unlinked' = unlinked \ LinkedWith(b)
    BY <1>3, Zenon DEF ReceivedBlockTransactions
  <2>2. PICK rank \in QueueOrders(LinkedWith(b)) :
            seqId' = [x \in Block |-> IF x \in LinkedWith(b) THEN nextSeq + rank[x] - 1
                                     ELSE seqId[x]]
    BY <1>3, Zenon DEF ReceivedBlockTransactions
  <2>3. \A x \in Block : seqId'[x] > 0 => x \in linked'
    BY <2>1, <2>2, Zenon DEF LinkBase
  <2>4. LinkBase'
    BY <1>1, <2>1, <2>3, Zenon DEF LinkBase
  <2> QED
    BY <1>1, <1>3, <2>1, <2>4, LinkReceivedLinked, Zenon
<1>4. CASE Pprev(b) \notin linked
  <2>1. unlinked' = Wait(b) /\ UNCHANGED <<linked, seqId>>
    BY <1>4, Zenon DEF ReceivedBlockTransactions
  <2>2. b \notin linked
    BY PathProperties, Zenon DEF Sound
  <2>3. LinkBase'
    BY <1>1, <2>1, <2>2, Zenon DEF LinkBase, Wait
  <2> QED
    BY <1>1, <1>2, <1>4, <2>1, <2>3, LinkReceivedWaits, Zenon
<1> QED
  BY <1>3, <1>4, Zenon

LEMMA LinkProcess ==
    ASSUME TypeOK, Sound, LinkInv, NEW t \in Threads, NEW b \in Block, NEW requested,
           ProcessNewBlock(t, b, requested)
    PROVE  LinkInv'
<1>1. known' = known \cup {b} /\ UNCHANGED <<undo, tip, disk, count>>
  BY Zenon DEF ProcessNewBlock
<1>2. LinkBase /\ (Untouched => LinkMemory /\ LinkDisk)
  BY LinkForm, Zenon
<1>3. (Untouched' <=> Untouched) /\ (LinkDisk' <=> LinkDisk)
  BY <1>1, Zenon DEF Untouched, LinkDisk, LoadLinked
<1>4. CASE /\ b \notin data /\ b \notin Malformed /\ ReceivedBlockTransactions(b)
           /\ dirty' = dirty \cup {b} /\ UNCHANGED flags
  <2>1. LinkBase' /\ (LinkMemory => LinkMemory')
    BY <1>1, <1>2, <1>4, LinkReceived, Zenon DEF flags
  <2> QED
    BY <1>2, <1>3, <2>1, LinkForm, Zenon
<1>5. CASE /\ b \in Malformed /\ failedValid' = failedValid \cup {b} /\ dirty' = dirty \cup {b}
           /\ UNCHANGED <<failedChild, data, linked, unlinked, candidates, order, threads>>
  <2>1. LinkBase'
    BY <1>1, <1>2, <1>5, ZenonT(40) DEF LinkBase, order
  <2>2. LinkMemory => LinkMemory'
    BY <1>5, Zenon DEF LinkMemory
  <2> QED
    BY <1>2, <1>3, <2>1, <2>2, LinkForm, Zenon
<1>6. CASE /\ dirty' = (IF b \in known THEN dirty ELSE dirty \cup {b})
           /\ UNCHANGED <<flags, data, linked, unlinked, candidates, order>>
  <2>1. LinkBase'
    BY <1>1, <1>2, <1>6, Zenon DEF LinkBase, order
  <2>2. LinkMemory => LinkMemory'
    BY <1>6, Zenon DEF LinkMemory, flags
  <2> QED
    BY <1>2, <1>3, <2>1, <2>2, LinkForm
<1> QED
  BY <1>4, <1>5, <1>6, Zenon DEF ProcessNewBlock

LEMMA LinkNothing ==
    ASSUME TypeOK, Sound, LinkInv, NEW t \in Threads, NothingToDo(t)
    PROVE  LinkInv'
<1>1. UNCHANGED <<failedValid, links, undo, order, tip, dirty, disk, count>>
  BY TypeNothing, Zenon
<1>2. LinkBase /\ (Untouched => LinkMemory /\ LinkDisk)
  BY LinkForm, Zenon
<1>3. (Untouched' <=> Untouched) /\ (LinkDisk' <=> LinkDisk) /\ LinkBase'
  BY <1>1, <1>2, Zenon DEF Untouched, LinkDisk, LoadLinked, LinkBase, links, order
<1>4. LinkMemory => failedChild' \subseteq linked
  BY TypeNothing, MarkLinked, Zenon DEF LinkMemory
<1>5. LinkMemory => LinkMemory'
  BY <1>1, <1>4, Zenon DEF LinkMemory, links
<1> QED
  BY <1>2, <1>3, <1>5, LinkForm, Zenon

LEMMA LinkInvalidate ==
    ASSUME TypeOK, Sound, LinkInv, NEW t \in Threads, NEW b \in Block, InvalidateEffect(t, b)
    PROVE  LinkInv'
<1>1. PICK walked \in SUBSET Path(tip), d \in SUBSET Block, fc \in SUBSET Block, coins \in Path(tip) :
        /\ \/ dirty' = dirty \cup {b} \cup walked /\ UNCHANGED disk
           \/ /\ disk' = Written(d, undo, failedValid', fc, coins)
              /\ dirty \subseteq d /\ dirty' \subseteq walked
        /\ count'["invalidate"] # 0
        /\ UNCHANGED <<links, undo, order>>
  BY ZenonT(40) DEF InvalidateEffect
<1>2. LinkBase
  BY LinkForm
<1>3. ~Untouched'
  BY <1>1 DEF Untouched
<1>4. CASE dirty' = dirty \cup {b} \cup walked /\ UNCHANGED disk
  <2>1. LinkBase'
    BY <1>1, <1>2, <1>4 DEF LinkBase, links, order
  <2> QED
    BY <1>3, <2>1, LinkForm
<1>5. CASE disk' = Written(d, undo, failedValid', fc, coins) /\ dirty \subseteq d
  <2>1. disk'.data = data /\ disk'.data \subseteq disk'.known
    <3>1. Stored(d, undo, failedValid', fc, coins)
      BY <1>5, Zenon DEF Stored
    <3> QED
      BY <1>2, <1>5, <3>1, LinkWrite, Zenon
  <2>2. LinkBase'
    BY <1>1, <1>2, <2>1, Zenon DEF LinkBase, links, order
  <2> QED
    BY <1>3, <2>2, LinkForm
<1> QED
  BY <1>1, <1>4, <1>5, Zenon

LEMMA LinkFlush ==
    ASSUME TypeOK, Sound, LinkInv, FlushStateToDisk
    PROVE  LinkInv'
<1>1. PICK coins \in {disk.tip, tip} : Flushed(dirty, undo, failedValid, failedChild, coins)
  BY TypeFlush, Zenon
<1>2. UNCHANGED <<flags, links, order>> /\ (Untouched' <=> Untouched)
  BY TypeFlush, Zenon DEF Untouched
<1>3. LinkBase /\ (Untouched => LinkMemory /\ LinkDisk)
  BY LinkForm, Zenon
<1>4. /\ disk'.data = data /\ disk'.data \subseteq disk'.known
      /\ LinkDisk /\ failedChild \subseteq linked /\ failedValid \subseteq linked \cup Malformed =>
            /\ disk'.failedChild \subseteq LoadLinked(disk'.data)
            /\ disk'.failedValid \subseteq LoadLinked(disk'.data) \cup Malformed
  <2>1. Stored(dirty, undo, failedValid, failedChild, coins) /\ dirty \subseteq dirty
    BY <1>1, Zenon DEF Flushed, Stored
  <2> QED
    BY <1>3, <2>1, LinkWrite, Zenon
<1>5. LinkBase'
  BY <1>2, <1>3, <1>4, Zenon DEF LinkBase, links, order
<1>6. LinkMemory => LinkMemory'
  BY <1>2, Zenon DEF LinkMemory, links, flags
<1>7. LinkMemory /\ LinkDisk => LinkDisk'
  BY <1>4, Zenon DEF LinkMemory, LinkDisk, LoadLinked
<1> QED
  BY <1>2, <1>3, <1>5, <1>6, <1>7, LinkForm, Zenon

LEMMA LinkRestart ==
    ASSUME TypeOK, Sound, LinkInv, NEW t \in Threads, Restart(t)
    PROVE  LinkInv'
<1>1. /\ known' = disk.known /\ data' = disk.data
      /\ failedValid' = disk.failedValid /\ failedChild' = disk.failedChild
      /\ linked' = LoadLinked(disk.data) /\ unlinked' = LoadUnlinked(disk.data)
      /\ seqId' = [b \in Block |-> 0]
      /\ UNCHANGED disk
  BY Zenon DEF Restart
<1>2. Untouched' <=> Untouched
  BY TypeRestart, Zenon DEF Untouched
<1>3. LinkBase /\ (Untouched => LinkMemory /\ LinkDisk)
  BY LinkForm
<1>4. disk.data \subseteq Block
  BY Zenon DEF TypeOK
<1>5. \A b \in disk.data \ {Genesis} : Path(b) = Path(Pprev(b)) \cup {b} /\ Pprev(b) \in Path(Pprev(b))
  BY <1>4, PathPprev, PathProperties, Zenon
<1>6. Genesis \in linked'
  BY <1>1, <1>3, PathGenesis, Zenon DEF LinkBase, LoadLinked
<1>7. unlinked' \subseteq data' \ linked'
  BY <1>1, <1>5 DEF LoadLinked, LoadUnlinked
<1>8. \A b \in data' \ linked' : b \in unlinked'
  BY <1>1, <1>5, <1>6 DEF LoadLinked, LoadUnlinked
<1>9. LinkBase'
  <2>1. \A b \in Block : ~(seqId'[b] > 0)
    BY <1>1
  <2> QED
    BY <1>1, <1>3, <1>7, <2>1, Zenon DEF LinkBase
<1>10. LinkDisk => LinkMemory' /\ LinkDisk'
  BY <1>1, <1>8, Zenon DEF LinkMemory, LinkDisk, LoadLinked
<1> QED
  BY <1>2, <1>3, <1>9, <1>10, LinkForm, Zenon

LEMMA LinkOthers ==
    ASSUME TypeOK, LinkInv,
           \/ UNCHANGED vars
           \/ \E b \in Block : AcceptBlockHeader(b)
           \/ \E t \in Threads, b \in Block : ResetBlockFailureFlags(t, b)
           \/ \E t \in Threads, b \in Block : PreciousBlock(t, b)
    PROVE  LinkInv'
<1>1. LinkBase /\ (Untouched => LinkMemory /\ LinkDisk)
  BY LinkForm, Zenon
<1>2. CASE UNCHANGED vars
  <2>1. LinkBase' /\ (Untouched' <=> Untouched)
    BY <1>1, <1>2, Zenon DEF vars, LinkBase, Untouched, flags, links, order
  <2>2. (LinkMemory => LinkMemory') /\ (LinkDisk => LinkDisk')
    BY <1>2, Zenon DEF vars, LinkMemory, LinkDisk, LoadLinked, flags, links
  <2> QED
    BY <1>1, <2>1, <2>2, LinkForm, Zenon
<1>3. ASSUME NEW b \in Block, AcceptBlockHeader(b) PROVE LinkInv'
  <2>1. LinkBase' /\ (Untouched' <=> Untouched)
    <3>1. /\ known' = known \cup {b} /\ dirty' = dirty \cup {b}
          /\ UNCHANGED <<data, linked, unlinked, seqId, disk, count>>
      BY <1>3, Zenon DEF AcceptBlockHeader, order
    <3> QED
      BY <1>1, <3>1, Zenon DEF LinkBase, Untouched
  <2>2. (LinkMemory => LinkMemory') /\ (LinkDisk => LinkDisk')
    BY <1>3, Zenon DEF AcceptBlockHeader, LinkMemory, LinkDisk, LoadLinked, flags
  <2> QED
    BY <1>1, <2>1, <2>2, LinkForm, Zenon
<1>4. ASSUME NEW t \in Threads, NEW b \in Block, ResetBlockFailureFlags(t, b) PROVE LinkInv'
  <2>1. /\ dirty \subseteq dirty' /\ count' = [count EXCEPT !["reconsider"] = @ + 1]
        /\ UNCHANGED <<links, order, disk>>
    BY <1>4 DEF ResetBlockFailureFlags, Bounded
  <2>2. ~Untouched'
    BY <2>1, CountedRPC, Zenon DEF Untouched
  <2>3. LinkBase'
    BY <1>1, <2>1, Zenon DEF LinkBase, links, order
  <2> QED
    BY <2>2, <2>3, LinkForm, Zenon
<1>5. ASSUME NEW t \in Threads, NEW b \in Block, PreciousBlock(t, b) PROVE LinkInv'
  <2>1. /\ seqId' = [seqId EXCEPT ![b] = ReverseId]
        /\ count' = [count EXCEPT !["precious"] = @ + 1]
        /\ UNCHANGED <<flags, links, dirty, disk>>
    BY <1>5, Zenon DEF PreciousBlock, Bounded
  <2>2. Untouched' <=> Untouched
    BY <2>1, CountedRPC, Zenon DEF Untouched
  <2>4. \A x \in Block : seqId'[x] > 0 => x \in linked
    BY <1>1, <2>1, PreciousIds, Zenon
  <2>5. LinkBase'
    BY <1>1, <2>1, <2>4, Zenon DEF LinkBase, links
  <2>6. (LinkMemory => LinkMemory') /\ (LinkDisk => LinkDisk')
    BY <2>1, Zenon DEF LinkMemory, LinkDisk, LoadLinked, links, flags
  <2> QED
    BY <1>1, <2>2, <2>5, <2>6, LinkForm, Zenon
<1> QED
  BY <1>2, <1>3, <1>4, <1>5, Zenon

LEMMA LinkNext ==
    ASSUME TypeOK, Sound, LinkInv, [Next]_vars
    PROVE  LinkInv'
<1>1. ASSUME NEW t \in Threads, FindAndStep(t) PROVE LinkInv'
  <2>1. PICK most \in candidates :
            /\ BetterThan(most) \subseteq candidates
            /\ Mark(BetterThan(most)) \subseteq Block
            /\ StepEffect(t, most, candidates, Mark(BetterThan(most)))
    BY <1>1, TypeFindAndStep, Zenon
  <2>2. most \in linked
    BY Zenon DEF Sound
  <2>3. LinkMemory => Mark(BetterThan(most)) \subseteq linked
    BY <2>1, MarkLinked, Zenon
  <2> QED
    BY <2>1, <2>2, <2>3, LinkStep, Zenon
<1>2. ASSUME NEW t \in Threads, StepAgain(t) PROVE LinkInv'
  <2>1. goal[t] \in linked /\ failedChild \in SUBSET Block
    BY <1>2, Zenon DEF StepAgain, Sound, TypeOK
  <2>2. LinkMemory => failedChild \subseteq linked
    BY Zenon DEF LinkMemory
  <2> QED
    BY <1>2, <2>1, <2>2, TypeStepAgain, LinkStep, Zenon
<1>3. ASSUME NEW t \in Threads, NEW b \in Block, InvalidateBlock(t, b) PROVE LinkInv'
  BY <1>3, InvalidateDoes, LinkInvalidate, Zenon
<1> QED
  BY <1>1, <1>2, <1>3, LinkOthers, LinkProcess, LinkNothing, LinkFlush, LinkRestart, Zenon DEF Next

LEMMA LinkImplies ==
    ASSUME TypeOK, Sound, LinkInv, count.invalidate = 0, count.reconsider = 0
    PROVE  LinksConsistent
<1>1. LinkBase /\ LinkMemory
  BY LinkForm, Zenon DEF Untouched
<1>2. known \subseteq Block
  BY Zenon DEF TypeOK
<1> SUFFICES ASSUME NEW b \in known
             PROVE  /\ b \in linked <=> Path(b) \subseteq data
                    /\ b \in unlinked => b \in data \ linked
                    /\ b \in data \ linked /\ Path(b) \cap failedValid = {} => b \in unlinked
                    /\ seqId[b] > 0 => b \in linked
  BY Zenon DEF LinksConsistent
<1>3. b \in Block /\ b \in Path(b)
  BY <1>2, PathProperties, Zenon
<1>4. b \in linked <=> Path(b) \subseteq data
  BY <1>1, <1>3, Zenon DEF Sound, LinkMemory
<1>5. b \in data \ linked /\ Path(b) \cap failedValid = {} => b \in unlinked
  <2> SUFFICES ASSUME b \in data \ linked, Path(b) \cap failedValid = {}, b \notin unlinked
               PROVE  FALSE
    OBVIOUS
  <2>1. b # Genesis
    BY <1>4, PathGenesis, Zenon
  <2>2. Pprev(b) \in Path(b)
    BY <1>3, <2>1, PathPprev, PathProperties
  <2> QED
    BY <1>1, <2>2, Zenon DEF LinkMemory
<1> QED
  BY <1>1, <1>3, <1>4, <1>5, Zenon DEF LinkBase

-----------------------------------------------------------------------------
(* The theorems.                                                           *)

\* SoundInv and LinkInv are invariants of the block index, whatever the block tree, the threads
\* and the bounds, through reorganisations, RPCs, flushes and restarts.
THEOREM ChainInvariant == Spec => [](SoundInv /\ LinkInv)
<1>1. Init => Sound /\ LinkInv
  <2> SUFFICES ASSUME Init PROVE Sound /\ LinkInv
    OBVIOUS
  <2>1. Genesis \in Block /\ Path(Genesis) = {Genesis}
    BY PathGenesis, Zenon
  <2>2. Genesis \notin Malformed /\ Genesis \notin Invalid
    BY ChainAssumption, Zenon
  <2>3. ~Tainted(Genesis)
    BY <2>1, <2>2, Zenon DEF Tainted, Unsound
  <2>4. Sound
    BY <2>1, <2>2, <2>3, Zenon DEF Init, Sound
  <2>5. LinkBase
    BY LinkBaseInit, Zenon
  <2>6. LinkMemory /\ LinkDisk
    BY Zenon DEF Init, LinkMemory, LinkDisk
  <2> QED
    BY <2>4, <2>5, <2>6, LinkForm, Zenon
<1>2. TypeOK /\ Sound /\ LinkInv /\ [Next]_vars => Sound' /\ LinkInv'
  <2>1. LinkInv => Genesis \in data
    BY Zenon DEF LinkInv
  <2> QED
    BY <2>1, SoundNext, LinkNext, Zenon
<1>3. TypeOK /\ Sound => SoundInv
  BY SoundForm, Zenon
<1> QED
  BY <1>1, <1>2, <1>3, ChainTypeCorrect, PTL DEF Spec

\* FindMostWorkChain's assumption: until a block is invalidated by RPC the active chain contains
\* no block that is marked as failed, also after a restart.
THEOREM ActiveChainIsValid == Spec => [](count.invalidate = 0 => ActiveChainValid)
<1>1. SoundInv => (count.invalidate = 0 => ActiveChainValid)
  BY SoundForm, SoundImplies, Zenon
<1> QED
  BY <1>1, ChainInvariant, PTL

\* CheckBlockIndex, on nChainTx, mapBlocksUnlinked and nSequenceId: until a block is invalidated
\* or reconsidered by RPC, in whatever order headers and blocks arrive, exactly the blocks
\* whose whole ancestry has been received are linked and the others wait.
THEOREM LinksAreConsistent ==
    Spec => [](count.invalidate = 0 /\ count.reconsider = 0 => LinksConsistent)
<1>1. SoundInv /\ LinkInv => (count.invalidate = 0 /\ count.reconsider = 0 => LinksConsistent)
  BY SoundForm, LinkImplies, Zenon
<1> QED
  BY <1>1, ChainInvariant, PTL

-----------------------------------------------------------------------------
(* What the best chain is made of.                                         *)

\* Ancestors of linked blocks are linked, the active chain and the chain of the coins on disk
\* are complete, and only a thread in ActivateBestChain has a pindexMostWork.
BaseInv ==
    /\ \A b \in linked : Path(b) \subseteq linked
    /\ tip \in linked
    /\ Path(disk.tip) \subseteq disk.data
    /\ \A t \in Threads : goal[t] # NoBlock => pc[t] = "loop"

\* A write that contains everything dirty puts the coins' chain on disk.
LEMMA BaseWrite ==
    ASSUME TypeOK, Sound, LinkBase, NEW d, NEW und, NEW fv, NEW fc, NEW coins,
           Stored(d, und, fv, fc, coins), dirty \subseteq d, Path(coins) \subseteq data
    PROVE  Path(disk'.tip) \subseteq disk'.data
<1>1. disk'.data = data
  BY LinkWrite, Zenon
<1>2. disk'.tip = coins
  BY StoredFields
<1> QED  BY <1>1, <1>2, Zenon

\* A thread drops its pindexMostWork when it returns.
Goes(t) == Return(t) \/ (UNCHANGED pc /\ \E n : goal' = [goal EXCEPT ![t] = n])

LEMMA StepGoes ==
    ASSUME NEW t \in Threads, NEW most, NEW cands, NEW fc, Step(t, most, cands, fc)
    PROVE  Goes(t)
BY Zenon DEF Step, Goes

LEMMA GoalsInLoop ==
    ASSUME TypeOK, BaseInv, NEW t \in Threads,
           Return(t) \/ CallActivateBestChain(t) \/ (pc[t] = "loop" /\ Goes(t))
    PROVE  \A u \in Threads : goal'[u] # NoBlock => pc'[u] = "loop"
BY Zenon DEF TypeOK, BaseInv, Return, CallActivateBestChain, Goes

LEMMA BaseStep ==
    ASSUME TypeOK, Sound, LinkBase, BaseInv, NEW t \in Threads, pc[t] = "loop", Goes(t),
           NEW most \in linked, NEW cands, NEW fc \in SUBSET Block, StepEffect(t, most, cands, fc)
    PROVE  BaseInv'
<1>1. PICK rejected \in SUBSET (Invalid \cap Path(most)) :
        /\ tip' \in Path(most)
        /\ FlushIfNeeded(tip', fc, rejected)
        /\ UNCHANGED <<links, order>>
  BY Zenon DEF StepEffect
<1>2. most \in Block /\ tip \in Block /\ tip' \in Block
  BY <1>1, PathProperties, Zenon DEF TypeOK
<1>3. linked' = linked /\ tip' \in linked /\ tip \in linked
  BY <1>1, Zenon DEF BaseInv, links
<1>4. \A u \in Threads : goal'[u] # NoBlock => pc'[u] = "loop"
  BY GoalsInLoop, Zenon
<1>5. FlushEffect(tip', fc, rejected)
  BY <1>1, <1>2, FlushDoes, Zenon
<1>6. CASE UNCHANGED disk
  BY <1>3, <1>4, <1>6, Zenon DEF BaseInv
<1>7. ASSUME NEW coins \in Path(tip) \cup Path(tip'), NEW d, NEW und, dirty \subseteq d,
             Flushed(d, und, failedValid, fc, coins)
      PROVE  BaseInv'
  <2>1. Path(coins) \subseteq data
    <3>1. Path(coins) \subseteq Path(tip) \/ Path(coins) \subseteq Path(tip')
      BY <1>2, <1>7, PathTransitive, Zenon
    <3>2. Path(tip) \subseteq data /\ Path(tip') \subseteq data
      BY <1>3, Zenon DEF Sound
    <3> QED  BY <3>1, <3>2, Zenon
  <2>2. Stored(d, und, failedValid, fc, coins)
    BY <1>7, Zenon DEF Flushed, Stored
  <2>3. Path(disk'.tip) \subseteq disk'.data
    BY <1>7, <2>1, <2>2, BaseWrite, Zenon
  <2> QED  BY <1>3, <1>4, <2>3, Zenon DEF BaseInv
<1>8. ASSUME NEW coins \in Block, NEW done, coins \in Path(tip) \cup Path(tip'),
             Flushed(dirty \cup done, undo \cup done, failedValid, fc, coins)
      PROVE  BaseInv'
  <2>1. dirty \subseteq dirty \cup done
    OBVIOUS
  <2> QED  BY <1>7, <1>8, <2>1, Zenon
<1> QED  BY <1>5, <1>6, <1>8, Zenon DEF FlushEffect

\* A block becomes linked with its ancestors.
LEMMA LinkedWithClosed ==
    ASSUME TypeOK, BaseInv, NEW b \in Block, b # Genesis, Pprev(b) \in linked, NEW x \in LinkedWith(b)
    PROVE  Path(x) \subseteq linked \cup LinkedWith(b)
<1>1. Path(b) \subseteq linked \cup {b} /\ b \in LinkedWith(b)
  BY PathPprev DEF BaseInv, LinkedWith
<1>2. CASE x = b
  BY <1>1, <1>2, Zenon
<1>3. CASE x # b
  <2>1. /\ x \in Block /\ b \in Path(x)
        /\ \A y \in Path(x) : Height(y) > Height(b) => y \in unlinked
    BY <1>3, Zenon DEF LinkedWith, TypeOK
  <2>2. ASSUME NEW y \in Path(x)
        PROVE  y \in linked \cup LinkedWith(b)
    <3>1. Height(y) \in Nat /\ Height(b) \in Nat /\ y \in Block /\ Path(y) \subseteq Path(x)
      BY <2>1, PathProperties, PathTransitive, Zenon
    <3>2. CASE Height(y) > Height(b)
      <4>1. b \in Path(y)
        BY <2>1, <3>1, <3>2, PathOrder
      <4> QED  BY <2>1, <3>1, <3>2, <4>1, Zenon DEF LinkedWith
    <3>3. CASE Height(y) <= Height(b)
      BY <1>1, <2>1, <3>3, PathOrder
    <3> QED  BY <3>1, <3>2, <3>3
  <2> QED  BY <2>2, Zenon
<1> QED  BY <1>2, <1>3, Zenon

LEMMA BaseProcess ==
    ASSUME TypeOK, Sound, LinkBase, BaseInv, NEW t \in Threads, NEW b \in Block, NEW requested,
           ProcessNewBlock(t, b, requested)
    PROVE  BaseInv'
<1>1. UNCHANGED <<tip, disk>>
  BY Zenon DEF ProcessNewBlock
<1>2. \A u \in Threads : goal'[u] # NoBlock => pc'[u] = "loop"
  <2>1. CallActivateBestChain(t) \/ UNCHANGED threads
    BY Zenon DEF ProcessNewBlock
  <2>2. CASE UNCHANGED threads
    BY <2>2, Zenon DEF BaseInv, threads
  <2> QED  BY <2>1, <2>2, GoalsInLoop, Zenon
<1>3. CASE b \notin data /\ ReceivedBlockTransactions(b) /\ Pprev(b) \in linked
  <2>1. linked' = linked \cup LinkedWith(b)
    BY <1>3, Zenon DEF ReceivedBlockTransactions
  <2>2. b # Genesis
    BY <1>3, Zenon DEF LinkBase
  <2>3. \A x \in LinkedWith(b) : Path(x) \subseteq linked'
    BY <1>3, <2>1, <2>2, LinkedWithClosed, Zenon
  <2> QED  BY <1>1, <1>2, <2>1, <2>3, Zenon DEF BaseInv
<1>4. CASE UNCHANGED linked
  BY <1>1, <1>2, <1>4, Zenon DEF BaseInv
<1>5. (b \notin data /\ ReceivedBlockTransactions(b)) \/ UNCHANGED linked
  BY Zenon DEF ProcessNewBlock
<1>6. ReceivedBlockTransactions(b) => Pprev(b) \in linked \/ UNCHANGED linked
  BY Zenon DEF ReceivedBlockTransactions
<1> QED  BY <1>3, <1>4, <1>5, <1>6, Zenon

LEMMA BaseInvalidate ==
    ASSUME TypeOK, Sound, LinkBase, BaseInv, NEW t \in Threads, NEW b \in Block, InvalidateEffect(t, b)
    PROVE  BaseInv'
<1>1. PICK d \in SUBSET Block, fc \in SUBSET Block, coins \in Path(tip) :
        /\ tip' \in Path(tip)
        /\ \/ UNCHANGED disk
           \/ disk' = Written(d, undo, failedValid', fc, coins) /\ dirty \subseteq d
        /\ goal' = [goal EXCEPT ![t] = NoBlock]
        /\ pc' = [pc EXCEPT ![t] = "loop"]
        /\ UNCHANGED <<links, undo, order>>
  BY ZenonT(40) DEF InvalidateEffect
<1>2. tip \in Block /\ Path(tip) \subseteq data
  BY DEF TypeOK, BaseInv, Sound
<1>3. linked' = linked /\ tip' \in linked
  BY <1>1, Zenon DEF BaseInv, links
<1>4. \A u \in Threads : goal'[u] # NoBlock => pc'[u] = "loop"
  BY <1>1, GoalsInLoop, Zenon DEF CallActivateBestChain
<1>5. Path(disk'.tip) \subseteq disk'.data
  <2>1. CASE UNCHANGED disk
    BY <2>1 DEF BaseInv
  <2>2. CASE disk' = Written(d, undo, failedValid', fc, coins) /\ dirty \subseteq d
    <3>1. Path(coins) \subseteq data
      BY <1>2, PathTransitive
    <3>2. Stored(d, undo, failedValid', fc, coins)
      BY <2>2, Zenon DEF Stored
    <3> QED  BY <2>2, <3>1, <3>2, BaseWrite, Zenon
  <2> QED  BY <1>1, <2>1, <2>2, Zenon
<1> QED  BY <1>3, <1>4, <1>5, Zenon DEF BaseInv

LEMMA BaseFlush ==
    ASSUME TypeOK, Sound, LinkBase, BaseInv, FlushStateToDisk
    PROVE  BaseInv'
<1>1. PICK coins \in {disk.tip, tip} : Flushed(dirty, undo, failedValid, failedChild, coins)
  BY TypeFlush
<1>2. UNCHANGED <<links, tip, threads>>
  BY TypeFlush, ZenonT(40)
<1>3. Path(coins) \subseteq data
  <2>1. Path(tip) \subseteq data
    BY Zenon DEF BaseInv, Sound
  <2>2. Path(disk.tip) \subseteq data
    BY DEF BaseInv, LinkBase
  <2> QED  BY <2>1, <2>2, Zenon
<1>4. Stored(dirty, undo, failedValid, failedChild, coins) /\ dirty \subseteq dirty
  BY <1>1, Zenon DEF Flushed, Stored
<1>5. Path(disk'.tip) \subseteq disk'.data
  BY <1>3, <1>4, BaseWrite, Zenon
<1> QED  BY <1>2, <1>5 DEF BaseInv, links, threads

LEMMA BaseRestart ==
    ASSUME TypeOK, BaseInv, NEW t \in Threads, Restart(t)
    PROVE  BaseInv'
<1>1. /\ linked' = LoadLinked(disk.data) /\ tip' = disk.tip /\ UNCHANGED disk
      /\ goal' = [x \in Threads |-> NoBlock]
  BY Zenon DEF Restart
<1>2. disk.data \subseteq Block /\ disk.tip \in Block
  BY Zenon DEF TypeOK
<1>3. \A b \in LoadLinked(disk.data) : Path(b) \subseteq LoadLinked(disk.data)
  BY <1>2, PathTransitive, Zenon DEF LoadLinked
<1>4. disk.tip \in LoadLinked(disk.data)
  BY <1>2, PathProperties, Zenon DEF BaseInv, LoadLinked
<1>5. \A u \in Threads : goal'[u] = NoBlock
  BY <1>1, Zenon
<1>6. Path(disk'.tip) \subseteq disk'.data
  BY <1>1, Zenon DEF BaseInv
<1> QED  BY <1>1, <1>3, <1>4, <1>5, <1>6, Zenon DEF BaseInv

LEMMA BaseNext ==
    ASSUME TypeOK, Sound, LinkBase, BaseInv, [Next]_vars
    PROVE  BaseInv'
<1>1. CASE UNCHANGED <<linked, tip, disk, pc, goal>>
  BY <1>1, Zenon DEF BaseInv
<1>2. CASE UNCHANGED vars
  BY <1>1, <1>2, Zenon DEF vars, links, threads
<1>3. ASSUME NEW b \in Block, AcceptBlockHeader(b) PROVE BaseInv'
  BY <1>1, <1>3, Zenon DEF AcceptBlockHeader, threads
<1>4. ASSUME NEW t \in Threads, FindAndStep(t) PROVE BaseInv'
  <2>1. PICK most \in candidates :
            Mark(BetterThan(most)) \subseteq Block /\ StepEffect(t, most, candidates, Mark(BetterThan(most)))
    BY <1>4, TypeFindAndStep, Zenon
  <2>2. most \in linked
    BY Zenon DEF Sound
  <2>3. pc[t] = "loop" /\ Goes(t)
    BY <1>4, StepGoes, Zenon DEF FindAndStep
  <2> QED  BY <2>1, <2>2, <2>3, BaseStep, Zenon
<1>5. ASSUME NEW t \in Threads, StepAgain(t) PROVE BaseInv'
  <2>1. goal[t] \in linked /\ failedChild \in SUBSET Block /\ pc[t] = "loop"
    BY <1>5, Zenon DEF StepAgain, Sound, TypeOK
  <2>2. Goes(t)
    BY <1>5, StepGoes, Zenon DEF StepAgain
  <2> QED  BY <1>5, <2>1, <2>2, TypeStepAgain, BaseStep, Zenon
<1>6. ASSUME NEW t \in Threads, NothingToDo(t) PROVE BaseInv'
  <2>1. UNCHANGED <<links, tip, disk>>
    BY <1>6, TypeNothing, Zenon
  <2>2. \A u \in Threads : goal'[u] # NoBlock => pc'[u] = "loop"
    <3>1. Return(t)
      BY <1>6, Zenon DEF NothingToDo
    <3> QED  BY <3>1, GoalsInLoop, Zenon
  <2> QED  BY <2>1, <2>2, Zenon DEF BaseInv, links
<1>7. ASSUME NEW t \in Threads, NEW b \in Block, InvalidateBlock(t, b) PROVE BaseInv'
  BY <1>7, InvalidateDoes, BaseInvalidate, Zenon
<1>8. ASSUME NEW t \in Threads, UNCHANGED <<linked, tip, disk>>, CallActivateBestChain(t) PROVE BaseInv'
  BY <1>8, GoalsInLoop, Zenon DEF BaseInv
<1>9. ASSUME NEW t \in Threads, NEW b \in Block, ResetBlockFailureFlags(t, b) PROVE BaseInv'
  BY <1>8, <1>9, Zenon DEF ResetBlockFailureFlags, links
<1>10. ASSUME NEW t \in Threads, NEW b \in Block, PreciousBlock(t, b) PROVE BaseInv'
  BY <1>8, <1>10, Zenon DEF PreciousBlock, links
<1> QED
  BY <1>2, <1>3, <1>4, <1>5, <1>6, <1>7, <1>9, <1>10, BaseProcess, BaseFlush, BaseRestart, ZenonT(60) DEF Next

\* BaseInv is an invariant of the block index, whatever the calls.
THEOREM BaseInvariant == Spec => [](TypeOK /\ Sound /\ LinkBase /\ BaseInv)
<1>1. Init => BaseInv
  <2> SUFFICES ASSUME Init PROVE BaseInv
    OBVIOUS
  <2>1. linked = {Genesis} /\ tip = Genesis /\ goal = [t \in Threads |-> NoBlock]
    BY Zenon DEF Init
  <2>2. disk.tip = Genesis /\ disk.data = {Genesis}
    BY DEF Init
  <2> QED  BY <2>1, <2>2, PathGenesis, Zenon DEF BaseInv
<1>2. TypeOK /\ Sound /\ LinkBase /\ BaseInv /\ [Next]_vars => BaseInv'
  BY BaseNext, Zenon
<1>3. SoundInv /\ LinkInv => TypeOK /\ Sound /\ LinkBase
  BY SoundForm, LinkForm, Zenon
<1> QED  BY <1>1, <1>2, <1>3, ChainInvariant, PTL DEF Spec

-----------------------------------------------------------------------------
(* Chains without a failed block, and what a step does to the tip.          *)

\* No block of b's chain has a failure flag.
Clean(b) == Path(b) \cap Failed = {}

\* A chain that FindMostWorkChain marks had a failed block already.
LEMMA CleanMarked ==
    ASSUME TypeOK, NEW passed \in SUBSET candidates, \A c \in passed : ~Usable(c)
    PROVE  /\ \A b \in Block : Clean(b) => Path(b) \cap Mark(passed) = {}
           /\ \A b \in candidates : Clean(b) => b \in Erase(passed)
           /\ passed \cap Erase(passed) = {}
<1>1. \A c \in passed : c \in Block /\ Broken(c) # {} /\ Broken(c) \subseteq Path(c) \cap Failed
  BY Zenon DEF TypeOK, Usable, Broken, OffChain
<1>2. ASSUME NEW b \in Block, Clean(b), NEW x \in Path(b), x \in Mark(passed)
      PROVE  FALSE
  <2>1. x \notin failedChild /\ Path(x) \subseteq Path(b) /\ x \in Block
    BY <1>2, PathTransitive, PathProperties, Zenon DEF Clean, Failed
  <2>2. PICK c \in passed : x \in Path(c) /\ \A y \in Broken(c) : y \in Path(c) /\ Height(x) > Height(y)
    BY <1>2, <2>1, MarkDoes, Zenon
  <2>3. PICK y \in Broken(c) : y \in Path(c) /\ Height(x) > Height(y) /\ y \in Failed
    BY <1>1, <2>2, Zenon
  <2>4. Height(x) \in Nat /\ Height(y) \in Nat
    BY <1>1, <2>1, <2>3, PathProperties, Zenon
  <2>5. y \in Path(x)
    BY <1>1, <2>2, <2>3, <2>4, PathOrder
  <2> QED  BY <1>2, <2>1, <2>3, <2>5, Zenon DEF Clean
<1>3. ASSUME NEW b \in Block, Clean(b), NEW c \in passed, b \in EraseFrom(c)
      PROVE  FALSE
  <2>1. PICK y \in Broken(c) : y \in Path(c) /\ y \in Failed
    BY <1>1, Zenon
  <2>2. b \in Path(c) /\ Height(b) >= Height(y)
    BY <1>3, <2>1, Zenon DEF EraseFrom, OffChain
  <2>3. Height(b) \in Nat /\ Height(y) \in Nat
    BY <1>1, <2>1, PathProperties, Zenon
  <2>4. y \in Path(b)
    BY <1>1, <2>1, <2>2, <2>3, PathOrder, Zenon
  <2> QED  BY <1>3, <2>1, <2>4, Zenon DEF Clean
<1>4. ASSUME NEW c \in passed
      PROVE  c \in EraseFrom(c)
  <2>1. c \in Path(c) /\ \A y \in Path(c) : Height(c) >= Height(y)
    BY <1>1, PathProperties
  <2>2. PICK y \in Broken(c) : y \in Path(c) /\ ~Contains(tip, y)
    BY <1>1, Zenon DEF Broken, OffChain
  <2>3. tip \in Block /\ y \in Block
    BY <1>1, <2>2, PathProperties, Zenon DEF TypeOK
  <2>4. ~Contains(tip, c)
    <3> SUFFICES ASSUME Contains(tip, c)
                 PROVE  FALSE
      OBVIOUS
    <3>1. Path(c) \subseteq Path(tip)
      BY <1>1, <2>3, PathContains, PathTransitive, Zenon
    <3> QED  BY <2>2, <2>3, <3>1, PathContains, Zenon
  <2> QED  BY <1>1, <2>1, <2>4, Zenon DEF EraseFrom, OffChain
<1>5. candidates \subseteq Block
  BY Zenon DEF TypeOK
<1> QED  BY <1>2, <1>3, <1>4, <1>5 DEF Erase

\* Until a block is invalidated, a chain that breaks no rule has no failed block.
LEMMA UntaintedClean ==
    ASSUME TypeOK, Sound, count.invalidate = 0, NEW b \in Block, ~Tainted(b)
    PROVE  Clean(b) /\ b \notin Invalid
<1>1. \A x \in Path(b) : ~Tainted(x)
  BY TaintedAbove, Zenon
<1> QED  BY <1>1, TaintedSelf, Zenon DEF Clean, Failed, Sound, Unsound

\* ActivateBestChainStep towards a chain that the active one does not contain: the tip becomes
\* most or a block with more work, or a block is rejected and the tip becomes its parent.
Advance(t, most, cands, fc) ==
    /\ tip' \in Path(most) \ Path(tip)
    /\ tip' = most \/ Work[tip'] > Work[tip]
    /\ candidates' = Prune(cands, Order, tip')
    /\ failedValid' = failedValid /\ failedChild' = fc
    /\ \/ tip' = most /\ Return(t)
       \/ tip' # most /\ goal' = [goal EXCEPT ![t] = most] /\ UNCHANGED pc
Reject(t, most, cands, fc) ==
    \E last \in Path(most) \cap Invalid :
        /\ last \notin Path(tip)
        /\ tip' = Pprev(last)
        /\ candidates' = (IF tip' \in Path(tip) THEN cands ELSE Prune(cands, Order, tip')) \ {last}
        /\ failedValid' = failedValid \cup {last} /\ failedChild' = fc
        /\ goal' = [goal EXCEPT ![t] = NoBlock] /\ UNCHANGED pc

LEMMA StepCases ==
    ASSUME TypeOK, NEW t \in Threads, NEW most \in Block, most \notin Path(tip), NEW cands, NEW fc,
           Step(t, most, cands, fc)
    PROVE  Advance(t, most, cands, fc) \/ Reject(t, most, cands, fc)
<1> DEFINE rejected(last) == {last} \cap Invalid \cap OffChain(most)
           new(last) == IF rejected(last) = {} THEN last ELSE Pprev(last)
           next(last) == NextGoal(most, rejected(last))
<1>1. PICK last \in Path(most) :
        /\ IsLast(most, last)
        /\ tip' = new(last)
        /\ candidates' = (IF Contains(tip, new(last)) THEN cands ELSE Prune(cands, Order, new(last)))
                             \ rejected(last)
        /\ failedValid' = failedValid \cup rejected(last)
        /\ failedChild' = fc
        /\ IF new(last) = next(last)
           THEN Return(t)
           ELSE goal' = [goal EXCEPT ![t] = next(last)] /\ UNCHANGED pc
  BY Zenon DEF Step
<1>2. tip \in Block /\ last \in Block /\ \A x \in Block : Contains(tip, x) <=> x \in Path(tip)
  BY PathProperties, PathContains, Zenon DEF TypeOK
<1>3. OffChain(most) = Path(most) \ Path(tip)
  BY <1>2, OffChainPath, Zenon
<1>4. last \notin Path(tip) /\ (last \in Invalid \/ Work[last] > Work[tip] \/ last = most)
  BY <1>1, <1>2, <1>3, Zenon DEF IsLast, Stops
<1>5. CASE last \in Invalid
  <2>1. rejected(last) = {last}
    BY <1>3, <1>4, <1>5, Zenon
  <2>2. tip' = Pprev(last) /\ new(last) = Pprev(last) /\ next(last) = NoBlock
    BY <1>1, <2>1, Zenon DEF NextGoal
  <2>3. Pprev(last) \in Block /\ NoBlock \notin Block
    BY <1>2, <1>5, PathPprev, ChainAssumption, Zenon
  <2>4. goal' = [goal EXCEPT ![t] = NoBlock] /\ UNCHANGED pc
    <3> HIDE DEF new, next
    <3> QED  BY <1>1, <2>2, <2>3, Zenon
  <2>5. /\ candidates' = (IF tip' \in Path(tip) THEN cands ELSE Prune(cands, Order, tip')) \ {last}
        /\ failedValid' = failedValid \cup {last} /\ failedChild' = fc
    <3> HIDE DEF new, rejected
    <3> QED  BY <1>1, <1>2, <2>1, <2>2, <2>3, Zenon
  <2> QED  BY <1>4, <1>5, <2>2, <2>4, <2>5, Zenon DEF Reject
<1>6. CASE last \notin Invalid
  <2>1. rejected(last) = {}
    BY <1>6, Zenon
  <2>2. tip' = last /\ new(last) = last /\ next(last) = most
    BY <1>1, <2>1, Zenon DEF NextGoal
  <2>3. \/ tip' = most /\ Return(t)
        \/ tip' # most /\ goal' = [goal EXCEPT ![t] = most] /\ UNCHANGED pc
    <3> HIDE DEF new, next
    <3> QED  BY <1>1, <2>2, Zenon
  <2>4. candidates' = Prune(cands, Order, tip') /\ failedValid' = failedValid /\ failedChild' = fc
    <3> HIDE DEF new, rejected
    <3> QED  BY <1>1, <1>2, <1>4, <2>1, <2>2, Zenon
  <2> QED  BY <1>4, <1>6, <2>2, <2>3, <2>4, Zenon DEF Advance
<1> QED  BY <1>5, <1>6, Zenon

LEMMA StepCount ==
    ASSUME TypeOK, NEW t \in Threads, NEW most \in Block, NEW cands, NEW fc \in SUBSET Block,
           StepEffect(t, most, cands, fc)
    PROVE  count'.invalidate = count.invalidate /\ UNCHANGED <<links, order>>
<1>1. PICK rejected \in SUBSET (Invalid \cap Path(most)) :
        tip' \in Path(most) /\ FlushIfNeeded(tip', fc, rejected) /\ UNCHANGED <<links, order>>
  BY Zenon DEF StepEffect
<1>2. tip' \in Block /\ rejected \in SUBSET Block
  BY <1>1, PathProperties, Zenon
<1> QED  BY <1>1, <1>2, FlushType, Zenon

\* InvalidateBlock puts the tip below the block and every chain as good back.
LEMMA InvalidateMoves ==
    ASSUME TypeOK, NEW t \in Threads, NEW b \in Block, InvalidateBlock(t, b)
    PROVE  LET R == {x \in linked \ (failedValid' \cup failedChild') : ~Worse(Order, x, tip')} IN
           /\ pc[t] = "idle" /\ CallActivateBestChain(t)
           /\ tip' \in Path(tip) /\ b \notin Path(tip') /\ (tip' = tip \/ b \in Path(tip))
           /\ R \subseteq candidates' /\ candidates' \subseteq candidates \cup R
<1> DEFINE walked == IF Contains(tip, b) THEN Branch(tip, Height(b)) ELSE {}
           new == IF Contains(tip, b) THEN Pprev(b) ELSE tip
<1>1. /\ pc[t] = "idle" /\ CallActivateBestChain(t) /\ tip' = new /\ b # Genesis
      /\ candidates' = (candidates \ ({b} \cup walked)) \cup Reinserted(failedValid', failedChild', new)
  BY Zenon DEF InvalidateBlock
<1>2. tip \in Block /\ tip \in Path(tip) /\ (Contains(tip, b) <=> b \in Path(tip))
  BY PathContains, PathProperties, Zenon DEF TypeOK
<1>3. Pprev(b) \in Path(b) /\ b \notin Path(Pprev(b))
  BY <1>1, PathPprev, PathProperties
<1>4. tip' \in Path(tip) /\ b \notin Path(tip') /\ (tip' = tip \/ b \in Path(tip))
  <2>1. CASE b \in Path(tip)
    BY <1>1, <1>2, <1>3, <2>1, PathTransitive, Zenon
  <2>2. CASE b \notin Path(tip)
    BY <1>1, <1>2, <2>2, Zenon
  <2> QED  BY <2>1, <2>2, Zenon
<1>5. candidates' = (candidates \ ({b} \cup walked)) \cup
                        {x \in linked \ (failedValid' \cup failedChild') : ~Worse(Order, x, tip')}
  <2> HIDE DEF walked, new
  <2> QED  BY <1>1, Zenon DEF Reinserted
<1> HIDE DEF walked, new
<1> QED  BY <1>1, <1>4, <1>5, Zenon

-----------------------------------------------------------------------------
(* Some candidate is left when calls of ActivateBestChain overlap.         *)

\* No block was invalidated and, where the order in which blocks were received matters, none made
\* precious.
Plain == count.invalidate = 0 /\ (GPoWEnabled \/ count.precious = 0)

\* c is a candidate that nobody will reject, and so is every other such block that is as good: a
\* thread that puts the tip on a worse chain leaves it alone.
Stays(c) ==
    /\ c \in candidates /\ ~Tainted(c) /\ ~Worse(Order, c, tip)
    /\ \A b \in linked : ~Tainted(b) /\ ~Worse(Order, b, c) => b \in candidates
StayInv == \E c \in Block : Stays(c)

LEMMA StaySettles ==
    ASSUME TypeOK, Ordered, Sound, StayInv, linked' = linked, tip' \in linked, ~Tainted(tip'),
           \A x, y \in Block : Worse(Order', x, y) <=> Worse(Order, x, y),
           \A b \in candidates : ~Tainted(b) /\ ~Worse(Order, b, tip') => b \in candidates'
    PROVE  StayInv'
<1>1. linked \subseteq Block /\ candidates \subseteq linked
  BY Zenon DEF TypeOK, Sound
<1>2. PICK c \in Block : Stays(c)
  BY Zenon DEF StayInv
<1>3. PICK n \in Block : n = tip'
  BY <1>1, Zenon
<1>4. ASSUME NEW w \in Block, w \in candidates, ~Tainted(w), ~Worse(Order, w, n), ~Worse(Order, w, c)
      PROVE  Stays(w)'
  <2>1. ASSUME NEW b \in linked, ~Tainted(b), ~Worse(Order, b, w)
        PROVE  b \in candidates'
    <3>1. b \in Block /\ ~Worse(Order, b, c) /\ ~Worse(Order, b, n)
      BY <1>1, <1>4, <2>1, OrderFacts, Zenon
    <3>2. b \in candidates
      BY <1>2, <2>1, <3>1, Zenon DEF Stays
    <3> QED  BY <1>3, <2>1, <3>1, <3>2, Zenon
  <2>2. w \in candidates'
    BY <1>3, <1>4, Zenon
  <2> QED  BY <1>1, <1>3, <1>4, <2>1, <2>2, Zenon DEF Stays, Tainted
<1>5. c \in candidates /\ ~Tainted(c) /\ ~Worse(Order, c, c)
  BY <1>2, OrderFacts, Zenon DEF Stays
<1>6. CASE Worse(Order, n, c)
  <2>1. ~Worse(Order, c, n)
    BY <1>6, OrderFacts, Zenon
  <2> QED  BY <1>4, <1>5, <2>1, Zenon DEF StayInv
<1>7. CASE ~Worse(Order, n, c)
  <2>1. n \in candidates /\ ~Tainted(n) /\ ~Worse(Order, n, n)
    BY <1>2, <1>3, <1>7, OrderFacts, Zenon DEF Stays
  <2> QED  BY <1>4, <1>7, <2>1 DEF StayInv
<1> QED  BY <1>6, <1>7, Zenon

LEMMA SameOrder ==
    ASSUME UNCHANGED <<links, order>>
    PROVE  linked' = linked /\ \A x, y \in Block : Worse(Order', x, y) <=> Worse(Order, x, y)
<1>1. linked' = linked /\ Order' = Order
  BY Zenon DEF links, order, Order
<1> QED  BY <1>1, Zenon

LEMMA StepKeeps ==
    ASSUME NEW t, NEW most, NEW cands, NEW fc, Step(t, most, cands, fc)
    PROVE  \A b \in cands \ Invalid : ~Worse(Order, b, tip') => b \in candidates'
BY Zenon DEF Step, Prune

LEMMA StayStep ==
    ASSUME TypeOK, Ordered, Sound, BaseInv, BaseInv', StayInv, count.invalidate = 0, ~Tainted(tip'),
           NEW t \in Threads, NEW most \in Block, NEW cands, NEW fc \in SUBSET Block,
           \A b \in candidates : Clean(b) => b \in cands, Step(t, most, cands, fc)
    PROVE  StayInv'
<1>1. UNCHANGED <<links, order>>
  <2>1. tip \in Block
    BY Zenon DEF TypeOK
  <2>2. StepEffect(t, most, cands, fc)
    BY <2>1, StepDoes, Zenon
  <2> QED  BY <2>2, StepCount, Zenon
<1>2. tip' \in linked
  BY <1>1, Zenon DEF BaseInv, links
<1>3. \A b \in candidates : ~Tainted(b) /\ ~Worse(Order, b, tip') => b \in candidates'
  BY StepKeeps, UntaintedClean, Zenon DEF TypeOK
<1>4. linked' = linked /\ \A x, y \in Block : Worse(Order', x, y) <=> Worse(Order, x, y)
  BY <1>1, SameOrder, Zenon
<1> QED  BY <1>2, <1>3, <1>4, StaySettles, Zenon

LEMMA StayNothing ==
    ASSUME TypeOK, Ordered, Sound, BaseInv, StayInv, count.invalidate = 0, NEW t \in Threads, NothingToDo(t)
    PROVE  StayInv'
<1>1. UNCHANGED <<links, order, tip>>
  BY Zenon DEF NothingToDo
<1>2. tip' \in linked /\ ~Tainted(tip')
  BY <1>1, Zenon DEF BaseInv, Sound
<1>3. \A b \in candidates : Clean(b) => b \in candidates'
  <2>1. CASE candidates' = Erase(BetterThan(tip))
    <3>1. BetterThan(tip) \in SUBSET candidates /\ \A c \in BetterThan(tip) : ~Usable(c)
      BY Zenon DEF BetterThan
    <3> QED  BY <2>1, <3>1, CleanMarked, Zenon
  <2>2. CASE (\A c \in candidates : ~Usable(c)) /\ candidates' = Erase(candidates)
    BY <2>2, CleanMarked, Zenon
  <2>3. CASE UNCHANGED candidates
    BY <2>3, Zenon
  <2> QED  BY <2>1, <2>2, <2>3, Zenon DEF NothingToDo
<1>4. \A b \in candidates : ~Tainted(b) => b \in candidates'
  BY <1>3, UntaintedClean, Zenon DEF TypeOK
<1> QED  BY <1>1, <1>2, <1>4, SameOrder, StaySettles, Zenon

\* Blocks become linked, or the comparator does not see what changes.
LEMMA StayMore ==
    ASSUME TypeOK, TypeOK', Ordered, Sound, BaseInv, StayInv, UNCHANGED <<tip, bare>>,
           NEW new \in SUBSET Block, new \cap linked = {}, linked' = linked \cup new,
           GPoWEnabled \/ \A x \in Block \ new : seqId'[x] = seqId[x],
           candidates \subseteq candidates',
           {x \in new : ~Worse(Order', x, tip)} \subseteq candidates'
    PROVE  StayInv'
<1>1. /\ Order'.seq \in [Block -> Int] /\ Order.seq = seqId /\ Order'.seq = seqId'
      /\ Order'.bare = Order.bare
  BY Zenon DEF Order, TypeOK
<1>2. \A x, y \in Block \ new : Worse(Order', x, y) <=> Worse(Order, x, y)
  BY <1>1, WorseSame, Zenon
<1>3. tip \in Block \ new /\ linked \subseteq Block \ new /\ candidates \subseteq linked
  BY Zenon DEF TypeOK, BaseInv, Sound
<1>4. PICK c \in Block : Stays(c)
  BY Zenon DEF StayInv
<1>5. c \in candidates /\ c \in Block \ new /\ ~Tainted(c) /\ ~Worse(Order', c, tip)
  BY <1>2, <1>3, <1>4, Zenon DEF Stays
<1>6. ASSUME NEW b \in linked', ~Tainted(b), ~Worse(Order', b, c)
      PROVE  b \in candidates'
  <2>1. CASE b \in linked
    <3>1. ~Worse(Order, b, c)
      BY <1>2, <1>3, <1>5, <1>6, <2>1, Zenon
    <3> QED  BY <1>4, <1>6, <2>1, <3>1, Zenon DEF Stays
  <2>2. CASE b \in new
    <3>1. ~Worse(Order', b, tip)
      <4> SUFFICES ASSUME Worse(Order', b, tip)
                   PROVE  FALSE
        OBVIOUS
      <4>1. c = tip \/ Worse(Order', tip, c)
        BY <1>1, <1>3, <1>5, WorseTotal, Zenon
      <4>2. Worse(Order', tip, c) => Worse(Order', b, c)
        BY <1>1, <1>3, <2>2, WorseTransitive, Zenon
      <4> QED  BY <1>6, <4>1, <4>2, Zenon
    <3> QED  BY <2>2, <3>1, Zenon
  <2> QED  BY <2>1, <2>2, Zenon
<1>7. Stays(c)'
  BY <1>5, <1>6, Zenon DEF Stays, Tainted
<1> QED  BY <1>7, Zenon DEF StayInv

LEMMA StayProcess ==
    ASSUME TypeOK, TypeOK', Ordered, Sound, LinkBase, BaseInv, StayInv,
           NEW t \in Threads, NEW b \in Block, NEW requested, ProcessNewBlock(t, b, requested)
    PROVE  StayInv'
<1>1. tip' = tip
  BY Zenon DEF ProcessNewBlock
<1>2. CASE UNCHANGED <<linked, candidates, seqId, bare>>
  <2>1. linked' = linked \cup {} /\ {} \in SUBSET Block /\ {} \cap linked = {}
    BY <1>2
  <2> QED  BY <1>1, <1>2, <2>1, StayMore, Zenon
<1>3. CASE b \notin data /\ ReceivedBlockTransactions(b)
  <2>1. bare' = bare
    BY <1>3 DEF ReceivedBlockTransactions
  <2>2. ASSUME NEW rank, linked' = linked \cup LinkedWith(b),
               seqId' = [x \in Block |-> IF x \in LinkedWith(b) THEN nextSeq + rank[x] - 1 ELSE seqId[x]],
               candidates' = candidates \cup
                   {x \in LinkedWith(b) : ~Worse([Order EXCEPT !.seq = seqId'], x, tip)}
        PROVE  StayInv'
    <3>1. LinkedWith(b) \in SUBSET Block
      BY LinkedWithType
    <3>2. \A x \in Block \ LinkedWith(b) : seqId'[x] = seqId[x]
      BY <2>2, Zenon
    <3>3. LinkedWith(b) \cap linked = {}
      <4>1. b \in Path(b)
        BY PathProperties
      <4> QED  BY <1>3, <4>1, Zenon DEF LinkedWith, LinkBase, Sound
    <3>4. [Order EXCEPT !.seq = seqId'] = Order'
      BY <2>1 DEF Order
    <3>5. /\ candidates \subseteq candidates'
          /\ {x \in LinkedWith(b) : ~Worse(Order', x, tip)} \subseteq candidates'
      BY <2>2, <3>4, Zenon
    <3> QED  BY <1>1, <2>1, <2>2, <3>1, <3>2, <3>3, <3>5, StayMore
  <2>3. CASE UNCHANGED <<linked, seqId, nextSeq, candidates>>
    BY <1>2, <2>1, <2>3, Zenon
  <2> QED  BY <1>3, <2>2, <2>3 DEF ReceivedBlockTransactions
<1>4. (b \notin data /\ ReceivedBlockTransactions(b)) \/ UNCHANGED <<linked, candidates, order>>
  BY Zenon DEF ProcessNewBlock
<1> QED  BY <1>2, <1>3, <1>4, Zenon DEF order

\* With GPoW the comparator does not look at nSequenceId.
LEMMA StayPrecious ==
    ASSUME TypeOK, Ordered, Sound, BaseInv, StayInv, count.invalidate = 0, GPoWEnabled,
           NEW t \in Threads, NEW b \in Block, PreciousBlock(t, b)
    PROVE  StayInv'
<1>1. /\ candidates' = IF b \in linked \ Failed
                       THEN Prune(candidates \cup {b}, [Order EXCEPT !.seq = seqId'], tip)
                       ELSE candidates \ {b}
      /\ linked' = linked /\ bare' = bare /\ tip' = tip
  BY DEF PreciousBlock, links
<1>2. tip' \in linked /\ ~Tainted(tip') /\ tip \in Block /\ candidates \subseteq linked /\ linked \subseteq Block
  BY <1>1 DEF BaseInv, Sound, TypeOK
<1>3. Order'.bare = Order.bare /\ [Order EXCEPT !.seq = seqId'] = Order'
  BY <1>1 DEF Order
<1>4. \A x, y \in Block : Worse(Order', x, y) <=> Worse(Order, x, y)
  BY <1>3, WorseSame
<1>5. ASSUME NEW x \in candidates, ~Tainted(x), ~Worse(Order, x, tip')
      PROVE  x \in candidates'
  <2>1. Clean(x) /\ x \in Path(x)
    BY <1>2, <1>5, UntaintedClean, PathProperties
  <2>2. x \in linked \ Failed
    BY <1>2, <2>1, Zenon DEF Clean
  <2>3. ~Worse(Order', x, tip)
    BY <1>1, <1>2, <1>4, <1>5, Zenon
  <2> QED  BY <1>1, <1>3, <2>2, <2>3 DEF Prune
<1> QED  BY <1>1, <1>2, <1>4, <1>5, StaySettles, Zenon

LEMMA StayRestart ==
    ASSUME TypeOK, TypeOK', Ordered, Sound, Sound', BaseInv', count'.invalidate = 0,
           NEW t \in Threads, Restart(t)
    PROVE  StayInv'
<1>1. /\ linked' = LoadLinked(disk.data) /\ tip' = disk.tip
      /\ failedValid' = disk.failedValid /\ failedChild' = disk.failedChild
      /\ candidates' = Prune(LoadCandidates(disk.data, disk.failedValid \cup disk.failedChild),
                             [seq |-> seqId', bare |-> bare'], disk.tip)
  BY Zenon DEF Restart
<1>2. candidates' = {c \in linked' \ Failed' : ~Worse(Order', c, tip')}
  BY <1>1, Zenon DEF Prune, LoadCandidates, Order, Failed
<1>3. PICK n \in Block : n = tip'
  BY Zenon DEF TypeOK
<1>4. n \in linked' /\ ~Tainted(n)
  BY <1>3, Zenon DEF BaseInv, Sound, Tainted
<1>5. \A x \in Failed' : Tainted(x)
  BY Zenon DEF Sound, Tainted, Failed
<1>6. ~Worse(Order', n, n)
  <2>1. Order'.seq \in [Block -> Int]
    BY Zenon DEF Order, TypeOK
  <2> QED  BY <2>1, WorseTotal
<1>7. Stays(n)'
  BY <1>2, <1>3, <1>4, <1>5, <1>6, Zenon DEF Stays, Tainted
<1> QED  BY <1>7, Zenon DEF StayInv

LEMMA StayNext ==
    ASSUME TypeOK, TypeOK', Ordered, Sound, Sound', LinkBase, BaseInv, BaseInv', StayInv,
           Plain, Plain', [Next]_vars
    PROVE  StayInv'
<1>1. count.invalidate = 0 /\ count'.invalidate = 0 /\ (count'.precious # 0 => GPoWEnabled)
  BY Zenon DEF Plain
<1>2. ~Tainted(tip') /\ tip \in linked /\ ~Tainted(tip)
  BY Zenon DEF Sound, Tainted, BaseInv
<1>3. ASSUME UNCHANGED <<links, order, tip>>, candidates \subseteq candidates'
      PROVE  StayInv'
  BY <1>2, <1>3, SameOrder, StaySettles, Zenon
<1>4. ASSUME UNCHANGED <<linked, order, tip, candidates>>
      PROVE  StayInv'
  <2>1. Order' = Order
    BY <1>4, Zenon DEF order, Order
  <2> QED  BY <1>4, <2>1, Zenon DEF StayInv, Stays, Tainted
<1>5. CASE UNCHANGED vars
  BY <1>4, <1>5, Zenon DEF vars, links
<1>6. ASSUME NEW b \in Block, AcceptBlockHeader(b) PROVE StayInv'
  BY <1>4, <1>6, Zenon DEF AcceptBlockHeader
<1>7. ASSUME NEW t \in Threads, FindAndStep(t) PROVE StayInv'
  <2>1. PICK most \in candidates : Step(t, most, Erase(BetterThan(most)), Mark(BetterThan(most)))
    BY <1>7, Zenon DEF FindAndStep
  <2>2. most \in Block /\ Mark(BetterThan(most)) \in SUBSET Block
    <3>1. most \in Block /\ BetterThan(most) \in SUBSET candidates
      BY Zenon DEF BetterThan, TypeOK
    <3> QED  BY <3>1, MarkType, Zenon
  <2>3. \A b \in candidates : Clean(b) => b \in Erase(BetterThan(most))
    BY CleanMarked, Zenon DEF BetterThan
  <2> QED  BY <1>1, <1>2, <2>1, <2>2, <2>3, StayStep
<1>8. ASSUME NEW t \in Threads, StepAgain(t) PROVE StayInv'
  <2>1. goal[t] \in Block /\ failedChild \in SUBSET Block /\ Step(t, goal[t], candidates, failedChild)
    BY <1>8, Zenon DEF StepAgain, TypeOK
  <2> QED  BY <1>1, <1>2, <2>1, StayStep
<1>9. ASSUME NEW t \in Threads, NothingToDo(t) PROVE StayInv'
  BY <1>1, <1>9, StayNothing, Zenon
<1>10. ASSUME NEW t \in Threads, NEW b \in Block, InvalidateBlock(t, b) PROVE FALSE
  <2>1. count'["invalidate"] # 0
    BY <1>10, InvalidateDoes, ZenonT(40) DEF InvalidateEffect
  <2> QED  BY <1>1, <2>1
<1>11. ASSUME NEW t \in Threads, NEW b \in Block, ResetBlockFailureFlags(t, b) PROVE StayInv'
  BY <1>3, <1>11, Zenon DEF ResetBlockFailureFlags
<1>12. ASSUME NEW t \in Threads, NEW b \in Block, PreciousBlock(t, b) PROVE StayInv'
  <2>1. count' = [count EXCEPT !["precious"] = @ + 1]
    BY <1>12, Zenon DEF PreciousBlock, Bounded
  <2> QED  BY <1>1, <1>12, <2>1, CountMore, StayPrecious, Zenon
<1>13. ASSUME FlushStateToDisk PROVE StayInv'
  BY <1>4, <1>13, Zenon DEF FlushStateToDisk, links
<1>14. ASSUME NEW t \in Threads, Restart(t) PROVE StayInv'
  BY <1>1, <1>14, StayRestart, Zenon
<1> QED
  BY <1>5, <1>6, <1>7, <1>8, <1>9, <1>10, <1>11, <1>12, <1>13, <1>14, StayProcess, ZenonT(60) DEF Next

\* StayInv is an invariant however the calls of ActivateBestChain overlap.
THEOREM StayInvariant ==
    ASSUME Ordered
    PROVE  Spec /\ []Plain => []StayInv
<1>1. Init => StayInv
  <2> SUFFICES ASSUME Init PROVE StayInv
    OBVIOUS
  <2>1. TypeOK /\ Genesis \in Block /\ Path(Genesis) = {Genesis}
    BY TypeInit, PathGenesis, Zenon
  <2>2. linked = {Genesis} /\ candidates = {Genesis} /\ tip = Genesis
    BY Zenon DEF Init
  <2>3. ~Worse(Order, Genesis, Genesis) /\ ~Tainted(Genesis)
    BY <2>1, OrderFacts, ChainAssumption, Zenon DEF Tainted, Unsound
  <2> QED  BY <2>1, <2>2, <2>3, Zenon DEF StayInv, Stays
<1>2. /\ TypeOK /\ Sound /\ LinkBase /\ BaseInv /\ StayInv /\ Plain /\ [Next]_vars
      /\ TypeOK' /\ Sound' /\ BaseInv' /\ Plain'
      => StayInv'
  BY StayNext, Zenon
<1> QED  BY <1>1, <1>2, BaseInvariant, PTL DEF Spec
=============================================================================
