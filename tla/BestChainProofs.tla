-------------------------- MODULE BestChainProofs --------------------------
(***************************************************************************)
(* Theorems about ChainActivation: the active chain is the best one when   *)
(* ActivateBestChain is done, and setBlockIndexCandidates is what          *)
(* CheckBlockIndex says and never empty.                                   *)
(***************************************************************************)
EXTENDS ChainInvariantProofs

-----------------------------------------------------------------------------
(* The best chain.                                                         *)

\* Calls of ActivateBestChain do not overlap, nothing was reconsidered, and blocks were
\* invalidated only if none was made precious and the node did not start again.
Serial == \A t, u \in Threads : pc[t] = "loop" /\ pc[u] = "loop" => t = u
Ordinary ==
    /\ Serial
    /\ count.reconsider = 0
    /\ count.invalidate = 0 \/ (count.precious = 0 /\ count.restart = 0)

IsBest(x) == \A b \in linked : Clean(b) => ~Worse(Order, x, b)

\* The tip is valid and no candidate is worse.
TipInv == Clean(tip) /\ \A c \in candidates : ~Worse(Order, c, tip)

\* What a thread works towards is the best chain.
GoalInv ==
    \A t \in Threads : goal[t] # NoBlock =>
        /\ Clean(goal[t]) /\ IsBest(goal[t])
        /\ \A d \in candidates : ~Worse(Order, goal[t], d)

\* When no thread is in ActivateBestChain the tip is the best chain and the only candidate.
RestInv == Quiet => candidates = {tip} /\ IsBest(tip)

\* Some candidate will never be rejected, and whatever is as good is a candidate too.
Covers(c) ==
    /\ c \in candidates /\ Clean(c) /\ ~Tainted(c)
    /\ \A b \in linked : Clean(b) /\ ~Worse(Order, b, c) => b \in candidates
LeftInv == \E c \in Block : Covers(c)

\* nLastPreciousChainwork is reached by a chain that will never be rejected, and of the blocks
\* made precious at that work each has a greater id than the next one will get.
PreciousInv ==
    count.invalidate = 0 =>
        /\ \E x \in linked : ~Tainted(x) /\ lastPrecious <= Work[x]
        /\ \A x \in linked : Clean(x) /\ seqId[x] < 0 =>
            /\ Work[x] <= lastPrecious
            /\ Work[x] = lastPrecious => seqId[x] > reverseSeq \/ reverseSeq = MinSequenceId

BestInv == TipInv /\ GoalInv /\ RestInv /\ LeftInv /\ PreciousInv

\* What FindMostWorkChain returns is the best chain.
LEMMA FindBest ==
    ASSUME TypeOK, Ordered, Sound, TipInv, LeftInv, NEW m \in Block, IsMostWork(m)
    PROVE  /\ Clean(m) /\ IsBest(m)
           /\ \A d \in Erase(BetterThan(m)) : d \in candidates /\ ~Worse(Order, m, d)
<1>1. /\ m \in candidates /\ Usable(m)
      /\ \A d \in candidates : Usable(d) => ~Worse(Order, m, d)
  BY Zenon DEF IsMostWork
<1>2. tip \in Block /\ candidates \subseteq Block /\ linked \subseteq Block
  BY DEF TypeOK
<1>3. Clean(m)
  BY <1>1, <1>2, OffChainPath, Zenon DEF Usable, Broken, TipInv, Clean
<1>4. \A d \in candidates : Clean(d) => Usable(d)
  BY <1>2, OffChainPath, Zenon DEF Usable, Broken, Clean
<1>5. PICK c \in Block : Covers(c)
  BY DEF LeftInv
<1>6. IsBest(m)
  <2> SUFFICES ASSUME NEW b \in linked, Clean(b), Worse(Order, m, b)
               PROVE  FALSE
    BY DEF IsBest
  <2>1. ~Worse(Order, m, c) /\ b \in Block
    BY <1>1, <1>2, <1>4, <1>5, Zenon DEF Covers
  <2>2. ~Worse(Order, b, c)
    BY <2>1, OrderFacts
  <2>3. b \in candidates
    BY <1>5, <2>2, Zenon DEF Covers
  <2> QED  BY <1>1, <1>4, <2>3, Zenon
<1>7. ASSUME NEW d \in Erase(BetterThan(m))
      PROVE  d \in candidates /\ ~Worse(Order, m, d)
  <2>1. BetterThan(m) \subseteq candidates /\ \A x \in BetterThan(m) : ~Usable(x)
    BY DEF BetterThan
  <2>2. d \in candidates /\ d \notin BetterThan(m)
    BY <2>1, CleanMarked, Zenon DEF Erase
  <2> QED  BY <1>1, <2>2 DEF BetterThan
<1> QED  BY <1>3, <1>6, <1>7, Zenon

\* Some candidate is left when the tip moves to a valid chain: the tip itself, or the one before.
LEMMA LeftSettles ==
    ASSUME TypeOK, Ordered, LeftInv, Sound, UNCHANGED <<links, order>>,
           tip' \in linked, Clean(tip'), Clean(tip)', ~Tainted(tip'),
           \A b \in candidates : Clean(b)' /\ ~Worse(Order, b, tip') => b \in candidates',
           \A b \in linked : Clean(b)' => Clean(b),
           \A b \in linked : Clean(b) /\ ~Tainted(b) => Clean(b)'
    PROVE  LeftInv'
<1>1. linked' = linked /\ Order' = Order
  BY Zenon DEF links, order, Order
<1>2. linked \subseteq Block /\ candidates \subseteq linked
  BY DEF TypeOK, Sound
<1>3. PICK c \in Block : Covers(c)
  BY DEF LeftInv
<1>4. c \in candidates /\ c \in linked /\ Clean(c) /\ ~Tainted(c)
  BY <1>2, <1>3, Zenon DEF Covers
<1>5. \A b \in linked : Clean(b)' /\ ~Worse(Order, b, c) /\ ~Worse(Order, b, tip') => b \in candidates'
  BY <1>3 DEF Covers
<1>6. CASE Worse(Order, tip', c)
  <2>1. c \in candidates' /\ Clean(c)'
    BY <1>2, <1>4, <1>6, OrderFacts, Zenon
  <2>2. ASSUME NEW b \in linked, Clean(b)', ~Worse(Order, b, c)
        PROVE  b \in candidates'
    <3>1. ~Worse(Order, b, tip')
      BY <1>2, <1>6, <2>2, OrderFacts, Zenon
    <3> QED  BY <1>5, <2>2, <3>1, Zenon
  <2>3. Covers(c)'
    BY <1>1, <1>4, <2>1, <2>2, Zenon DEF Covers, Tainted
  <2> QED  BY <2>3, Zenon DEF LeftInv
<1>7. CASE ~Worse(Order, tip', c)
  <2>1. tip' \in Block /\ ~Worse(Order, tip', tip')
    BY <1>2, OrderFacts, Zenon
  <2>2. tip' \in candidates'
    <3>1. tip' \in candidates
      BY <1>3, <1>7, Zenon DEF Covers
    <3> QED  BY <2>1, <3>1, Zenon DEF Clean
  <2>3. ASSUME NEW b \in linked, Clean(b)', ~Worse(Order, b, tip')
        PROVE  b \in candidates'
    <3>1. ~Worse(Order, b, c)
      BY <1>2, <1>7, <2>1, <2>3, OrderFacts, Zenon
    <3> QED  BY <1>5, <2>3, <3>1, Zenon
  <2>4. PICK n \in Block : n = tip'
    BY <2>1, Zenon
  <2>5. Clean(n)' /\ ~Tainted(n)
    BY <2>4, Zenon DEF Clean, Tainted
  <2>6. Covers(n)'
    BY <1>1, <2>2, <2>3, <2>4, <2>5, Zenon DEF Covers, Tainted
  <2> QED  BY <2>6, Zenon DEF LeftInv
<1> QED  BY <1>6, <1>7, Zenon

\* With calls that do not overlap, the other threads are not in ActivateBestChain.
LEMMA Alone ==
    ASSUME TypeOK, BaseInv, Serial, NEW t \in Threads, pc[t] = "loop", NEW n,
           goal' = [goal EXCEPT ![t] = n]
    PROVE  /\ \A u \in Threads : goal'[u] # NoBlock => goal'[u] = n
           /\ UNCHANGED pc => ~Quiet'
BY DEF TypeOK, BaseInv, Serial, Quiet

\* The ids of precious blocks matter for fewer blocks when blocks fail.
LEMMA PreciousKept ==
    ASSUME TypeOK, PreciousInv, UNCHANGED <<links, order>>, count'.invalidate = count.invalidate,
           \A b \in linked : Clean(b)' => Clean(b)
    PROVE  PreciousInv'
<1>1. UNCHANGED <<linked, seqId, reverseSeq, lastPrecious>>
  BY Zenon DEF links, order
<1> QED  BY <1>1 DEF PreciousInv, Tainted

\* Moving the tip towards the best chain.  cands and fc are what FindMostWorkChain left.
Heading(most, cands, fc) ==
    /\ most \in linked /\ Clean(most) /\ IsBest(most)
    /\ cands \subseteq candidates /\ \A d \in cands : ~Worse(Order, most, d)
    /\ \A b \in candidates : Clean(b) => b \in cands
    /\ failedChild \subseteq fc /\ \A b \in linked : Clean(b) => Path(b) \cap fc = {}

LEMMA BestAdvance ==
    ASSUME TypeOK, Ordered, Sound, BaseInv, BestInv, Serial, NEW t \in Threads, pc[t] = "loop",
           NEW most \in Block, NEW cands, NEW fc, Heading(most, cands, fc), Advance(t, most, cands, fc),
           UNCHANGED <<links, order>>, count'.invalidate = count.invalidate, ~Tainted(tip')
    PROVE  BestInv'
<1>1. linked' = linked /\ Order' = Order /\ linked \subseteq Block /\ candidates \subseteq linked
  BY Zenon DEF links, order, Order, TypeOK, Sound
<1>2. /\ tip' \in Path(most)
      /\ candidates' = {c \in cands : ~Worse(Order, c, tip')}
      /\ failedValid' = failedValid /\ failedChild' = fc
  BY Zenon DEF Advance, Prune
<1>3. tip' \in linked /\ tip' \in Block /\ Path(tip') \subseteq Path(most)
  BY <1>1, <1>2, PathTransitive, Zenon DEF BaseInv, Heading
<1>4. \A b \in linked : Clean(b)' <=> Clean(b)
  BY <1>2, Zenon DEF Clean, Failed, Heading
<1>5. Clean(tip') /\ Clean(tip)'
  <2>1. Clean(tip')
    BY <1>3, Zenon DEF Clean, Heading
  <2> QED  BY <1>2, <1>3, <2>1, Zenon DEF Clean, Failed, Heading
<1>6. TipInv'
  BY <1>1, <1>2, <1>5, Zenon DEF TipInv
<1>7. candidates' \subseteq candidates /\ \A d \in candidates' : ~Worse(Order, most, d)
  BY <1>2, Zenon DEF Heading
<1>8. IsBest(most)' /\ Clean(most)'
  BY <1>1, <1>4, Zenon DEF IsBest, Heading
<1>9. LeftInv'
  <2>1. \A b \in candidates : Clean(b)' /\ ~Worse(Order, b, tip') => b \in candidates'
    BY <1>1, <1>2, <1>4, Zenon DEF Heading
  <2> QED  BY <1>3, <1>4, <1>5, <2>1, LeftSettles, Zenon DEF BestInv
<1>10. PreciousInv'
  BY <1>4, PreciousKept, Zenon DEF BestInv
<1>11. CASE tip' = most /\ Return(t)
  <2>1. GoalInv'
    BY <1>11, Alone, Zenon DEF GoalInv, Return
  <2>2. \A d \in candidates' : d = most
    BY <1>1, <1>2, <1>7, <1>11, OrderFacts
  <2>3. candidates' # {}
    BY <1>9 DEF LeftInv, Covers
  <2>4. RestInv'
    <3>1. IsBest(tip)'
      BY <1>8, <1>11 DEF IsBest
    <3> QED  BY <1>11, <2>2, <2>3, <3>1 DEF RestInv
  <2> QED  BY <1>6, <1>9, <1>10, <2>1, <2>4, Zenon DEF BestInv
<1>12. CASE goal' = [goal EXCEPT ![t] = most] /\ UNCHANGED pc
  <2>1. ~Quiet' /\ \A u \in Threads : goal'[u] # NoBlock => goal'[u] = most
    BY <1>12, Alone, Zenon
  <2>2. ASSUME NEW u \in Threads, goal'[u] # NoBlock
        PROVE  /\ Clean(goal[u])' /\ IsBest(goal[u])'
               /\ \A d \in candidates' : ~Worse(Order', goal'[u], d)
    BY <1>1, <1>7, <1>8, <2>1, <2>2 DEF Clean, IsBest
  <2>3. GoalInv'
    BY <2>2 DEF GoalInv
  <2> QED  BY <1>6, <1>9, <1>10, <2>1, <2>3 DEF BestInv, RestInv
<1> QED  BY <1>11, <1>12, Zenon DEF Advance

LEMMA BestReject ==
    ASSUME TypeOK, Ordered, WorkGrows, Sound, BaseInv, BestInv, Serial, NEW t \in Threads, pc[t] = "loop",
           NEW most \in Block, NEW cands, NEW fc, Heading(most, cands, fc), Reject(t, most, cands, fc),
           UNCHANGED <<links, order>>, count'.invalidate = count.invalidate, ~Tainted(tip')
    PROVE  BestInv'
<1>1. linked' = linked /\ Order' = Order /\ linked \subseteq Block /\ candidates \subseteq linked
  BY DEF links, order, Order, TypeOK, Sound
<1>2. PICK last \in Path(most) \cap Invalid :
        /\ tip' = Pprev(last)
        /\ candidates' = (IF tip' \in Path(tip) THEN cands ELSE Prune(cands, Order, tip')) \ {last}
        /\ failedValid' = failedValid \cup {last} /\ failedChild' = fc
        /\ goal' = [goal EXCEPT ![t] = NoBlock] /\ UNCHANGED pc
  BY DEF Reject
<1>3. last \in Block /\ last # Genesis /\ last \in Path(last) /\ last \in Unsound
  BY PathProperties, ChainAssumption, Zenon DEF Unsound
<1>4. /\ tip' \in Block /\ last \notin Path(tip')
      /\ tip' \in Path(most) /\ Path(tip') \subseteq Path(most)
  <2>1. Pprev(last) \in Block /\ last \notin Path(Pprev(last)) /\ Pprev(last) \in Path(last)
    BY <1>3, PathPprev, PathProperties
  <2>2. Path(last) \subseteq Path(most)
    BY PathTransitive, Zenon
  <2> QED  BY <1>2, <2>1, <2>2, PathTransitive, Zenon
<1>5. tip' \in linked
  BY <1>4, Zenon DEF BaseInv, Heading
<1>6. /\ \A b \in linked : Clean(b)' => Clean(b) /\ last \notin Path(b)
      /\ \A b \in linked : Clean(b) /\ last \notin Path(b) => Clean(b)'
  BY <1>2, Zenon DEF Clean, Failed, Heading
<1>7. \A b \in linked : Clean(b) /\ ~Tainted(b) => Clean(b)'
  BY <1>3, <1>6, Zenon DEF Tainted
<1>8. Clean(tip') /\ Clean(tip)'
  <2>1. Clean(tip')
    BY <1>4, Zenon DEF Clean, Heading
  <2> QED  BY <1>2, <1>4, <1>5, <2>1, Zenon DEF Clean, Failed, Heading
<1>9. TipInv'
  <2> SUFFICES ASSUME NEW c \in candidates', Worse(Order, c, tip')
               PROVE  FALSE
    BY <1>1, <1>8, Zenon DEF TipInv
  <2>1. tip' \in Path(tip) /\ c \in cands
    BY <1>2, Zenon DEF Prune
  <2>2. c \in Block /\ ~Worse(Order, c, tip) /\ tip \in Block
    BY <1>1, <2>1, Zenon DEF Heading, BestInv, TipInv, TypeOK
  <2>3. tip' = tip \/ Worse(Order, tip', tip)
    BY <2>1, <2>2, PathWorse, Zenon
  <2> QED  BY <1>4, <2>2, <2>3, OrderFacts, Zenon
<1>10. LeftInv'
  <2>1. ASSUME NEW b \in candidates, Clean(b)', ~Worse(Order, b, tip')
        PROVE  b \in candidates'
    <3>1. b \in Block /\ b \in Path(b)
      BY <1>1, PathProperties, Zenon
    <3>2. b \in cands /\ b # last
      BY <1>1, <1>6, <2>1, <3>1, Zenon DEF Heading
    <3> QED  BY <1>2, <2>1, <3>2, Zenon DEF Prune
  <2> QED  BY <1>5, <1>6, <1>7, <1>8, <2>1, LeftSettles, Zenon DEF BestInv
<1>11. PreciousInv'
  BY <1>6, PreciousKept, Zenon DEF BestInv
<1>12. GoalInv' /\ RestInv'
  BY <1>2, Alone, Zenon DEF GoalInv, RestInv
<1> QED  BY <1>9, <1>10, <1>11, <1>12 DEF BestInv

\* What is headed for is not on the active chain, and sorts better than the tip.
LEMMA Ahead ==
    ASSUME TypeOK, Ordered, WorkGrows, BaseInv, TipInv, NEW most \in Block, NEW cands, NEW fc,
           Heading(most, cands, fc), most # tip
    PROVE  most \notin Path(tip) /\ Worse(Order, tip, most)
<1>1. tip \in Block /\ ~Worse(Order, most, tip)
  BY DEF TypeOK, BaseInv, TipInv, Heading, IsBest
<1> QED  BY <1>1, OrderFacts, PathWorse, Zenon

LEMMA BestStep ==
    ASSUME TypeOK, Ordered, WorkGrows, Sound, BaseInv, BestInv, Serial, NEW t \in Threads, pc[t] = "loop",
           NEW most \in Block, NEW cands, NEW fc \in SUBSET Block, Heading(most, cands, fc),
           Step(t, most, cands, fc), ~Tainted(tip')
    PROVE  /\ BestInv'
           /\ tip' # tip /\ failedValid' = failedValid => Worse(Order, tip, tip')
<1>1. most # tip /\ tip \in Block
  BY DEF Step, TypeOK
<1>2. most \notin Path(tip) /\ Worse(Order, tip, most)
  BY <1>1, Ahead, Zenon DEF BestInv
<1>3. UNCHANGED <<links, order>> /\ count'.invalidate = count.invalidate
  <2>1. StepEffect(t, most, cands, fc)
    BY <1>1, StepDoes, Zenon
  <2> QED  BY <2>1, StepCount, Zenon
<1>4. CASE Advance(t, most, cands, fc)
  <2>1. BestInv'
    BY <1>3, <1>4, BestAdvance, Zenon
  <2>2. Worse(Order, tip, tip')
    <3>1. CASE tip' = most
      BY <1>2, <3>1, Zenon
    <3>2. CASE Work[tip'] > Work[tip]
      <4>1. tip' \in Block /\ Work[tip'] \in Nat /\ Work[tip] \in Nat
        BY <1>1, <1>4, PathProperties, OrderAssumption, Zenon DEF Advance
      <4> QED  BY <1>1, <3>2, <4>1, OrderFacts, Zenon
    <3> QED  BY <1>4, <3>1, <3>2, Zenon DEF Advance
  <2> QED  BY <2>1, <2>2, Zenon
<1>5. CASE Reject(t, most, cands, fc)
  <2>1. BestInv'
    BY <1>3, <1>5, BestReject
  <2>2. failedValid' # failedValid
    BY <1>5, Zenon DEF Reject, Heading, Clean, Failed
  <2> QED  BY <2>1, <2>2, Zenon
<1> QED  BY <1>2, <1>4, <1>5, StepCases

LEMMA HeadingFound ==
    ASSUME TypeOK, Ordered, Sound, BestInv, NEW most \in candidates, IsMostWork(most)
    PROVE  Heading(most, Erase(BetterThan(most)), Mark(BetterThan(most)))
<1>1. most \in linked /\ most \in Block /\ linked \subseteq Block
  BY DEF Sound, TypeOK
<1>2. BetterThan(most) \in SUBSET candidates /\ \A c \in BetterThan(most) : ~Usable(c)
  BY Zenon DEF BetterThan
<1>3. /\ Clean(most) /\ IsBest(most)
      /\ \A d \in Erase(BetterThan(most)) : d \in candidates /\ ~Worse(Order, most, d)
  BY <1>1, FindBest, Zenon DEF BestInv
<1>4. /\ \A b \in linked : Clean(b) => Path(b) \cap Mark(BetterThan(most)) = {}
      /\ \A b \in candidates : Clean(b) => b \in Erase(BetterThan(most))
  BY <1>1, <1>2, CleanMarked, Zenon
<1>5. failedChild \subseteq Mark(BetterThan(most))
  BY Zenon DEF Mark
<1> QED  BY <1>1, <1>3, <1>4, <1>5, Zenon DEF Heading

LEMMA HeadingKept ==
    ASSUME TypeOK, Sound, BestInv, NEW t \in Threads, goal[t] # NoBlock
    PROVE  goal[t] \in Block /\ Heading(goal[t], candidates, failedChild)
<1>1. goal[t] \in Block /\ goal[t] \in linked
  BY DEF TypeOK, Sound
<1>2. \A b \in linked : Clean(b) => Path(b) \cap failedChild = {}
  BY Zenon DEF Clean, Failed
<1> QED  BY <1>1, <1>2, Zenon DEF Heading, BestInv, GoalInv

LEMMA BestNothing ==
    ASSUME TypeOK, Ordered, Sound, BaseInv, BestInv, Serial, NEW t \in Threads, NothingToDo(t)
    PROVE  BestInv'
<1>1. /\ pc[t] = "loop" /\ goal' = [goal EXCEPT ![t] = NoBlock]
      /\ UNCHANGED <<failedValid, links, order, tip, count>>
  BY Zenon DEF NothingToDo, Return
<1>2. linked' = linked /\ Order' = Order /\ linked \subseteq Block /\ candidates \subseteq linked
  BY <1>1, Zenon DEF links, order, Order, TypeOK, Sound
<1>3. tip \in Block /\ tip \in linked /\ Clean(tip) /\ ~Tainted(tip)
  BY Zenon DEF TypeOK, BaseInv, BestInv, TipInv, Sound
<1>4. GoalInv'
  BY <1>1, Alone, Zenon DEF GoalInv
<1>5. ASSUME NEW cands, NEW fc, Heading(tip, cands, fc), candidates' = cands, failedChild' = fc
      PROVE  BestInv'
  <2>1. \A b \in linked : Clean(b)' <=> Clean(b)
    BY <1>1, <1>5 DEF Clean, Failed, Heading
  <2>2. Clean(tip)'
    BY <1>1, <1>3, <1>5 DEF Clean, Failed, Heading
  <2>3. TipInv'
    BY <1>1, <1>2, <1>5, <2>2 DEF TipInv, Heading, BestInv
  <2>4. LeftInv'
    <3>1. \A b \in candidates : Clean(b)' /\ ~Worse(Order, b, tip') => b \in candidates'
      BY <1>2, <1>5, <2>1, Zenon DEF Heading
    <3> QED  BY <1>1, <1>3, <2>1, <2>2, <3>1, LeftSettles, Zenon DEF BestInv
  <2>5. PreciousInv'
    BY <1>1, <2>1, PreciousKept, Zenon DEF BestInv
  <2>6. candidates' = {tip'}
    <3>1. \A d \in candidates' : d = tip
      <4>1. \A d \in candidates' : d \in Block /\ ~Worse(Order, tip, d) /\ ~Worse(Order, d, tip)
        BY <1>2, <1>5, Zenon DEF Heading, BestInv, TipInv
      <4> QED  BY <1>3, <4>1, OrderFacts, Zenon
    <3>2. candidates' # {}
      BY <2>4, Zenon DEF LeftInv, Covers
    <3> QED  BY <1>1, <3>1, <3>2, Zenon
  <2>7. IsBest(tip)'
    BY <1>1, <1>2, <1>5, <2>1, Zenon DEF IsBest, Heading
  <2> QED  BY <1>4, <2>3, <2>4, <2>5, <2>6, <2>7 DEF BestInv, RestInv
<1>6. CASE IsMostWork(tip) /\ candidates' = Erase(BetterThan(tip)) /\ failedChild' = Mark(BetterThan(tip))
  BY <1>5, <1>6, HeadingFound, Zenon DEF IsMostWork
<1>7. CASE \A c \in candidates : ~Usable(c)
  <2>1. PICK c \in Block : c \in candidates /\ Clean(c)
    BY Zenon DEF BestInv, LeftInv, Covers
  <2>2. Usable(c)
    BY <1>3, <2>1, OffChainPath, Zenon DEF Usable, Broken, Clean
  <2> QED  BY <1>7, <2>1, <2>2, Zenon
<1>8. CASE goal[t] = tip /\ UNCHANGED <<candidates, failedChild>>
  <2>1. goal[t] # NoBlock
    BY <1>3, <1>8, ChainAssumption, Zenon
  <2> QED  BY <1>5, <1>8, <2>1, HeadingKept, Zenon
<1> QED  BY <1>6, <1>7, <1>8, Zenon DEF NothingToDo

\* A thread calls ActivateBestChain when no other is in it.
LEMMA CallsAtRest ==
    ASSUME TypeOK, BaseInv, Serial', NEW t \in Threads, pc[t] = "idle", CallActivateBestChain(t)
    PROVE  Quiet /\ GoalInv' /\ RestInv'
<1>1. Quiet
  BY Zenon DEF TypeOK, Serial, Quiet, CallActivateBestChain
<1>2. \A u \in Threads : goal'[u] = NoBlock
  BY <1>1 DEF TypeOK, BaseInv, Quiet, CallActivateBestChain
<1>3. ~Quiet'
  BY Zenon DEF TypeOK, Quiet, CallActivateBestChain
<1> QED  BY <1>1, <1>2, <1>3, Zenon DEF GoalInv, RestInv

\* ReceivedBlockTransactions makes candidates of the blocks that become linked.
LEMMA BestLinks ==
    ASSUME TypeOK, TypeOK', Ordered, Sound, BaseInv, BestInv, Quiet,
           NEW new \in SUBSET Block, new \cap linked = {}, linked' = linked \cup new,
           \A x \in Block : seqId'[x] >= 0 \/ x \notin new,
           \A x \in Block \ new : seqId'[x] = seqId[x],
           candidates' = candidates \cup {x \in new : ~Worse(Order', x, tip)},
           UNCHANGED <<tip, failedValid, failedChild, bare, reverseSeq, lastPrecious>>,
           count'.invalidate = count.invalidate
    PROVE  TipInv' /\ LeftInv' /\ PreciousInv'
<1>1. /\ Order'.seq \in [Block -> Int] /\ Order.seq = seqId /\ Order'.seq = seqId'
      /\ Order'.bare = Order.bare
  BY Zenon DEF Order, TypeOK
<1>2. \A x, y \in Block \ new : Worse(Order', x, y) <=> Worse(Order, x, y)
  BY <1>1, WorseSame, Zenon
<1>3. tip \in Block \ new /\ linked \subseteq Block \ new
  BY Zenon DEF TypeOK, BaseInv
<1>4. candidates = {tip} /\ IsBest(tip) /\ Clean(tip) /\ ~Tainted(tip)
  BY Zenon DEF BestInv, RestInv, TipInv, Sound
<1>5. \A b \in Block : Clean(b)' <=> Clean(b)
  BY Zenon DEF Clean, Failed
<1>6. ~Worse(Order', tip, tip)
  BY <1>1, <1>3, WorseTotal, Zenon
<1>7. TipInv'
  BY <1>3, <1>4, <1>5, <1>6, Zenon DEF TipInv, Clean
<1>8. LeftInv'
  <2>1. ASSUME NEW b \in linked', Clean(b)', ~Worse(Order', b, tip)
        PROVE  b \in candidates'
    <3>1. CASE b \in new
      BY <2>1, <3>1, Zenon
    <3>2. CASE b \in linked
      <4>1. ~Worse(Order, b, tip) /\ ~Worse(Order, tip, b) /\ b \in Block
        BY <1>2, <1>3, <1>4, <1>5, <2>1, <3>2, Zenon DEF IsBest
      <4>2. b = tip
        BY <1>3, <4>1, OrderFacts, Zenon
      <4> QED  BY <1>4, <4>2, Zenon
    <3> QED  BY <3>1, <3>2, Zenon
  <2>2. PICK n \in Block : n = tip
    BY <1>3, Zenon
  <2>3. Clean(n) /\ ~Tainted(n) /\ n \in candidates'
    BY <1>4, <2>2, Zenon
  <2>4. Covers(n)'
    BY <1>5, <2>1, <2>2, <2>3, Zenon DEF Covers, Tainted
  <2> QED  BY <2>4, Zenon DEF LeftInv
<1>9. PreciousInv'
  <2> SUFFICES ASSUME count.invalidate = 0
               PROVE  /\ \E x \in linked' : ~Tainted(x)' /\ lastPrecious' <= Work[x]
                      /\ \A x \in linked' : Clean(x)' /\ seqId'[x] < 0 =>
                          /\ Work[x] <= lastPrecious'
                          /\ Work[x] = lastPrecious' => seqId'[x] > reverseSeq' \/ reverseSeq' = MinSequenceId
    BY Zenon DEF PreciousInv
  <2>1. \E x \in linked' : ~Tainted(x)' /\ lastPrecious' <= Work[x]
    BY Zenon DEF BestInv, PreciousInv, Tainted
  <2>2. ASSUME NEW x \in linked', Clean(x)', seqId'[x] < 0
        PROVE  /\ Work[x] <= lastPrecious'
               /\ Work[x] = lastPrecious' => seqId'[x] > reverseSeq' \/ reverseSeq' = MinSequenceId
    <3>1. seqId'[x] \in Int /\ x \in Block
      BY Zenon DEF TypeOK
    <3>2. x \in linked /\ seqId'[x] = seqId[x] /\ Clean(x)
      <4>1. ~(seqId'[x] >= 0)
        BY <2>2, <3>1
      <4>2. x \notin new
        BY <3>1, <4>1, Zenon
      <4> QED  BY <1>5, <2>2, <3>1, <4>2, Zenon
    <3> QED  BY <2>2, <3>2, Zenon DEF BestInv, PreciousInv
  <2> QED  BY <2>1, <2>2, Zenon
<1> QED  BY <1>7, <1>8, <1>9, Zenon

\* Nothing that the comparator, the candidates and the failed linked blocks depend on changes.
LEMMA BestSame ==
    ASSUME TypeOK, Sound, BaseInv, BestInv, UNCHANGED <<linked, candidates, order, tip>>,
           count'.invalidate = count.invalidate, \A b \in linked : Clean(b)' <=> Clean(b)
    PROVE  /\ TipInv' /\ LeftInv' /\ PreciousInv'
           /\ UNCHANGED threads => GoalInv' /\ RestInv'
<1>1. Order' = Order /\ UNCHANGED <<linked, candidates, tip, seqId, reverseSeq, lastPrecious>>
  BY Zenon DEF order, Order
<1>2. TipInv'
  <2>1. PICK n \in linked : n = tip
    BY Zenon DEF BaseInv
  <2>2. Clean(n)'
    BY <2>1, Zenon DEF BestInv, TipInv
  <2> QED  BY <1>1, <2>1, <2>2, Zenon DEF BestInv, TipInv, Clean
<1>3. PreciousInv'
  BY <1>1, Zenon DEF BestInv, PreciousInv, Tainted
<1>4. \A x : IsBest(x)' <=> IsBest(x)
  BY <1>1, Zenon DEF IsBest
<1>5. LeftInv'
  <2>1. PICK c \in Block : Covers(c)
    BY Zenon DEF BestInv, LeftInv
  <2>2. Clean(c)'
    BY <2>1, Zenon DEF Covers, Sound
  <2>3. Covers(c)'
    BY <1>1, <2>1, <2>2, Zenon DEF Covers, Tainted
  <2> QED  BY <2>3, Zenon DEF LeftInv
<1>6. ASSUME UNCHANGED threads
      PROVE  GoalInv' /\ RestInv'
  <2>1. pc' = pc /\ goal' = goal
    BY <1>6, Zenon DEF threads
  <2>2. RestInv'
    BY <1>1, <1>4, <2>1, Zenon DEF BestInv, RestInv, Quiet, IsBest
  <2>3. ASSUME NEW t \in Threads, goal[t] # NoBlock
        PROVE  Clean(goal[t])' /\ IsBest(goal[t])' /\ \A d \in candidates' : ~Worse(Order', goal'[t], d)
    <3>1. goal[t] \in linked
      BY <2>3, Zenon DEF Sound
    <3>2. PICK g \in linked : g = goal[t]
      BY <3>1, Zenon
    <3>3. Clean(g)' /\ IsBest(g)' /\ \A d \in candidates : ~Worse(Order, g, d)
      BY <1>4, <2>3, <3>2, Zenon DEF BestInv, GoalInv
    <3> QED  BY <1>1, <2>1, <3>2, <3>3, Zenon DEF Clean, IsBest
  <2> QED  BY <2>1, <2>2, <2>3, Zenon DEF GoalInv
<1> QED  BY <1>2, <1>3, <1>5, <1>6, Zenon

\* ProcessNewBlock: a block that fails ContextualCheckBlock is on no linked chain.
LEMMA BestProcess ==
    ASSUME TypeOK, TypeOK', Ordered, Sound, LinkBase, BaseInv, BestInv, Serial',
           NEW t \in Threads, NEW b \in Block, NEW requested, ProcessNewBlock(t, b, requested)
    PROVE  BestInv'
<1>1. pc[t] = "idle" /\ UNCHANGED <<tip, count>>
  BY Zenon DEF ProcessNewBlock
<1>2. CASE b \notin data /\ ReceivedBlockTransactions(b) /\ CallActivateBestChain(t) /\ UNCHANGED flags
  <2>1. Quiet /\ GoalInv' /\ RestInv'
    BY <1>1, <1>2, CallsAtRest, Zenon
  <2>2. UNCHANGED <<failedValid, failedChild, bare, reverseSeq, lastPrecious>>
    BY <1>2, Zenon DEF ReceivedBlockTransactions, flags
  <2>3. \A x \in Block : Clean(x)' <=> Clean(x)
    BY <2>2, Zenon DEF Clean, Failed
  <2>4. CASE UNCHANGED <<linked, seqId, nextSeq, candidates>>
    <3>1. TipInv' /\ LeftInv' /\ PreciousInv'
      BY <1>1, <2>2, <2>3, <2>4, BestSame DEF order, TypeOK
    <3> QED  BY <2>1, <3>1, Zenon DEF BestInv
  <2>5. ASSUME NEW rank \in QueueOrders(LinkedWith(b)), linked' = linked \cup LinkedWith(b),
               seqId' = [x \in Block |-> IF x \in LinkedWith(b) THEN nextSeq + rank[x] - 1 ELSE seqId[x]],
               candidates' = candidates \cup
                   {x \in LinkedWith(b) : ~Worse([Order EXCEPT !.seq = seqId'], x, tip)}
        PROVE  BestInv'
    <3>1. LinkedWith(b) \in SUBSET Block /\ Cardinality(LinkedWith(b)) \in Nat
      BY LinkedWithType, Zenon
    <3>2. \A x \in LinkedWith(b) : rank[x] \in 1..Cardinality(LinkedWith(b))
      BY Zenon DEF QueueOrders
    <3>3. \A x \in Block : seqId'[x] >= 0 \/ x \notin LinkedWith(b)
      <4>1. nextSeq \in Nat /\ nextSeq > 0
        BY DEF TypeOK
      <4> QED  BY <2>5, <3>1, <3>2, <4>1
    <3>4. \A x \in Block \ LinkedWith(b) : seqId'[x] = seqId[x]
      BY <2>5, Zenon
    <3>5. LinkedWith(b) \cap linked = {}
      <4>1. b \in Path(b)
        BY PathProperties
      <4> QED  BY <1>2, <4>1, Zenon DEF LinkedWith, LinkBase, Sound
    <3>6. [Order EXCEPT !.seq = seqId'] = Order'
      BY <2>2 DEF Order
    <3>7. TipInv' /\ LeftInv' /\ PreciousInv'
      <4>1. candidates' = candidates \cup {x \in LinkedWith(b) : ~Worse(Order', x, tip)}
        BY <2>5, <3>6
      <4> QED  BY <1>1, <2>1, <2>2, <2>5, <3>1, <3>3, <3>4, <3>5, <4>1, BestLinks, Zenon
    <3> QED  BY <2>1, <3>7, Zenon DEF BestInv
  <2> QED  BY <1>2, <2>4, <2>5 DEF ReceivedBlockTransactions
<1>3. CASE /\ b \notin data /\ failedValid' = failedValid \cup {b}
           /\ UNCHANGED <<failedChild, data, linked, unlinked, candidates, order, threads>>
  <2>1. \A x \in linked : b \notin Path(x)
    BY <1>3 DEF Sound
  <2>2. \A x \in linked : Clean(x)' <=> Clean(x)
    BY <1>3, <2>1 DEF Clean, Failed
  <2> QED  BY <1>1, <1>3, <2>2, BestSame DEF BestInv
<1>4. CASE /\ CallActivateBestChain(t)
           /\ UNCHANGED <<flags, data, linked, unlinked, candidates, order>>
  <2>1. \A x \in linked : Clean(x)' <=> Clean(x)
    BY <1>4, Zenon DEF Clean, Failed, flags
  <2>2. TipInv' /\ LeftInv' /\ PreciousInv'
    BY <1>1, <1>4, <2>1, BestSame, Zenon
  <2> QED  BY <1>1, <1>4, <2>2, CallsAtRest, Zenon DEF BestInv
<1> QED  BY <1>2, <1>3, <1>4, Zenon DEF ProcessNewBlock

LEMMA BestInvalidate ==
    ASSUME TypeOK, Ordered, WorkGrows, Sound, BaseInv, BestInv, Serial', NEW t \in Threads, NEW b \in Block,
           InvalidateBlock(t, b)
    PROVE  /\ BestInv'
           /\ tip' # tip => failedValid' # failedValid
<1> DEFINE R == {x \in linked \ (failedValid' \cup failedChild') : ~Worse(Order, x, tip')}
<1>1. /\ pc[t] = "idle" /\ CallActivateBestChain(t)
      /\ tip' \in Path(tip) /\ b \notin Path(tip') /\ (tip' = tip \/ b \in Path(tip))
      /\ R \subseteq candidates' /\ candidates' \subseteq candidates \cup R
  BY InvalidateMoves, Zenon
<1>2. PICK walked \in SUBSET Path(tip) :
        /\ failedValid' = failedValid \cup {b}
        /\ failedChild' = failedChild \cup walked
        /\ count'["invalidate"] # 0
        /\ UNCHANGED <<links, undo, order>>
        /\ \A x \in walked : b \in Path(x)
  BY InvalidateDoes, ZenonT(40) DEF InvalidateEffect
<1>3. linked' = linked /\ Order' = Order /\ linked \subseteq Block /\ candidates \subseteq Block
  BY <1>2, Zenon DEF links, order, Order, TypeOK
<1>4. tip \in Block /\ tip' \in Block /\ tip' \in linked /\ Path(tip') \subseteq Path(tip)
  <2>1. tip \in Block /\ tip' \in Block /\ tip' \in linked
    BY <1>1, PathProperties, Zenon DEF TypeOK, BaseInv
  <2> QED  BY <1>1, <2>1, PathTransitive, Zenon
<1>5. Clean(tip) /\ ~Tainted(tip)
  BY Zenon DEF BestInv, TipInv, Sound
<1>6. Clean(tip)' /\ ~Tainted(tip')
  <2>1. walked \cap Path(tip') = {}
    BY <1>1, <1>2, <1>4, PathTransitive, Zenon
  <2>2. Path(tip') \cap Failed' = {}
    BY <1>1, <1>2, <1>4, <1>5, <2>1 DEF Clean, Failed
  <2> QED  BY <1>4, <1>5, <2>2, Zenon DEF Clean, Tainted
<1>7. ASSUME NEW c \in candidates', Worse(Order, c, tip')
      PROVE  FALSE
  <2>1. c \in candidates /\ c \in Block /\ ~Worse(Order, c, tip)
    BY <1>1, <1>3, <1>7, Zenon DEF BestInv, TipInv
  <2>2. tip' = tip \/ Worse(Order, tip', tip)
    BY <1>1, <1>4, PathWorse, Zenon
  <2> QED  BY <1>4, <1>7, <2>1, <2>2, OrderFacts, Zenon
<1>8. TipInv'
  BY <1>3, <1>6, <1>7 DEF TipInv
<1>9. LeftInv'
  <2>1. PICK n \in Block : n = tip'
    BY <1>4, Zenon
  <2>2. ASSUME NEW x \in linked, Clean(x)', ~Worse(Order, x, tip')
        PROVE  x \in candidates'
    <3>1. x \in Path(x)
      BY <1>3, PathProperties, Zenon
    <3>2. x \notin failedValid' \cup failedChild'
      BY <2>2, <3>1, Zenon DEF Clean, Failed
    <3> QED  BY <1>1, <2>2, <3>2, Zenon
  <2>3. Clean(n)' /\ ~Tainted(n)
    BY <1>6, <2>1, Zenon DEF Clean
  <2>4. n \in candidates'
    BY <1>4, <2>1, <2>2, <2>3, OrderFacts, Zenon
  <2> HIDE DEF R
  <2>5. Covers(n)'
    BY <1>3, <2>1, <2>2, <2>3, <2>4, Zenon DEF Covers, Tainted
  <2> QED  BY <2>5, Zenon DEF LeftInv
<1>10. PreciousInv'
  BY <1>2, Zenon DEF PreciousInv
<1>11. GoalInv' /\ RestInv'
  BY <1>1, CallsAtRest, Zenon
<1>12. tip' # tip => failedValid' # failedValid
  BY <1>1, <1>2, <1>5, Zenon DEF Clean, Failed
<1> QED  BY <1>8, <1>9, <1>10, <1>11, <1>12, Zenon DEF BestInv

LEMMA BestRestart ==
    ASSUME TypeOK, TypeOK', Ordered, Sound, Sound', BaseInv, BaseInv', count'.invalidate = 0,
           NEW t \in Threads, Restart(t)
    PROVE  BestInv'
<1>1. /\ linked' = LoadLinked(disk.data)
      /\ failedValid' = disk.failedValid /\ failedChild' = disk.failedChild
      /\ seqId' = [x \in Block |-> 0] /\ lastPrecious' = 0 /\ tip' = disk.tip
      /\ candidates' = Prune(LoadCandidates(disk.data, disk.failedValid \cup disk.failedChild),
                             [seq |-> seqId', bare |-> bare'], disk.tip)
      /\ pc' = [x \in Threads |-> IF x = t THEN "loop" ELSE "idle"]
      /\ goal' = [x \in Threads |-> NoBlock]
  BY Zenon DEF Restart
<1>2. candidates' = {c \in linked' \ Failed' : ~Worse(Order', c, tip')}
  BY <1>1, Zenon DEF Prune, LoadCandidates, Order, Failed
<1>3. Order'.seq \in [Block -> Int]
  BY DEF Order, TypeOK
<1>4. tip' \in Block /\ tip' \in linked' /\ ~Tainted(tip') /\ linked' \subseteq Block
  BY DEF TypeOK, BaseInv, Sound, Tainted
<1>5. Clean(tip)'
  <2> SUFFICES ASSUME NEW x \in Path(tip'), x \in Failed'
               PROVE  FALSE
    BY Zenon DEF Clean
  <2>1. Tainted(x)
    BY Zenon DEF Sound, Tainted, Failed
  <2> QED  BY <1>4, <2>1, TaintedAbove, Zenon
<1>6. ~Worse(Order', tip', tip')
  BY <1>3, <1>4, WorseTotal, Zenon
<1>7. TipInv'
  BY <1>2, <1>5, Zenon DEF TipInv
<1>8. LeftInv'
  <2>1. PICK n \in Block : n = tip'
    BY <1>4, Zenon
  <2>2. ASSUME NEW x \in linked', Clean(x)', ~Worse(Order', x, tip')
        PROVE  x \in candidates'
    <3>1. x \in Path(x)
      BY <1>4, PathProperties, Zenon
    <3> QED  BY <1>2, <2>2, <3>1 DEF Clean
  <2>3. Clean(n)' /\ ~Tainted(n)
    BY <1>4, <1>5, <2>1, Zenon DEF Clean
  <2>4. n \in candidates'
    BY <1>4, <1>6, <2>1, <2>2, <2>3, Zenon
  <2>5. Covers(n)'
    BY <2>1, <2>2, <2>3, <2>4, Zenon DEF Covers, Tainted
  <2> QED  BY <2>5, Zenon DEF LeftInv
<1>9. PreciousInv'
  <2>1. \A x \in linked' : ~(seqId'[x] < 0)
    <3>1. \A x \in linked' : seqId'[x] = 0
      BY <1>1, <1>4, Zenon
    <3>2. ~(0 < 0)
      OBVIOUS
    <3> QED  BY <3>1, <3>2, Zenon
  <2>2. Work[tip'] \in Nat
    BY <1>4, OrderAssumption, Zenon
  <2>3. \E x \in linked' : ~Tainted(x)' /\ lastPrecious' <= Work[x]
    <3>1. \A w \in Nat : 0 <= w
      OBVIOUS
    <3>2. lastPrecious' <= Work[tip']
      BY <1>1, <2>2, <3>1, Zenon
    <3> QED  BY <1>4, <3>2, Zenon DEF Tainted
  <2> QED  BY <2>1, <2>3, Zenon DEF PreciousInv
<1>10. GoalInv' /\ ~Quiet'
  BY <1>1, Zenon DEF GoalInv, Quiet
<1> QED  BY <1>7, <1>8, <1>9, <1>10, Zenon DEF BestInv, RestInv

\* The ids of precious blocks when a block is about to become one: those with the tip's work
\* were made precious since the chain last grew.
LEMMA PreciousBefore ==
    ASSUME TypeOK, Ordered, Sound, BaseInv, BestInv, Quiet, count.invalidate = 0
    PROVE  /\ ReverseId \in Int /\ ReverseId < 0 /\ ReverseId >= MinSequenceId
           /\ \A x \in linked : Clean(x) => Work[x] <= Work[tip]
           /\ \A x \in linked : Clean(x) /\ seqId[x] < 0 /\ Work[x] = Work[tip] =>
                 /\ ReverseId = reverseSeq
                 /\ seqId[x] > ReverseId \/ ReverseId = MinSequenceId
<1>1. /\ tip \in Block /\ linked \subseteq Block /\ reverseSeq \in Int /\ reverseSeq < 0
      /\ reverseSeq >= MinSequenceId /\ lastPrecious \in Nat /\ MinSequenceId \in Int /\ MinSequenceId < 0
  BY ChainAssumption DEF TypeOK
<1>2. \A x \in Block : Work[x] \in Nat
  BY OrderAssumption, Zenon
<1>3. ASSUME NEW x \in linked, Clean(x)
      PROVE  Work[x] <= Work[tip]
  <2>1. ~Worse(Order, tip, x)
    BY <1>3, Zenon DEF BestInv, RestInv, IsBest
  <2>2. ~(Work[tip] < Work[x])
    BY <1>1, <2>1, OrderFacts, Zenon
  <2> QED  BY <1>1, <1>2, <2>2
<1>4. lastPrecious <= Work[tip]
  <2>1. PICK x \in linked : ~Tainted(x) /\ lastPrecious <= Work[x]
    BY Zenon DEF BestInv, PreciousInv
  <2>2. Clean(x)
    <3>1. x \in Block /\ \A y \in Path(x) : ~Tainted(y)
      BY <1>1, <2>1, TaintedAbove, Zenon
    <3> QED  BY <3>1, Zenon DEF Clean, Failed, Sound
  <2> QED  BY <1>1, <1>2, <1>3, <2>1, <2>2
<1>5. ASSUME NEW x \in linked, Clean(x), seqId[x] < 0, Work[x] = Work[tip]
      PROVE  ReverseId = reverseSeq /\ (seqId[x] > ReverseId \/ ReverseId = MinSequenceId)
  <2>1. /\ Work[x] <= lastPrecious
        /\ Work[x] = lastPrecious => seqId[x] > reverseSeq \/ reverseSeq = MinSequenceId
    BY <1>5, Zenon DEF BestInv, PreciousInv
  <2>2. Work[tip] = lastPrecious
    BY <1>1, <1>2, <1>4, <1>5, <2>1
  <2>3. ReverseId = reverseSeq
    BY <1>1, <2>2 DEF ReverseId
  <2> QED  BY <1>5, <2>1, <2>2, <2>3, Zenon
<1>6. ReverseId \in Int /\ ReverseId < 0 /\ ReverseId >= MinSequenceId
  BY <1>1 DEF ReverseId
<1> QED  BY <1>3, <1>5, <1>6, Zenon

\* Making a block precious leaves the tip better than every other chain.
LEMMA PreciousTip ==
    ASSUME TypeOK, TypeOK', Ordered, Sound, BaseInv, BestInv, Quiet, count.invalidate = 0,
           NEW b \in Block, seqId' = [seqId EXCEPT ![b] = ReverseId], bare' = bare,
           NEW x \in linked, Clean(x), x # tip, x # b
    PROVE  Worse(Order', x, tip)
<1>1. x \in Block /\ tip \in Block
  BY Zenon DEF TypeOK
<1>2. Worse(Order, x, tip)
  <2>1. ~Worse(Order, tip, x)
    BY Zenon DEF BestInv, RestInv, IsBest
  <2> QED  BY <1>1, <2>1, OrderFacts, Zenon
<1>3. Order.seq = seqId /\ Order'.seq = seqId' /\ Order.bare = Order'.bare
  BY Zenon DEF Order
<1>4. seqId'[x] = seqId[x] /\ (tip # b => seqId'[tip] = seqId[tip])
  BY <1>1 DEF TypeOK
<1>5. CASE GPoWEnabled \/ tip # b
  BY <1>2, <1>3, <1>4, <1>5, WorseSame, Zenon
<1>6. CASE ~GPoWEnabled /\ tip = b
  <2>1. Work[x] \in Nat /\ Work[tip] \in Nat /\ Address[x] \in Nat /\ Address[tip] \in Nat
    BY <1>1, OrderAssumption
  <2>2. /\ seqId[x] \in Int /\ seqId[tip] \in Int /\ seqId[tip] >= MinSequenceId
        /\ seqId[x] >= MinSequenceId /\ MinSequenceId \in Int
    BY <1>1, ChainAssumption DEF TypeOK
  <2>3. seqId'[tip] = ReverseId
    BY <1>1, <1>6, Zenon DEF TypeOK
  <2>4. CASE Work[x] < Work[tip]
    BY <2>4, Zenon DEF Worse
  <2>5. CASE ~(Work[x] < Work[tip])
    <3>1. Work[x] = Work[tip] /\ ReceivedLater(Order, x, tip)
      BY <1>2, <1>6, <2>5, Zenon DEF Worse
    <3>2. seqId[x] > seqId[tip] \/ (seqId[x] = seqId[tip] /\ Address[x] > Address[tip])
      BY <1>3, <3>1, Zenon DEF ReceivedLater
    <3>3. /\ ReverseId \in Int /\ ReverseId < 0
          /\ seqId[x] < 0 => seqId[x] > ReverseId \/ ReverseId = MinSequenceId
      BY <3>1, PreciousBefore, Zenon
    <3>4. seqId[x] > ReverseId \/ (seqId[x] = ReverseId /\ Address[x] > Address[tip])
      BY <2>2, <3>2, <3>3
    <3>5. ReceivedLater(Order', x, tip)
      BY <1>3, <1>4, <2>3, <3>4, Zenon DEF ReceivedLater
    <3> QED  BY <1>6, <3>1, <3>5, Zenon DEF Worse
  <2> QED  BY <2>4, <2>5
<1> QED  BY <1>5, <1>6, Zenon

LEMMA BestPrecious ==
    ASSUME TypeOK, TypeOK', Ordered, Sound, BaseInv, BestInv, Serial', count.invalidate = 0,
           NEW t \in Threads, NEW b \in Block, PreciousBlock(t, b)
    PROVE  BestInv'
<1>1. /\ pc[t] = "idle" /\ CallActivateBestChain(t)
      /\ lastPrecious' = Work[tip] /\ seqId' = [seqId EXCEPT ![b] = ReverseId]
      /\ reverseSeq' = DecrementId(ReverseId)
      /\ candidates' = IF b \in linked \ Failed
                       THEN Prune(candidates \cup {b}, [Order EXCEPT !.seq = seqId'], tip)
                       ELSE candidates \ {b}
      /\ UNCHANGED <<failedValid, failedChild, linked, bare, tip>>
  BY Zenon DEF PreciousBlock, flags, links
<1>2. Quiet /\ GoalInv' /\ RestInv'
  BY <1>1, CallsAtRest, Zenon
<1>3. /\ candidates = {tip} /\ IsBest(tip) /\ Clean(tip) /\ ~Tainted(tip)
      /\ tip \in Block /\ tip \in linked /\ linked \subseteq Block
  BY <1>2, Zenon DEF BestInv, RestInv, TipInv, Sound, BaseInv, TypeOK
<1>4. [Order EXCEPT !.seq = seqId'] = Order' /\ Order'.seq \in [Block -> Int]
  BY <1>1 DEF Order, TypeOK
<1>5. ~Worse(Order', tip, tip)
  BY <1>3, <1>4, WorseTotal, Zenon
<1>6. \A x \in linked : Clean(x)' <=> Clean(x)
  BY <1>1, Zenon DEF Clean, Failed
<1>7. candidates' = IF b \in linked \ Failed
                    THEN {c \in candidates \cup {b} : ~Worse(Order', c, tip)} ELSE candidates \ {b}
  BY <1>1, <1>4, Zenon DEF Prune
<1>8. tip \in linked \ Failed
  BY <1>3, PathProperties DEF Clean
<1>9. tip \in candidates' /\ \A c \in candidates' : ~Worse(Order', c, tip)
  BY <1>3, <1>5, <1>7, <1>8
<1>10. TipInv'
  BY <1>1, <1>3, <1>9, Zenon DEF TipInv, Clean, Failed
<1>11. LeftInv'
  <2>1. ASSUME NEW x \in linked, Clean(x), ~Worse(Order', x, tip)
        PROVE  x \in candidates'
    <3>1. x \in linked \ Failed
      BY <1>3, <2>1, PathProperties DEF Clean
    <3>2. x = tip \/ x = b
      BY <1>1, <1>2, <2>1, PreciousTip, Zenon
    <3> QED  BY <1>7, <1>9, <2>1, <3>1, <3>2
  <2>2. PICK n \in Block : n = tip
    BY <1>3
  <2>3. Clean(n)' /\ ~Tainted(n)
    BY <1>3, <1>6, <2>2
  <2>4. Covers(n)'
    BY <1>1, <1>6, <1>9, <2>1, <2>2, <2>3, Zenon DEF Covers, Tainted
  <2> QED  BY <2>4 DEF LeftInv
<1>12. PreciousInv'
  <2>1. Work[tip] \in Nat /\ ReverseId \in Int /\ MinSequenceId \in Int /\ ReverseId >= MinSequenceId
    BY <1>2, <1>3, PreciousBefore, OrderAssumption, ChainAssumption
  <2>2. \E x \in linked' : ~Tainted(x)' /\ lastPrecious' <= Work[x]
    BY <1>1, <1>3, <2>1 DEF Tainted
  <2>3. /\ reverseSeq' < ReverseId \/ (ReverseId = MinSequenceId /\ reverseSeq' = MinSequenceId)
        /\ reverseSeq' \in Int
    BY <1>1, <2>1 DEF DecrementId
  <2>4. ASSUME NEW x \in linked, Clean(x), seqId'[x] < 0
        PROVE  /\ Work[x] <= Work[tip]
               /\ Work[x] = Work[tip] => seqId'[x] > reverseSeq' \/ reverseSeq' = MinSequenceId
    <3>1. Work[x] <= Work[tip]
      BY <1>2, <2>4, PreciousBefore, Zenon
    <3>2. CASE x = b
      <4>1. seqId'[x] = ReverseId
        BY <1>1, <3>2, Zenon DEF TypeOK
      <4> QED  BY <2>1, <2>3, <3>1, <4>1, Zenon
    <3>3. CASE x # b
      <4>1. seqId'[x] = seqId[x] /\ seqId[x] \in Int
        BY <1>1, <1>3, <3>3, Zenon DEF TypeOK
      <4>2. Work[x] = Work[tip] => seqId[x] > ReverseId \/ ReverseId = MinSequenceId
        BY <1>2, <2>4, <4>1, PreciousBefore, Zenon
      <4>3. ReverseId = MinSequenceId => reverseSeq' = MinSequenceId
        BY <1>1, <2>1 DEF DecrementId
      <4> QED  BY <2>1, <2>3, <3>1, <4>1, <4>2, <4>3
    <3> QED  BY <3>2, <3>3, Zenon
  <2> QED  BY <1>1, <1>6, <2>2, <2>4 DEF PreciousInv
<1> QED  BY <1>2, <1>10, <1>11, <1>12, Zenon DEF BestInv

LEMMA BestInit ==
    ASSUME Ordered, Init
    PROVE  BestInv
<1>1. TypeOK /\ Genesis \in Block /\ Path(Genesis) = {Genesis}
  BY TypeInit, PathGenesis, Zenon
<1>2. /\ linked = {Genesis} /\ candidates = {Genesis} /\ tip = Genesis /\ Failed = {}
      /\ lastPrecious = 0 /\ seqId[Genesis] = 1 /\ goal = [t \in Threads |-> NoBlock]
  BY <1>1, Zenon DEF Init, Failed
<1>3. ~Worse(Order, Genesis, Genesis)
  BY <1>1, OrderFacts, Zenon
<1>4. \A x : Clean(x)
  BY <1>2, Zenon DEF Clean
<1>5. ~Tainted(Genesis)
  BY <1>1, ChainAssumption, Zenon DEF Tainted, Unsound
<1>6. TipInv /\ GoalInv /\ RestInv
  BY <1>2, <1>3, <1>4 DEF TipInv, GoalInv, RestInv, IsBest
<1>7. LeftInv
  BY <1>1, <1>2, <1>4, <1>5, Zenon DEF LeftInv, Covers
<1>8. PreciousInv
  <2>1. Work[Genesis] \in Nat
    BY <1>1, OrderAssumption, Zenon
  <2> QED  BY <1>2, <1>5, <2>1 DEF PreciousInv
<1> QED  BY <1>6, <1>7, <1>8, Zenon DEF BestInv

\* The tip moves to a block that sorts better, unless a block fails or the node starts again.
Improves ==
    tip' # tip /\ failedValid' = failedValid /\ count'.restart = count.restart => Worse(Order, tip, tip')

LEMMA BestNext ==
    ASSUME TypeOK, TypeOK', Ordered, WorkGrows, Sound, Sound', LinkBase, BaseInv, BaseInv', BestInv,
           Ordinary, Ordinary', [Next]_vars
    PROVE  BestInv' /\ Improves
<1>1. /\ Serial /\ Serial' /\ count'.reconsider = 0
      /\ count'.precious # 0 \/ count'.restart # 0 => count'.invalidate = 0
  BY Zenon DEF Ordinary
<1>2. ~Tainted(tip')
  BY Zenon DEF Sound, Tainted
<1>3. ASSUME UNCHANGED <<linked, candidates, order, tip, threads>>, UNCHANGED flags,
             count'.invalidate = count.invalidate
      PROVE  BestInv' /\ Improves
  <2>1. \A b \in linked : Clean(b)' <=> Clean(b)
    BY <1>3, Zenon DEF Clean, Failed, flags
  <2> QED  BY <1>3, <2>1, BestSame, Zenon DEF BestInv, Improves
<1>4. CASE UNCHANGED vars
  BY <1>3, <1>4, Zenon DEF vars, links
<1>5. ASSUME NEW b \in Block, AcceptBlockHeader(b) PROVE BestInv' /\ Improves
  BY <1>3, <1>5, Zenon DEF AcceptBlockHeader
<1>6. ASSUME NEW t \in Threads, NEW b \in Block, NEW requested, ProcessNewBlock(t, b, requested)
      PROVE  BestInv' /\ Improves
  <2>1. tip' = tip
    BY <1>6, Zenon DEF ProcessNewBlock
  <2> QED  BY <1>1, <1>6, <2>1, BestProcess, Zenon DEF Improves
<1>7. ASSUME NEW t \in Threads, FindAndStep(t) PROVE BestInv' /\ Improves
  <2>1. PICK most \in candidates :
            IsMostWork(most) /\ Step(t, most, Erase(BetterThan(most)), Mark(BetterThan(most)))
    BY <1>7, Zenon DEF FindAndStep
  <2>2. pc[t] = "loop" /\ most \in Block
    BY <1>7, Zenon DEF FindAndStep, TypeOK
  <2>3. Mark(BetterThan(most)) \in SUBSET Block
    BY MarkType, Zenon DEF BetterThan
  <2>4. Heading(most, Erase(BetterThan(most)), Mark(BetterThan(most)))
    BY <2>1, HeadingFound, Zenon
  <2> QED  BY <1>1, <1>2, <2>1, <2>2, <2>3, <2>4, BestStep, Zenon DEF Improves
<1>8. ASSUME NEW t \in Threads, StepAgain(t) PROVE BestInv' /\ Improves
  <2>1. pc[t] = "loop" /\ goal[t] # NoBlock /\ Step(t, goal[t], candidates, failedChild)
    BY <1>8, Zenon DEF StepAgain
  <2>2. goal[t] \in Block /\ Heading(goal[t], candidates, failedChild)
    BY <2>1, HeadingKept, Zenon
  <2>3. failedChild \in SUBSET Block
    BY Zenon DEF TypeOK
  <2> QED  BY <1>1, <1>2, <2>1, <2>2, <2>3, BestStep, Zenon DEF Improves
<1>9. ASSUME NEW t \in Threads, NothingToDo(t) PROVE BestInv' /\ Improves
  <2>1. tip' = tip
    BY <1>9, Zenon DEF NothingToDo
  <2> QED  BY <1>1, <1>9, <2>1, BestNothing, Zenon DEF Improves
<1>10. ASSUME NEW t \in Threads, NEW b \in Block, InvalidateBlock(t, b) PROVE BestInv' /\ Improves
  BY <1>1, <1>10, BestInvalidate, Zenon DEF Improves
<1>11. ASSUME NEW t \in Threads, NEW b \in Block, ResetBlockFailureFlags(t, b) PROVE FALSE
  BY <1>1, <1>11, CountedRPC, Zenon DEF ResetBlockFailureFlags, Bounded
<1>12. ASSUME NEW t \in Threads, NEW b \in Block, PreciousBlock(t, b) PROVE BestInv' /\ Improves
  <2>1. tip' = tip /\ count' = [count EXCEPT !["precious"] = @ + 1]
    BY <1>12, Zenon DEF PreciousBlock, Bounded
  <2>2. count.invalidate = 0
    BY <1>1, <2>1, CountedRPC, CountMore, Zenon
  <2> QED  BY <1>1, <1>12, <2>1, <2>2, BestPrecious, Zenon DEF Improves
<1>13. ASSUME FlushStateToDisk PROVE BestInv' /\ Improves
  <2>1. count'.invalidate = count.invalidate
    BY <1>13, TypeFlush, Zenon
  <2> QED  BY <1>3, <1>13, <2>1, Zenon DEF FlushStateToDisk, links
<1>14. ASSUME NEW t \in Threads, Restart(t) PROVE BestInv' /\ Improves
  <2>1. count' = [count EXCEPT !["restart"] = @ + 1]
    BY <1>14, Zenon DEF Restart, Bounded
  <2>2. count'.invalidate = 0 /\ ~(count'.restart = count.restart)
    BY <1>1, <2>1, CountMore, Zenon
  <2> QED  BY <1>14, <2>2, BestRestart, Zenon DEF Improves
<1> QED
  BY <1>4, <1>5, <1>6, <1>7, <1>8, <1>9, <1>10, <1>11, <1>12, <1>13, <1>14, Zenon DEF Next

\* What a call of preciousblock meets: the tip is the only other candidate.
LEMMA PreciousBeats ==
    ASSUME TypeOK, TypeOK', Ordered, Sound, BaseInv, BestInv, ~GPoWEnabled, Serial', count.invalidate = 0,
           NEW t \in Threads, NEW b \in linked \ Failed, PreciousBlock(t, b), seqId'[b] > MinSequenceId,
           NEW x \in candidates' \ {b}, Work[x] = Work[b]
    PROVE  Worse(Order', x, b)
<1>1. /\ pc[t] = "idle" /\ CallActivateBestChain(t) /\ Work[b] >= Work[tip]
      /\ seqId' = [seqId EXCEPT ![b] = ReverseId]
      /\ candidates' \subseteq candidates \cup {b}
  BY Zenon DEF PreciousBlock, Prune
<1>2. Quiet
  BY <1>1, CallsAtRest, Zenon
<1>3. x = tip /\ Clean(tip) /\ tip \in linked /\ tip \in Block /\ b \in Block
  BY <1>1, <1>2, Zenon DEF BestInv, RestInv, TipInv, BaseInv, TypeOK
<1>4. seqId'[b] = ReverseId /\ seqId'[x] = seqId[x] /\ seqId[x] \in Int /\ MinSequenceId \in Int
  <2>1. seqId \in [Block -> Int] /\ MinSequenceId \in Int
    BY ChainAssumption, Zenon DEF TypeOK
  <2> QED  BY <1>1, <1>3, <2>1, Zenon
<1>5. ReverseId \in Int /\ ReverseId < 0 /\ (seqId[x] < 0 => seqId[x] > ReverseId \/ ReverseId = MinSequenceId)
  BY <1>2, <1>3, PreciousBefore, Zenon
<1>6. seqId'[x] > seqId'[b]
  <2>1. ReverseId # MinSequenceId
    BY <1>4
  <2>2. seqId[x] < 0 => seqId[x] > ReverseId
    BY <1>5, <2>1, Zenon
  <2> QED  BY <1>4, <1>5, <2>2
<1>7. Order'.seq = seqId'
  BY Zenon DEF Order
<1> QED  BY <1>6, <1>7, Zenon DEF Worse, ReceivedLater

\* CheckBlockIndex, on setBlockIndexCandidates, and the promise of ActivateBestChain.
LEMMA BestImplies ==
    ASSUME TypeOK, Ordered, Sound, BestInv
    PROVE  /\ TipIsBest /\ CandidatesLeft
           /\ FailedHaveCause => CandidatesExact
<1>1. TipIsBest
  BY Zenon DEF TipIsBest, BestInv, RestInv, IsBest, Clean
<1>2. CandidatesLeft
  BY Zenon DEF CandidatesLeft, BestInv, LeftInv, Covers
<1>3. ASSUME FailedHaveCause, Quiet, NEW b \in known
      PROVE  /\ b \in candidates => b \in linked /\ ~Worse(Order, b, tip)
             /\ b \in linked /\ ~Worse(Order, b, tip) /\ Path(b) \cap failedValid = {} => b \in candidates
  <2>1. b \in Block /\ tip \in Block
    BY Zenon DEF TypeOK
  <2>2. b \in candidates => b \in linked /\ ~Worse(Order, b, tip)
    BY Zenon DEF Sound, BestInv, TipInv
  <2>3. ASSUME b \in linked, ~Worse(Order, b, tip), Path(b) \cap failedValid = {}
        PROVE  b \in candidates
    <3>1. Clean(b)
      <4> SUFFICES ASSUME NEW x \in Path(b), x \in Failed
                   PROVE  FALSE
        BY Zenon DEF Clean
      <4>1. Path(x) \cap failedValid # {} /\ Path(x) \subseteq Path(b)
        BY <1>3, <2>1, PathTransitive, Zenon DEF FailedHaveCause
      <4> QED  BY <2>3, <4>1, Zenon
    <3>2. ~Worse(Order, tip, b) /\ candidates = {tip}
      BY <1>3, <2>3, <3>1, Zenon DEF BestInv, RestInv, IsBest
    <3> QED  BY <2>1, <2>3, <3>2, OrderFacts, Zenon
  <2> QED  BY <2>2, <2>3, Zenon
<1> QED  BY <1>1, <1>2, <1>3, Zenon DEF CandidatesExact

-----------------------------------------------------------------------------
(* Work grows along a chain, since heights are well-founded.               *)

INSTANCE WellFoundedInduction

\* Induction over a chain: a set of blocks has a member none of whose ancestors is in it.
LEMMA LowestBlock ==
    ASSUME NEW S \in SUBSET Block, S # {}
    PROVE  \E b \in S : \A x \in Path(b) : x \in S => x = b
<1> DEFINE T == {Height(b) : b \in S}
           R == OpToRel(<, Nat)
<1>1. T \subseteq Nat /\ T # {}
  BY PathProperties, Zenon
<1>2. PICK n \in T : \A m \in T : ~(<<m, n>> \in R)
  <2>1. IsWellFoundedOn(R, Nat)
    BY NatLessThanWellFounded, Zenon
  <2> HIDE DEF T, R
  <2> QED  BY <1>1, <2>1, WFMin, Zenon
<1>3. ASSUME NEW m \in T
      PROVE  n <= m
  <2>1. m \in Nat /\ n \in Nat
    BY <1>1, Zenon
  <2>2. m < n => <<m, n>> \in R
    BY <2>1, Zenon DEF OpToRel
  <2> HIDE DEF T, R
  <2> QED  BY <1>2, <2>1, <2>2
<1>4. PICK b \in S : n = Height(b)
  OBVIOUS
<1>5. ASSUME NEW x \in Path(b), x \in S
      PROVE  x = b
  <2>1. Height(b) <= Height(x)
    BY <1>3, <1>4, <1>5, Zenon
  <2>2. Height(x) <= Height(b) /\ Height(x) \in Nat /\ Height(b) \in Nat /\ b \in Path(b)
    BY <1>5, PathProperties
  <2> QED  BY <1>5, <2>1, <2>2, PathHeight
<1> QED  BY <1>5, Zenon

\* nChainWork grows along a chain.
LEMMA WorkAbove == WorkGrows
<1> DEFINE S == {c \in Block : \E y \in Path(c) : y # c /\ ~(Work[y] < Work[c])}
<1> SUFFICES ASSUME S # {}
             PROVE  FALSE
  BY Zenon DEF WorkGrows
<1>1. PICK c \in S : \A y \in Path(c) : y \in S => y = c
  BY LowestBlock, Zenon
<1>2. PICK y \in Path(c) : y # c /\ ~(Work[y] < Work[c])
  OBVIOUS
<1>3. c # Genesis
  BY <1>2, PathGenesis, Zenon
<1>4. /\ Pprev(c) \in Block /\ Pprev(c) \in Path(c) /\ Pprev(c) # c /\ y \in Path(Pprev(c))
      /\ y \in Block
  BY <1>2, <1>3, PathPprev, PathProperties
<1>5. Work[Pprev(c)] < Work[c] /\ Work[Pprev(c)] \in Nat /\ Work[c] \in Nat /\ Work[y] \in Nat
  BY <1>3, <1>4, OrderAssumption, Zenon
<1>6. Pprev(c) \notin S
  BY <1>1, <1>4, Zenon
<1>7. y = Pprev(c) \/ Work[y] < Work[Pprev(c)]
  BY <1>4, <1>6, Zenon
<1> QED  BY <1>2, <1>5, <1>7

-----------------------------------------------------------------------------
(* The theorems on the best chain.                                         *)

\* BestInv is an invariant of ActivateBestChain under ordinary use, with a comparator that is an
\* order.
THEOREM BestInvariant ==
    ASSUME Ordered
    PROVE  Spec /\ []Ordinary => []BestInv
<1>1. Init => BestInv
  BY BestInit, Zenon
<1>2. /\ TypeOK /\ Sound /\ LinkBase /\ BaseInv /\ BestInv /\ Ordinary /\ [Next]_vars
      /\ TypeOK' /\ Sound' /\ BaseInv' /\ Ordinary'
      => BestInv'
  BY BestNext, WorkAbove, Zenon
<1> QED  BY <1>1, <1>2, BaseInvariant, PTL DEF Spec

\* ActivateBestChain: whenever no thread is in it, no linked chain without a failed block sorts
\* better than the active one.
THEOREM BestChainIsActive ==
    ASSUME Ordered
    PROVE  Spec /\ []Ordinary => []TipIsBest
<1>1. TypeOK /\ Sound /\ BestInv => TipIsBest
  BY BestImplies, Zenon
<1> QED  BY <1>1, BaseInvariant, BestInvariant, PTL

\* CheckBlockIndex: whenever no thread is in ActivateBestChain, setBlockIndexCandidates holds
\* exactly the linked blocks that are as good as the tip and have no invalid ancestor.
THEOREM CandidatesAreExact ==
    ASSUME Ordered
    PROVE  Spec /\ []Ordinary => []CandidatesExact
<1>1. TypeOK /\ Sound /\ BestInv /\ Ordinary /\ (count.reconsider = 0 => FailedHaveCause) => CandidatesExact
  BY BestImplies, Zenon DEF Ordinary
<1> QED  BY <1>1, BaseInvariant, BestInvariant, FailuresHaveACause, PTL

\* PruneBlockIndexCandidates: setBlockIndexCandidates is never empty, whatever threads are in
\* ActivateBestChain at the same time, also where a thread works towards a chain that is no
\* longer the best.
THEOREM CandidatesAreLeft ==
    ASSUME Ordered
    PROVE  Spec /\ ([]Plain \/ []Ordinary) => []CandidatesLeft
<1>1. TypeOK /\ Sound /\ BestInv => CandidatesLeft
  BY BestImplies, Zenon
<1>2. StayInv => CandidatesLeft
  BY Zenon DEF StayInv, Stays, CandidatesLeft
<1> QED  BY <1>1, <1>2, BaseInvariant, BestInvariant, StayInvariant, PTL

\* ActivateBestChainStep: the tip moves only to a block that sorts better, unless a block turns
\* out to be invalid, is invalidated, or the node starts again.
THEOREM TipOnlyImproves ==
    ASSUME Ordered
    PROVE  Spec /\ []Ordinary => TipImproves
<1>1. /\ TypeOK /\ Sound /\ LinkBase /\ BaseInv /\ BestInv /\ Ordinary /\ [Next]_vars
      /\ TypeOK' /\ Sound' /\ BaseInv' /\ Ordinary'
      => [tip' # tip /\ failedValid' = failedValid /\ count'.restart = count.restart
            => Worse(Order, tip, tip')]_vars
  BY BestNext, WorkAbove, Zenon DEF Improves
<1> QED  BY <1>1, BaseInvariant, BestInvariant, PTL DEF Spec, TipImproves

\* The RPC preciousblock: while blocks are ordered by the time they were received and none was
\* invalidated, a block made precious sorts before every candidate of the same work.
THEOREM PreciousBlockWins ==
    ASSUME ~GPoWEnabled
    PROVE  Spec /\ []Ordinary /\ [](count.invalidate = 0) => PreciousWins
<1>1. Ordered
  BY Zenon DEF Ordered
<1>2. /\ TypeOK /\ Sound /\ BaseInv /\ BestInv /\ count.invalidate = 0 /\ TypeOK' /\ Ordinary'
      => [\A t \in Threads, b \in linked \ Failed :
            PreciousBlock(t, b) /\ seqId'[b] > MinSequenceId
              => \A x \in candidates' \ {b} : Work[x] = Work[b] => Worse(Order', x, b)]_vars
  BY <1>1, PreciousBeats, Zenon DEF Ordinary
<1>3. Spec /\ []Ordinary => []BestInv
  BY <1>1, BestInvariant, Zenon
<1> QED  BY <1>2, <1>3, BaseInvariant, PTL DEF PreciousWins
=============================================================================
