-------------------------- MODULE CheckQueueProofs --------------------------
(***************************************************************************)
(* Proofs that CCheckQueue loses no check and that the verdict of Wait is  *)
(* exact, for every number of workers and masters, every batch size and    *)
(* every sequence of checks.                                               *)
(***************************************************************************)
EXTENDS CheckQueue, FiniteSetTheorems, TLAPS

Pcs == {"away", "adding", "enter", "wait", "woken", "work", "again", "done", "gone"}

\* The threads that nIdle and nTotal count at least (shutdown leaves some counted that are gone).
Idlers == {t \in Threads : pc[t] \in {"wait", "woken"}}
Inside == {t \in Threads : pc[t] \in {"wait", "woken", "work", "again"}}

\* What thread t will report of the batch it has taken.
Verdict(t) == fOk[t] /\ (pc[t] = "work" => Good(vChecks[t]))

QueueTypes ==
    /\ queue \in Seq(BOOLEAN) /\ added \in Seq(BOOLEAN)
    /\ nIdle \in Nat /\ nTotal \in Nat /\ nTodo \in Nat /\ fAllOk \in BOOLEAN
    /\ pc \in [Threads -> Pcs]
    /\ vChecks \in [Threads -> Seq(BOOLEAN)] /\ nNow \in [Threads -> Nat] /\ fOk \in [Threads -> BOOLEAN]
    /\ control \in Masters \cup {"none"}

\* Nobody has checks to do, and no failure of earlier ones is remembered.
Settled == queue = <<>> /\ Busy = {} /\ fAllOk

\* The inductive invariant.  Until Wait returns, a failure of any check added under the control
\* is still to be found in exactly one of three places: fAllOk, the queue, or a thread's batch.
QueueInv ==
    /\ QueueTypes
    /\ IsFiniteSet(Taken) /\ TodoIsExact
    /\ \A t \in Busy : nNow[t] # 0
    /\ nIdle >= Cardinality(Idlers) /\ nTotal >= Cardinality(Inside)
    /\ \A t \in Masters : pc[t] # "away" => control = t
    /\ \A t \in Workers : pc[t] \notin {"away", "adding", "done"}
    /\ control = "none" => Settled
    /\ \A m \in Masters : control = m =>
        IF pc[m] = "done"
        THEN Settled /\ result = <<Good(added)>>
        ELSE Good(added) <=> fAllOk /\ Good(queue) /\ \A t \in Busy : Verdict(t)
-----------------------------------------------------------------------------
(***************************************************************************)
(* Verdicts of sequences of checks                                         *)
(***************************************************************************)
\* Good, with the verdicts compared.
LEMMA GoodMeans ==
    ASSUME NEW s \in Seq(BOOLEAN)
    PROVE  Good(s) <=> \A k \in 1..Len(s) : s[k] = TRUE
<1>1. DOMAIN s = 1..Len(s)
  OBVIOUS
<1>2. \A k \in 1..Len(s) : s[k] \in BOOLEAN
  OBVIOUS
<1>. QED  BY <1>1, <1>2, Zenon DEF Good

\* Checks that are added behind others: all are good if both parts are.
LEMMA GoodConcat ==
    ASSUME NEW s \in Seq(BOOLEAN), NEW r \in Seq(BOOLEAN)
    PROVE  /\ s \o r \in Seq(BOOLEAN)
           /\ Good(s \o r) <=> Good(s) /\ Good(r)
<1>1. s \o r \in Seq(BOOLEAN)
  OBVIOUS
<1>2. (\A k \in 1..Len(s \o r) : (s \o r)[k] = TRUE)
        <=> (\A k \in 1..Len(s) : s[k] = TRUE) /\ (\A k \in 1..Len(r) : r[k] = TRUE)
  <2>1. ASSUME \A k \in 1..Len(s \o r) : (s \o r)[k] = TRUE
        PROVE  (\A k \in 1..Len(s) : s[k] = TRUE) /\ (\A k \in 1..Len(r) : r[k] = TRUE)
    <3>1. ASSUME NEW k \in 1..Len(s)  PROVE  s[k] = TRUE
      BY <2>1
    <3>2. ASSUME NEW k \in 1..Len(r)  PROVE  r[k] = TRUE
      <4>1. k + Len(s) \in 1..Len(s \o r) /\ (s \o r)[k + Len(s)] = r[k]
        OBVIOUS
      <4>. QED  BY <4>1, <2>1, Zenon
    <3>. QED  BY <3>1, <3>2, Zenon
  <2>2. ASSUME (\A k \in 1..Len(s) : s[k] = TRUE) /\ (\A k \in 1..Len(r) : r[k] = TRUE), NEW k \in 1..Len(s \o r)
        PROVE  (s \o r)[k] = TRUE
    <3>1. CASE k <= Len(s)
      BY <2>2, <3>1
    <3>2. CASE k > Len(s)
      <4>1. k - Len(s) \in 1..Len(r) /\ (s \o r)[k] = r[k - Len(s)]
        BY <3>2
      <4>. QED  BY <4>1, <2>2
    <3>3. k <= Len(s) \/ k > Len(s)
      OBVIOUS
    <3>. QED  BY <3>1, <3>2, <3>3, Zenon
  <2>. QED  BY <2>1, <2>2, Zenon
<1>. QED  BY <1>1, <1>2, GoodMeans, Zenon

\* A batch is cut off the end of the queue: all checks are good if the rest and the batch are.
LEMMA GoodSplit ==
    ASSUME NEW s \in Seq(BOOLEAN), NEW n \in 1..Len(s)
    PROVE  LET rest == SubSeq(s, 1, Len(s) - n)
               batch == SubSeq(s, Len(s) - n + 1, Len(s))
           IN  /\ rest \in Seq(BOOLEAN) /\ batch \in Seq(BOOLEAN)
               /\ Len(rest) = Len(s) - n
               /\ Good(s) <=> Good(rest) /\ Good(batch)
<1>. DEFINE rest == SubSeq(s, 1, Len(s) - n)
            batch == SubSeq(s, Len(s) - n + 1, Len(s))
<1>1. rest \in Seq(BOOLEAN) /\ Len(rest) = Len(s) - n /\ \A k \in 1..Len(rest) : rest[k] = s[k]
  OBVIOUS
<1>2. batch \in Seq(BOOLEAN) /\ Len(batch) = n /\ \A k \in 1..n : batch[k] = s[Len(s) - n + k]
  OBVIOUS
<1>. HIDE DEF rest, batch
<1>3. (\A k \in 1..Len(s) : s[k] = TRUE)
        <=> (\A k \in 1..Len(rest) : rest[k] = TRUE) /\ (\A k \in 1..Len(batch) : batch[k] = TRUE)
  <2>1. ASSUME \A k \in 1..Len(s) : s[k] = TRUE
        PROVE  (\A k \in 1..Len(rest) : rest[k] = TRUE) /\ (\A k \in 1..Len(batch) : batch[k] = TRUE)
    <3>1. ASSUME NEW k \in 1..Len(rest)  PROVE  rest[k] = TRUE
      BY <1>1, <2>1
    <3>2. ASSUME NEW k \in 1..Len(batch)  PROVE  batch[k] = TRUE
      <4>1. Len(s) - n + k \in 1..Len(s) /\ k \in 1..n
        BY <1>2
      <4>. QED  BY <4>1, <1>2, <2>1, Zenon
    <3>. QED  BY <3>1, <3>2, Zenon
  <2>2. ASSUME (\A k \in 1..Len(rest) : rest[k] = TRUE) /\ (\A k \in 1..Len(batch) : batch[k] = TRUE),
               NEW k \in 1..Len(s)
        PROVE  s[k] = TRUE
    <3>1. CASE k <= Len(s) - n
      BY <1>1, <2>2, <3>1
    <3>2. CASE k > Len(s) - n
      <4>1. k - (Len(s) - n) \in 1..n /\ Len(s) - n + (k - (Len(s) - n)) = k
        BY <3>2
      <4>. QED  BY <4>1, <1>2, <2>2, Zenon
    <3>3. k <= Len(s) - n \/ k > Len(s) - n
      OBVIOUS
    <3>. QED  BY <3>1, <3>2, <3>3, Zenon
  <2>. QED  BY <2>1, <2>2, Zenon
<1>. QED  BY <1>1, <1>2, <1>3, GoodMeans, Zenon DEF rest, batch

\* nNow = max(1, min(nBatchSize, ...)) is at least 1 and never more than what is queued.
LEMMA BatchFits ==
    ASSUME NEW queued \in Nat \ {0}, NEW total \in Nat, NEW idle \in Nat
    PROVE  BatchSize(queued, total, idle) \in 1..queued
<1>. DEFINE q == queued \div (total + idle + 1)
            low == Min({nBatchSize, q})
<1>1. q \in Nat /\ q <= queued
  <2>1. total + idle + 1 \in Nat \ {0}
    OBVIOUS
  <2>2. \A d \in Nat \ {0} : queued \div d \in Nat /\ queued \div d <= queued
    OBVIOUS
  <2>. QED  BY <2>1, <2>2
<1>2. nBatchSize \in Nat \ {0}
  BY QueueAssumption
<1>. HIDE DEF q
<1>3. low \in {nBatchSize, q} /\ low <= q
  BY <1>1, <1>2 DEF Min
<1>. HIDE DEF low
<1>4. Max({1, low}) \in {1, low} /\ Max({1, low}) >= 1
  BY <1>1, <1>2, <1>3 DEF Max
<1>. QED  BY <1>1, <1>2, <1>3, <1>4 DEF BatchSize, q, low
-----------------------------------------------------------------------------
-----------------------------------------------------------------------------
(***************************************************************************)
(* The checks that threads have taken                                      *)
(***************************************************************************)
\* The checks in the batches of the threads of S, if f gives the sizes of the batches.
Held(S, f) == UNION {{t} \X (1..f[t]) : t \in S}

\* One batch of n checks.
LEMMA OneBatch ==
    ASSUME NEW t, NEW n \in Nat
    PROVE  IsFiniteSet({t} \X (1..n)) /\ Cardinality({t} \X (1..n)) = n
<1>1. IsFiniteSet(1..n) /\ Cardinality(1..n) = n
  BY FS_Interval
<1>2. IsFiniteSet({t}) /\ Cardinality({t}) = 1
  BY FS_Singleton
<1>3. IsFiniteSet({t} \X (1..n)) /\ Cardinality({t} \X (1..n)) = Cardinality({t}) * Cardinality(1..n)
  BY <1>1, <1>2, FS_Product
<1>. QED  BY <1>1, <1>2, <1>3

\* A batch more in the hands of the threads, after the taking of nNow checks.
LEMMA HeldByOneMore ==
    ASSUME NEW S, NEW f, NEW t, t \notin S, NEW n \in Nat, f[t] = n, IsFiniteSet(Held(S, f))
    PROVE  /\ IsFiniteSet(Held(S \cup {t}, f))
           /\ Cardinality(Held(S \cup {t}, f)) = Cardinality(Held(S, f)) + n
<1>. DEFINE own == {t} \X (1..n)
<1>1. IsFiniteSet(own) /\ Cardinality(own) = n
  BY OneBatch, Zenon
<1>2. Held(S \cup {t}, f) = Held(S, f) \cup own
  BY DEF Held
<1>3. Held(S, f) \cap own = {}
  BY DEF Held
<1>. HIDE DEF own
<1>4. /\ IsFiniteSet(Held(S, f) \cup own)
      /\ Cardinality(Held(S, f) \cup own) = Cardinality(Held(S, f)) + Cardinality(own) - Cardinality(Held(S, f) \cap own)
  BY <1>1, FS_Union, Zenon
<1>5. Cardinality(Held(S, f) \cap own) = 0 /\ Cardinality(Held(S, f)) \in Nat
  BY <1>3, FS_EmptySet, FS_CardinalityType, Zenon
<1>6. Cardinality(Held(S, f) \cup own) = Cardinality(Held(S, f)) + n
  BY <1>1, <1>4, <1>5
<1>. QED  BY <1>2, <1>4, <1>6, Zenon

\* The same for all batches but one.
LEMMA HeldByOthers ==
    ASSUME NEW S, NEW f, NEW t \in S, NEW n \in Nat, f[t] = n, IsFiniteSet(Held(S, f))
    PROVE  /\ IsFiniteSet(Held(S \ {t}, f))
           /\ Cardinality(Held(S, f)) = Cardinality(Held(S \ {t}, f)) + n
<1>1. Held(S \ {t}, f) \in SUBSET Held(S, f)
  BY DEF Held
<1>2. IsFiniteSet(Held(S \ {t}, f))
  BY <1>1, FS_Subset, Zenon
<1>3. (S \ {t}) \cup {t} = S /\ t \notin S \ {t}
  OBVIOUS
<1>. QED  BY <1>2, <1>3, HeldByOneMore

\* If no check is held then no thread holds a batch, since no batch is empty.
LEMMA NothingHeld ==
    ASSUME NEW S, NEW f, \A t \in S : f[t] \in Nat \ {0}, IsFiniteSet(Held(S, f)), Cardinality(Held(S, f)) = 0
    PROVE  S = {}
<1>1. Held(S, f) = {}
  BY FS_EmptySet
<1>2. ASSUME NEW t \in S  PROVE  FALSE
  <2>1. 1 \in 1..f[t]
    OBVIOUS
  <2>2. <<t, 1>> \in Held(S, f)
    BY <2>1 DEF Held
  <2>. QED  BY <1>1, <2>2
<1>. QED  BY <1>2

\* Whoever is notified was waiting.
LEMMA NotifiedWait ==
    ASSUME NEW S \in SUBSET Threads
    PROVE  \A W \in NotifyOne(S) \cup NotifyAll(S) \cup NotifyNone : W \subseteq Waiting(Threads)
BY DEF NotifyOne, NotifyAll, NotifyNone, Waiting

\* A step of thread t that wakes others changes for the others only that.
LEMMA GotoFacts ==
    ASSUME pc \in [Threads -> Pcs], NEW t \in Threads, NEW to \in Pcs, NEW W \in SUBSET Waiting(Threads), Goto(t, to, W)
    PROVE  /\ pc' \in [Threads -> Pcs] /\ pc'[t] = to
           /\ \A u \in Threads \ {t} : pc'[u] = pc[u] \/ (pc[u] = "wait" /\ pc'[u] = "woken")
           /\ Busy' = IF to \in {"work", "again"} THEN (Busy \ {t}) \cup {t} ELSE Busy \ {t}
           /\ Idlers' = IF to \in {"wait", "woken"} THEN (Idlers \ {t}) \cup {t} ELSE Idlers \ {t}
           /\ Inside' = IF to \in {"wait", "woken", "work", "again"} THEN (Inside \ {t}) \cup {t} ELSE Inside \ {t}
<1>1. pc' \in [Threads -> Pcs] /\ pc'[t] = to
  BY DEF Goto, Pcs
<1>2. ASSUME NEW u \in Threads \ {t}
      PROVE  pc'[u] = pc[u] \/ (pc[u] = "wait" /\ pc'[u] = "woken")
  BY DEF Goto, Waiting
<1>3. Busy' = IF to \in {"work", "again"} THEN (Busy \ {t}) \cup {t} ELSE Busy \ {t}
  BY <1>1, <1>2 DEF Busy
<1>4. Idlers' = IF to \in {"wait", "woken"} THEN (Idlers \ {t}) \cup {t} ELSE Idlers \ {t}
  BY <1>1, <1>2 DEF Idlers
<1>5. Inside' = IF to \in {"wait", "woken", "work", "again"} THEN (Inside \ {t}) \cup {t} ELSE Inside \ {t}
  BY <1>1, <1>2 DEF Inside
<1>. QED  BY <1>1, <1>2, <1>3, <1>4, <1>5
-----------------------------------------------------------------------------
(***************************************************************************)
(* The critical section of Loop                                            *)
(***************************************************************************)
\* The invariant as it stands when thread t is past the cleanup of its last batch: t is counted
\* in total, not in idle, and holds no check.
Cleaned(t, total, idle, todo, ok) ==
    /\ QueueTypes
    /\ total \in Nat /\ idle \in Nat /\ todo \in Nat /\ ok \in BOOLEAN
    /\ IsFiniteSet(Held(Busy \ {t}, nNow))
    /\ todo = Len(queue) + Cardinality(Held(Busy \ {t}, nNow))
    /\ \A u \in Busy \ {t} : nNow[u] # 0
    /\ idle >= Cardinality(Idlers \ {t}) /\ total >= Cardinality(Inside \ {t}) + 1
    /\ \A u \in Masters : pc[u] # "away" => control = u
    /\ \A u \in Workers : pc[u] \notin {"away", "adding", "done"}
    /\ control = "none" => queue = <<>> /\ Busy \ {t} = {} /\ ok
    /\ \A m \in Masters : control = m =>
        IF pc[m] = "done"
        THEN queue = <<>> /\ Busy \ {t} = {} /\ ok /\ result = <<Good(added)>>
        ELSE Good(added) <=> ok /\ Good(queue) /\ \A u \in Busy \ {t} : Verdict(u)

\* The subsets of Threads that are counted are finite.
LEMMA CountedAreFinite ==
    ASSUME NEW S \in SUBSET Threads, NEW t \in Threads
    PROVE  /\ IsFiniteSet(S) /\ Cardinality(S) \in Nat /\ Cardinality(S \ {t}) \in Nat
           /\ Cardinality((S \ {t}) \cup {t}) = Cardinality(S \ {t}) + 1
           /\ t \in S => Cardinality(S) = Cardinality(S \ {t}) + 1
           /\ t \notin S => Cardinality(S) = Cardinality(S \ {t})
<1>1. IsFiniteSet(S)
  BY QueueAssumption, FS_Subset
<1>2. IsFiniteSet(S \ {t}) /\ Cardinality(S \ {t}) = IF t \in S THEN Cardinality(S) - 1 ELSE Cardinality(S)
  BY <1>1, FS_RemoveElement
<1>3. Cardinality((S \ {t}) \cup {t}) = Cardinality(S \ {t}) + 1
  BY <1>2, FS_AddElement
<1>4. Cardinality(S) \in Nat /\ Cardinality(S \ {t}) \in Nat
  BY <1>1, <1>2, FS_CardinalityType, Zenon
<1>. QED  BY <1>1, <1>2, <1>3, <1>4

\* The rest of the critical section, in its three outcomes, re-establishes the invariant.
LEMMA GoOnKeeps ==
    ASSUME NEW t \in Threads, NEW total, NEW idle, NEW todo, NEW ok,
           NEW W \in SUBSET Waiting(Threads),
           Cleaned(t, total, idle, todo, ok), pc[t] \notin {"away", "adding", "done"},
           GoOn(t, total, idle, todo, ok, W),
           nTodo' = todo, control' = control, added' = added
    PROVE  QueueInv'
<1>. USE DEF Cleaned
<1>1. /\ pc \in [Threads -> Pcs] /\ queue \in Seq(BOOLEAN) /\ nNow \in [Threads -> Nat]
      /\ fOk \in [Threads -> BOOLEAN] /\ vChecks \in [Threads -> Seq(BOOLEAN)]
  BY Zenon DEF QueueTypes
<1>2. Idlers \subseteq Threads /\ Inside \subseteq Threads /\ Busy \subseteq Threads /\ Masters \subseteq Threads
  BY DEF Idlers, Inside, Busy, Threads
<1>3. /\ Cardinality(Idlers \ {t}) \in Nat /\ Cardinality((Idlers \ {t}) \cup {t}) = Cardinality(Idlers \ {t}) + 1
      /\ Cardinality(Inside \ {t}) \in Nat /\ Cardinality((Inside \ {t}) \cup {t}) = Cardinality(Inside \ {t}) + 1
  BY <1>2, CountedAreFinite, Zenon
<1>4. \A f : (\A u \in Threads \ {t} : f[u] = nNow[u]) => Held(Busy \ {t}, f) = Held(Busy \ {t}, nNow)
  BY <1>2 DEF Held
<1>5. Taken' = Held(Busy', nNow')
  BY DEF Taken, Held
<1>6. t \in Masters => control = t
  OBVIOUS
<1>7. CASE /\ queue = <<>> /\ t \in Masters /\ todo = 0
           /\ nTotal' = total - 1 /\ nIdle' = idle
           /\ result' = <<ok>>
           /\ fAllOk' = TRUE
           /\ Goto(t, "done", W)
           /\ nNow' = [nNow EXCEPT ![t] = 0]
           /\ UNCHANGED <<queue, vChecks, fOk>>
  <2>1. /\ pc' \in [Threads -> Pcs] /\ pc'[t] = "done"
        /\ \A u \in Threads \ {t} : pc'[u] = pc[u] \/ (pc[u] = "wait" /\ pc'[u] = "woken")
        /\ Busy' = Busy \ {t} /\ Idlers' = Idlers \ {t} /\ Inside' = Inside \ {t}
    BY <1>1, <1>7, GotoFacts, Zenon DEF Pcs
  <2>2. Busy \ {t} = {}
    <3>1. Cardinality(Held(Busy \ {t}, nNow)) = 0
      <4>1. Cardinality(Held(Busy \ {t}, nNow)) \in Nat
        BY FS_CardinalityType
      <4>. QED  BY <4>1, <1>7
    <3>2. \A u \in Busy \ {t} : nNow[u] \in Nat \ {0}
      BY <1>1, <1>2, Zenon
    <3>. QED  BY <3>1, <3>2, NothingHeld, Zenon
  <2>3. Taken' = {}
    BY <1>5, <2>1, <2>2, Zenon DEF Held
  <2>4. IsFiniteSet(Taken') /\ Cardinality(Taken') = 0
    BY <2>3, FS_EmptySet, Zenon
  <2>5. QueueTypes'
    <3>1. nTotal' \in Nat /\ nIdle' \in Nat /\ nTodo' \in Nat
      BY <1>3, <1>7
    <3>2. nNow' \in [Threads -> Nat]
      BY <1>1, <1>7, Zenon
    <3>. QED  BY <1>7, <2>1, <3>1, <3>2, Zenon DEF QueueTypes
  <2>6. Good(added) <=> ok
    <3>1. Good(queue)
      BY <1>7 DEF Good
    <3>2. control = t /\ t \in Masters /\ pc[t] # "done"
      BY <1>6, <1>7
    <3>. QED  BY <2>2, <3>1, <3>2, Zenon
  <2>7. <<ok>> = <<Good(added)>>
    BY <2>6, Zenon DEF Good
  <2>8. nIdle' >= Cardinality(Idlers') /\ nTotal' >= Cardinality(Inside')
    BY <1>3, <1>7, <2>1
  <2>9. /\ \A u \in Masters : pc'[u] # "away" => control' = u
        /\ \A u \in Workers : pc'[u] \notin {"away", "adding", "done"}
    BY <1>7, <2>1, QueueAssumption, Zenon DEF Threads
  <2>10. TodoIsExact'
    BY <1>7, <2>4 DEF TodoIsExact
  <2>11. Settled' /\ control' = t /\ result' = <<Good(added')>>
    BY <1>6, <1>7, <2>1, <2>2, <2>7, Zenon DEF Settled
  <2>12. t # "none"
    BY QueueAssumption, Zenon
  <2>. QED  BY <2>1, <2>2, <2>4, <2>5, <2>8, <2>9, <2>10, <2>11, <2>12 DEF QueueInv
<1>8. CASE /\ queue = <<>> /\ ~(t \in Masters /\ todo = 0)
           /\ nIdle' = idle + 1 /\ nTotal' = total
           /\ fAllOk' = ok
           /\ Goto(t, "wait", W)
           /\ nNow' = [nNow EXCEPT ![t] = 0]
           /\ UNCHANGED <<queue, vChecks, fOk, result>>
  <2>1. /\ pc' \in [Threads -> Pcs] /\ pc'[t] = "wait"
        /\ \A u \in Threads \ {t} : pc'[u] = pc[u] \/ (pc[u] = "wait" /\ pc'[u] = "woken")
        /\ Busy' = Busy \ {t} /\ Idlers' = (Idlers \ {t}) \cup {t} /\ Inside' = (Inside \ {t}) \cup {t}
    BY <1>1, <1>8, GotoFacts, Zenon DEF Pcs
  <2>2. Taken' = Held(Busy \ {t}, nNow)
    BY <1>1, <1>4, <1>5, <1>8, <2>1, Zenon
  <2>3. QueueTypes'
    <3>1. nTotal' \in Nat /\ nIdle' \in Nat /\ nTodo' \in Nat
      BY <1>3, <1>8
    <3>2. nNow' \in [Threads -> Nat]
      BY <1>1, <1>8
    <3>. QED  BY <1>8, <2>1, <3>1, <3>2, Zenon DEF QueueTypes
  <2>4. nIdle' >= Cardinality(Idlers') /\ nTotal' >= Cardinality(Inside')
    BY <1>3, <1>8, <2>1
  <2>5. IsFiniteSet(Taken') /\ TodoIsExact'
    BY <1>8, <2>2, Zenon DEF TodoIsExact
  <2>6. \A u \in Busy' : nNow'[u] # 0
    BY <1>1, <1>2, <1>8, <2>1, Zenon
  <2>7. /\ \A u \in Masters : pc'[u] # "away" => control' = u
        /\ \A u \in Workers : pc'[u] \notin {"away", "adding", "done"}
    BY <1>2, <2>1, Zenon DEF Threads
  <2>8. control' = "none" => Settled'
    BY <1>8, <2>1, Zenon DEF Settled
  <2>9. \A u \in Busy \ {t} : Verdict(u) <=> Verdict(u)'
    BY <1>2, <1>8, <2>1, Zenon DEF Verdict, Busy
  <2>10. ASSUME NEW m \in Masters, control' = m
         PROVE  IF pc'[m] = "done" THEN Settled' /\ result' = <<Good(added')>>
                ELSE Good(added') <=> fAllOk' /\ Good(queue') /\ \A u \in Busy' : Verdict(u)'
    <3>1. pc'[m] = "done" <=> pc[m] = "done"
      BY <1>2, <2>1, Zenon
    <3>2. CASE pc[m] = "done"
      BY <1>8, <2>1, <2>10, <3>1, <3>2 DEF Settled
    <3>3. CASE pc[m] # "done"
      <4>1. Good(added) <=> ok /\ Good(queue) /\ \A u \in Busy \ {t} : Verdict(u)
        BY <2>10, <3>3, Zenon
      <4>2. (\A u \in Busy \ {t} : Verdict(u)) <=> \A u \in Busy' : Verdict(u)'
        BY <2>1, <2>9, Zenon
      <4>3. added' = added /\ queue' = queue /\ fAllOk' = ok
        BY <1>8, Zenon
      <4>. QED  BY <3>1, <3>3, <4>1, <4>2, <4>3, Zenon
    <3>. QED  BY <3>2, <3>3, Zenon
  <2>. QED  BY <2>3, <2>4, <2>5, <2>6, <2>7, <2>8, <2>10, Zenon DEF QueueInv
<1>9. CASE /\ queue # <<>>
           /\ LET n == BatchSize(Len(queue), total, idle) IN
              /\ nNow' = [nNow EXCEPT ![t] = n]
              /\ vChecks' = [vChecks EXCEPT ![t] = SubSeq(queue, Len(queue) - n + 1, Len(queue))]
              /\ queue' = SubSeq(queue, 1, Len(queue) - n)
           /\ fOk' = [fOk EXCEPT ![t] = ok]
           /\ nTotal' = total /\ nIdle' = idle
           /\ fAllOk' = ok
           /\ Goto(t, "work", W)
           /\ UNCHANGED result
  <2>. DEFINE n == BatchSize(Len(queue), total, idle)
  <2>1. n \in 1..Len(queue)
    <3>1. Len(queue) \in Nat \ {0}
      BY <1>1, <1>9
    <3>. QED  BY <3>1, BatchFits, Zenon
  <2>2. /\ nNow' = [nNow EXCEPT ![t] = n]
        /\ vChecks' = [vChecks EXCEPT ![t] = SubSeq(queue, Len(queue) - n + 1, Len(queue))]
        /\ queue' = SubSeq(queue, 1, Len(queue) - n)
    BY <1>9, Zenon
  <2>. HIDE DEF n
  <2>3. /\ pc' \in [Threads -> Pcs] /\ pc'[t] = "work"
        /\ \A u \in Threads \ {t} : pc'[u] = pc[u] \/ (pc[u] = "wait" /\ pc'[u] = "woken")
        /\ Busy' = (Busy \ {t}) \cup {t} /\ Idlers' = Idlers \ {t} /\ Inside' = (Inside \ {t}) \cup {t}
    BY <1>1, <1>9, GotoFacts, Zenon DEF Pcs
  <2>4. /\ queue' \in Seq(BOOLEAN) /\ Len(queue') = Len(queue) - n
        /\ vChecks'[t] \in Seq(BOOLEAN)
        /\ Good(queue) <=> Good(queue') /\ Good(vChecks'[t])
    <3>1. vChecks'[t] = SubSeq(queue, Len(queue) - n + 1, Len(queue))
      BY <1>1, <2>2, Zenon
    <3>. QED  BY <1>1, <2>1, <2>2, <3>1, GoodSplit
  <2>5. QueueTypes'
    <3>1. nTotal' \in Nat /\ nIdle' \in Nat /\ nTodo' \in Nat
      BY <1>9
    <3>2. nNow' \in [Threads -> Nat]
      BY <1>1, <2>1, <2>2
    <3>3. vChecks' \in [Threads -> Seq(BOOLEAN)]
      BY <1>1, <2>2, <2>4, Zenon
    <3>4. fOk' \in [Threads -> BOOLEAN]
      BY <1>1, <1>9
    <3>. QED  BY <1>9, <2>3, <2>4, <3>1, <3>2, <3>3, <3>4, Zenon DEF QueueTypes
  <2>6. /\ IsFiniteSet(Taken')
        /\ Cardinality(Taken') = Cardinality(Held(Busy \ {t}, nNow)) + n
    <3>1. Held(Busy \ {t}, nNow') = Held(Busy \ {t}, nNow)
      BY <1>1, <1>4, <2>2, Zenon
    <3>2. nNow'[t] = n /\ n \in Nat
      BY <1>1, <2>1, <2>2
    <3>3. /\ IsFiniteSet(Held((Busy \ {t}) \cup {t}, nNow'))
          /\ Cardinality(Held((Busy \ {t}) \cup {t}, nNow')) = Cardinality(Held(Busy \ {t}, nNow')) + n
      <4>1. IsFiniteSet(Held(Busy \ {t}, nNow')) /\ t \notin Busy \ {t}
        BY <3>1
      <4>. DEFINE f == nNow'
                  S == Busy \ {t}
      <4>2. t \notin S /\ f[t] = n /\ n \in Nat /\ IsFiniteSet(Held(S, f))
        BY <3>2, <4>1
      <4>. HIDE DEF f, S, Cleaned
      <4>3. IsFiniteSet(Held(S \cup {t}, f)) /\ Cardinality(Held(S \cup {t}, f)) = Cardinality(Held(S, f)) + n
        BY <4>2, HeldByOneMore
      <4>. QED  BY <4>3 DEF f, S
    <3>. QED  BY <1>5, <2>3, <3>1, <3>3
  <2>7. TodoIsExact'
    <3>1. Cardinality(Held(Busy \ {t}, nNow)) \in Nat
      BY FS_CardinalityType
    <3>. QED  BY <1>1, <2>1, <2>4, <2>6, <3>1 DEF TodoIsExact
  <2>8. nIdle' >= Cardinality(Idlers') /\ nTotal' >= Cardinality(Inside')
    BY <1>3, <1>9, <2>3, Zenon
  <2>9. \A u \in Busy' : nNow'[u] # 0
    BY <1>1, <1>2, <2>1, <2>2, <2>3
  <2>10. /\ \A u \in Masters : pc'[u] # "away" => control' = u
         /\ \A u \in Workers : pc'[u] \notin {"away", "adding", "done"}
    BY <1>2, <2>3, Zenon DEF Threads
  <2>11. control' = "none" => Settled'
    BY <1>9, Zenon
  <2>12. ASSUME NEW m \in Masters, control' = m
         PROVE  pc'[m] # "done" /\ (Good(added') <=> fAllOk' /\ Good(queue') /\ \A u \in Busy' : Verdict(u)')
    <3>1. pc[m] # "done" /\ pc'[m] # "done"
      BY <1>2, <1>9, <2>3, <2>12, Zenon
    <3>2. Good(added) <=> ok /\ Good(queue) /\ \A u \in Busy \ {t} : Verdict(u)
      BY <2>12, <3>1, Zenon
    <3>3. \A u \in Busy \ {t} : Verdict(u) <=> Verdict(u)'
      BY <1>1, <1>2, <1>9, <2>2, <2>3 DEF Verdict, Busy
    <3>4. Verdict(t)' <=> ok /\ Good(vChecks'[t])
      <4>1. fOk'[t] = ok
        BY <1>1, <1>9
      <4>. QED  BY <2>3, <4>1, Zenon DEF Verdict, Good
    <3>5. (\A u \in Busy' : Verdict(u)') <=> (\A u \in Busy \ {t} : Verdict(u)) /\ ok /\ Good(vChecks'[t])
      BY <2>3, <3>3, <3>4, Zenon
    <3>6. added' = added /\ fAllOk' = ok
      BY <1>9, Zenon
    <3>. QED  BY <2>4, <3>1, <3>2, <3>5, <3>6, Zenon
  <2>. QED  BY <2>5, <2>6, <2>7, <2>8, <2>9, <2>10, <2>11, <2>12, Zenon DEF QueueInv
<1>. QED  BY <1>7, <1>8, <1>9, Zenon DEF GoOn
-----------------------------------------------------------------------------
(***************************************************************************)
(* The steps                                                               *)
(***************************************************************************)
\* The invariant says of a thread that holds no batch what Cleaned says, up to the counters.
LEMMA CleanedWithoutBatch ==
    ASSUME QueueInv, NEW t \in Threads, t \notin Busy, NEW total \in Nat, NEW idle \in Nat,
           idle >= Cardinality(Idlers \ {t}), total >= Cardinality(Inside \ {t}) + 1
    PROVE  Cleaned(t, total, idle, nTodo, fAllOk)
<1>1. Busy \ {t} = Busy
  OBVIOUS
<1>2. Taken = Held(Busy, nNow)
  BY DEF Taken, Held
<1>. QED  BY <1>1, <1>2, Zenon DEF QueueInv, QueueTypes, Cleaned, TodoIsExact, Settled

\* A thread that begins Loop: nTotal++.
LEMMA EnterKeeps == ASSUME QueueInv, NEW t \in Threads, Enter(t)  PROVE  QueueInv'
<1>1. nTotal \in Nat /\ nIdle \in Nat /\ nIdle >= Cardinality(Idlers) /\ nTotal >= Cardinality(Inside)
  BY DEF QueueInv, QueueTypes
<1>2. t \notin Busy /\ t \notin Idlers /\ t \notin Inside
  BY DEF Enter, Busy, Idlers, Inside
<1>3. Idlers \ {t} = Idlers /\ Inside \ {t} = Inside
  BY <1>2
<1>4. Cardinality(Inside) \in Nat
  BY CountedAreFinite, Zenon DEF Inside
<1>5. Cleaned(t, nTotal + 1, nIdle, nTodo, fAllOk)
  <2>1. nTotal + 1 \in Nat /\ nTotal + 1 >= Cardinality(Inside \ {t}) + 1
    BY <1>1, <1>3, <1>4
  <2>. QED  BY <1>1, <1>2, <1>3, <2>1, CleanedWithoutBatch
<1>6. {} \in SUBSET Waiting(Threads)
  OBVIOUS
<1>. QED  BY <1>5, <1>6, GoOnKeeps DEF Enter

\* cond.wait returns: nIdle--.
LEMMA ResumeKeeps == ASSUME QueueInv, NEW t \in Threads, Resume(t)  PROVE  QueueInv'
<1>1. nTotal \in Nat /\ nIdle \in Nat /\ nIdle >= Cardinality(Idlers) /\ nTotal >= Cardinality(Inside)
  BY DEF QueueInv, QueueTypes
<1>2. t \notin Busy /\ t \in Idlers /\ t \in Inside /\ pc[t] = "woken"
  BY DEF Resume, Busy, Idlers, Inside
<1>3. Idlers \in SUBSET Threads /\ Inside \in SUBSET Threads
  BY DEF Idlers, Inside
<1>4. /\ Cardinality(Idlers) = Cardinality(Idlers \ {t}) + 1 /\ Cardinality(Idlers \ {t}) \in Nat
      /\ Cardinality(Inside) = Cardinality(Inside \ {t}) + 1 /\ Cardinality(Inside \ {t}) \in Nat
  BY <1>2, <1>3, CountedAreFinite, Zenon
<1>5. Cleaned(t, nTotal, nIdle - 1, nTodo, fAllOk)
  <2>1. /\ nIdle - 1 \in Nat /\ nIdle - 1 >= Cardinality(Idlers \ {t})
        /\ nTotal >= Cardinality(Inside \ {t}) + 1
    BY <1>1, <1>4
  <2>. QED  BY <1>1, <1>2, <2>1, CleanedWithoutBatch
<1>6. {} \in SUBSET Waiting(Threads)
  OBVIOUS
<1>. QED  BY <1>2, <1>5, <1>6, GoOnKeeps DEF Resume

\* The cleanup of a batch: fAllOk &= fOk and nTodo -= nNow.
LEMMA AgainKeeps == ASSUME QueueInv, NEW t \in Threads, Again(t)  PROVE  QueueInv'
<1>. DEFINE ok == fAllOk /\ fOk[t]
            todo == nTodo - nNow[t]
<1>1. /\ QueueTypes /\ pc[t] = "again" /\ t \in Busy /\ t \in Inside /\ t \notin Idlers
      /\ Idlers \in SUBSET Threads /\ Inside \in SUBSET Threads
  BY DEF QueueInv, Again, Busy, Inside, Idlers
<1>2. /\ nIdle \in Nat /\ nTotal \in Nat /\ nIdle >= Cardinality(Idlers \ {t})
      /\ nTotal >= Cardinality(Inside \ {t}) + 1
  <2>1. Idlers \ {t} = Idlers /\ Cardinality(Inside) = Cardinality(Inside \ {t}) + 1
    BY <1>1, CountedAreFinite
  <2>. QED  BY <2>1, Zenon DEF QueueInv, QueueTypes
<1>3. /\ IsFiniteSet(Held(Busy \ {t}, nNow))
      /\ todo = Len(queue) + Cardinality(Held(Busy \ {t}, nNow)) /\ todo \in Nat
  <2>1. Taken = Held(Busy, nNow) /\ IsFiniteSet(Held(Busy, nNow)) /\ nTodo = Len(queue) + Cardinality(Taken)
    BY DEF QueueInv, TodoIsExact, Taken, Held
  <2>2. nNow[t] \in Nat /\ Len(queue) \in Nat
    BY <1>1 DEF QueueTypes
  <2>3. /\ IsFiniteSet(Held(Busy \ {t}, nNow))
        /\ Cardinality(Held(Busy, nNow)) = Cardinality(Held(Busy \ {t}, nNow)) + nNow[t]
    BY <1>1, <2>1, <2>2, HeldByOthers
  <2>4. Cardinality(Held(Busy \ {t}, nNow)) \in Nat
    BY <2>3, FS_CardinalityType, Zenon
  <2>. QED  BY <2>1, <2>2, <2>3, <2>4
<1>4. /\ \A u \in Busy \ {t} : nNow[u] # 0
      /\ \A u \in Masters : pc[u] # "away" => control = u
      /\ \A u \in Workers : pc[u] \notin {"away", "adding", "done"}
      /\ control # "none" /\ \A m \in Masters : control = m => pc[m] # "done"
  BY <1>1 DEF QueueInv, Settled
<1>5. ASSUME NEW m \in Masters, control = m
      PROVE  Good(added) <=> ok /\ Good(queue) /\ \A u \in Busy \ {t} : Verdict(u)
  <2>1. Good(added) <=> fAllOk /\ Good(queue) /\ \A u \in Busy : Verdict(u)
    BY <1>4, <1>5 DEF QueueInv
  <2>2. Verdict(t) <=> fOk[t]
    BY <1>1, Zenon DEF Verdict
  <2>. QED  BY <1>1, <2>1, <2>2, Zenon
<1>6. ok \in BOOLEAN
  OBVIOUS
<1>. HIDE DEF ok, todo
<1>7. Cleaned(t, nTotal, nIdle, todo, ok)
  BY <1>1, <1>2, <1>3, <1>4, <1>5, <1>6, Zenon DEF Cleaned
<1>8. PICK W \in WakeAfterLast(t, nTodo') : GoOn(t, nTotal, nIdle, todo, ok, W)
  BY DEF Again, ok, todo
<1>9. W \in SUBSET Waiting(Threads)
  <2>1. Masters \in SUBSET Threads
    BY DEF Threads
  <2>. QED  BY <2>1, NotifiedWait DEF WakeAfterLast
<1>10. nTodo' = todo /\ control' = control /\ added' = added
  BY Zenon DEF Again, todo
<1>. QED  BY <1>1, <1>7, <1>8, <1>9, <1>10, GoOnKeeps

\* A step of a thread that holds no batch, neither before nor after it, and that begins no wait.
LEMMA StepWithoutBatch ==
    ASSUME QueueInv, NEW t \in Threads, t \notin Busy, NEW to \in Pcs \ {"work", "again"},
           NEW W \in SUBSET Waiting(Threads), Goto(t, to, W),
           to \in {"wait", "woken"} => t \in Idlers,
           nIdle' = nIdle, nTotal' = nTotal, vChecks' = vChecks, fOk' = fOk,
           nNow' \in [Threads -> Nat], \A u \in Threads \ {t} : nNow'[u] = nNow[u]
    PROVE  /\ pc' \in [Threads -> Pcs] /\ pc'[t] = to
           /\ \A u \in Threads \ {t} : pc'[u] = pc[u] \/ (pc[u] = "wait" /\ pc'[u] = "woken")
           /\ Busy' = Busy /\ Taken' = Taken
           /\ \A u \in Busy' : nNow'[u] # 0
           /\ (\A u \in Busy' : Verdict(u)') <=> (\A u \in Busy : Verdict(u))
           /\ nIdle' >= Cardinality(Idlers') /\ nTotal' >= Cardinality(Inside')
<1>1. /\ pc' \in [Threads -> Pcs] /\ pc'[t] = to
      /\ \A u \in Threads \ {t} : pc'[u] = pc[u] \/ (pc[u] = "wait" /\ pc'[u] = "woken")
      /\ Busy' = Busy \ {t} /\ Idlers' \in SUBSET Idlers
      /\ Inside' = IF to \in {"wait", "woken", "work", "again"} THEN (Inside \ {t}) \cup {t} ELSE Inside \ {t}
  <2>1. pc \in [Threads -> Pcs]
    BY DEF QueueInv, QueueTypes
  <2>. QED  BY <2>1, GotoFacts
<1>2. Busy' = Busy
  BY <1>1, Zenon
<1>3. Inside' \in SUBSET Inside
  <2>1. to \in {"wait", "woken"} => t \in Inside
    BY DEF Idlers, Inside
  <2>. QED  BY <1>1, <2>1, Zenon
<1>4. Busy \subseteq Threads \ {t}
  BY DEF Busy
<1>5. \A u \in Busy : nNow'[u] = nNow[u]
  BY <1>4
<1>6. Taken' = Taken
  BY <1>2, <1>5, Zenon DEF Taken
<1>7. \A u \in Busy' : nNow'[u] # 0
  BY <1>2, <1>5 DEF QueueInv
<1>8. \A u \in Busy : Verdict(u)' <=> Verdict(u)
  <2>1. ASSUME NEW u \in Busy  PROVE  pc'[u] = pc[u] /\ fOk'[u] = fOk[u] /\ vChecks'[u] = vChecks[u]
    BY <1>1, <1>4 DEF Busy
  <2>. QED  BY <2>1, Zenon DEF Verdict, Good
<1>9. nIdle' >= Cardinality(Idlers') /\ nTotal' >= Cardinality(Inside')
  <2>1. IsFiniteSet(Idlers) /\ IsFiniteSet(Inside)
    BY CountedAreFinite, Zenon DEF Idlers, Inside
  <2>2. Cardinality(Idlers') <= Cardinality(Idlers) /\ Cardinality(Inside') <= Cardinality(Inside)
    BY <1>1, <1>3, <2>1, FS_Subset
  <2>3. Cardinality(Idlers) \in Nat /\ Cardinality(Inside) \in Nat /\ Cardinality(Idlers') \in Nat /\ Cardinality(Inside') \in Nat
    <3>1. IsFiniteSet(Idlers') /\ IsFiniteSet(Inside')
      BY <1>1, <1>3, <2>1, FS_Subset
    <3>. QED  BY <2>1, <3>1, FS_CardinalityType
  <2>4. nIdle >= Cardinality(Idlers) /\ nTotal >= Cardinality(Inside) /\ nIdle \in Nat /\ nTotal \in Nat
    BY DEF QueueInv, QueueTypes
  <2>. QED  BY <2>2, <2>3, <2>4
<1>. QED  BY <1>1, <1>2, <1>6, <1>7, <1>8, <1>9, Zenon

\* ControlMutex: one master at a time, and it finds the queue as if nothing had ever been added.
LEMMA ControlKeeps == ASSUME QueueInv, NEW m \in Masters, Control(m)  PROVE  QueueInv'
<1>1. QueueTypes /\ m \in Threads /\ m \notin Busy /\ {} \in SUBSET Waiting(Threads) /\ "adding" \in Pcs \ {"work", "again"}
  BY DEF QueueInv, Control, Busy, Threads, Pcs
<1>2. /\ pc[m] = "away" /\ control = "none" /\ control' = m /\ Goto(m, "adding", {})
      /\ added' = <<>> /\ UNCHANGED <<shared, locals>>
  BY DEF Control
<1>3. /\ queue' = queue /\ nIdle' = nIdle /\ nTotal' = nTotal /\ nTodo' = nTodo /\ fAllOk' = fAllOk
      /\ vChecks' = vChecks /\ nNow' = nNow /\ fOk' = fOk
  BY <1>2, Zenon DEF shared, locals
<1>4. /\ pc' \in [Threads -> Pcs] /\ pc'[m] = "adding"
      /\ \A u \in Threads \ {m} : pc'[u] = pc[u] \/ (pc[u] = "wait" /\ pc'[u] = "woken")
      /\ Busy' = Busy /\ Taken' = Taken /\ \A u \in Busy' : nNow'[u] # 0
      /\ nIdle' >= Cardinality(Idlers') /\ nTotal' >= Cardinality(Inside')
  BY <1>1, <1>2, <1>3, StepWithoutBatch, Zenon DEF QueueTypes
<1>5. QueueTypes'
  BY <1>1, <1>2, <1>3, <1>4 DEF QueueTypes
<1>6. IsFiniteSet(Taken') /\ TodoIsExact'
  BY <1>3, <1>4 DEF QueueInv, TodoIsExact
<1>7. /\ \A u \in Masters : pc'[u] # "away" => control' = u
      /\ \A u \in Workers : pc'[u] \notin {"away", "adding", "done"}
  <2>1. \A u \in Masters : pc[u] = "away"
    BY <1>2, QueueAssumption DEF QueueInv, Threads
  <2>. QED  BY <1>2, <1>4, <2>1, QueueAssumption DEF QueueInv, Threads
<1>8. queue = <<>> /\ Busy = {} /\ fAllOk
  BY <1>2 DEF QueueInv, Settled
<1>9. Good(added') /\ Good(queue') /\ fAllOk' /\ \A u \in Busy' : Verdict(u)'
  BY <1>2, <1>3, <1>4, <1>8 DEF Good
<1>10. control' # "none"
  BY <1>1, <1>2, QueueAssumption, Zenon
<1>. QED  BY <1>2, <1>4, <1>5, <1>6, <1>7, <1>9, <1>10 DEF QueueInv

\* Add: the new checks are appended, counted, and some workers are woken.
LEMMA AddKeeps == ASSUME QueueInv, NEW m \in Masters, NEW checks \in Batches, Add(m, checks)  PROVE  QueueInv'
<1>1. QueueTypes /\ m \in Threads /\ m \notin Busy /\ "adding" \in Pcs \ {"work", "again"} /\ checks \in Seq(BOOLEAN)
  BY QueueAssumption, Zenon DEF QueueInv, Add, Busy, Threads, Pcs
<1>2. /\ pc[m] = "adding" /\ queue' = queue \o checks /\ nTodo' = nTodo + Len(checks) /\ added' = added \o checks
      /\ nIdle' = nIdle /\ nTotal' = nTotal /\ fAllOk' = fAllOk /\ control' = control /\ result' = result
      /\ vChecks' = vChecks /\ nNow' = nNow /\ fOk' = fOk
  BY DEF Add, locals
<1>3. PICK W \in SUBSET Waiting(Threads) : Goto(m, "adding", W)
  <2>1. Workers \in SUBSET Threads
    BY DEF Threads
  <2>. QED  BY <2>1, NotifiedWait, Zenon DEF Add
<1>4. /\ pc' \in [Threads -> Pcs] /\ pc'[m] = "adding"
      /\ \A u \in Threads \ {m} : pc'[u] = pc[u] \/ (pc[u] = "wait" /\ pc'[u] = "woken")
      /\ Busy' = Busy /\ Taken' = Taken /\ \A u \in Busy' : nNow'[u] # 0
      /\ (\A u \in Busy' : Verdict(u)') <=> (\A u \in Busy : Verdict(u))
      /\ nIdle' >= Cardinality(Idlers') /\ nTotal' >= Cardinality(Inside')
  BY <1>1, <1>2, <1>3, StepWithoutBatch, Zenon DEF QueueTypes
<1>5. queue \in Seq(BOOLEAN) /\ added \in Seq(BOOLEAN)
  BY <1>1 DEF QueueTypes
<1>6. /\ queue' \in Seq(BOOLEAN) /\ added' \in Seq(BOOLEAN) /\ Len(queue') = Len(queue) + Len(checks)
      /\ Good(queue') <=> Good(queue) /\ Good(checks)
      /\ Good(added') <=> Good(added) /\ Good(checks)
  BY <1>1, <1>2, <1>5, GoodConcat
<1>7. QueueTypes'
  <2>1. nTodo' \in Nat
    BY <1>1, <1>2 DEF QueueTypes
  <2>. QED  BY <1>1, <1>2, <1>4, <1>6, <2>1, Zenon DEF QueueTypes
<1>8. IsFiniteSet(Taken') /\ TodoIsExact'
  <2>1. IsFiniteSet(Taken) /\ nTodo = Len(queue) + Cardinality(Taken) /\ Cardinality(Taken) \in Nat
    BY FS_CardinalityType DEF QueueInv, TodoIsExact
  <2>2. Len(queue) \in Nat /\ Len(checks) \in Nat
    BY <1>1, <1>5
  <2>. QED  BY <1>2, <1>4, <1>6, <2>1, <2>2 DEF TodoIsExact
<1>9. /\ \A u \in Masters : pc'[u] # "away" => control' = u
      /\ \A u \in Workers : pc'[u] \notin {"away", "adding", "done"}
  BY <1>1, <1>2, <1>4, QueueAssumption, Zenon DEF QueueInv, Threads
<1>10. control = m /\ m # "none"
  BY <1>1, <1>2, QueueAssumption DEF QueueInv
<1>11. Good(added) <=> fAllOk /\ Good(queue) /\ \A u \in Busy : Verdict(u)
  BY <1>2, <1>10 DEF QueueInv
<1>12. Good(added') <=> fAllOk' /\ Good(queue') /\ \A u \in Busy' : Verdict(u)'
  <2>1. fAllOk' = fAllOk
    BY <1>2
  <2>. QED  BY <1>4, <1>6, <1>11, <2>1, Zenon
<1>. QED  BY <1>2, <1>4, <1>7, <1>8, <1>9, <1>10, <1>12, Zenon DEF QueueInv

\* A thread that begins Loop, that cond.wait returns to or throws in: no check and no counter moves.
LEMMA QuietKeeps ==
    ASSUME QueueInv, NEW t \in Threads, pc[t] \in {"adding", "wait", "woken"},
           NEW to \in {"enter", "woken", "gone"}, Goto(t, to, {}), to = "woken" => t \in Idlers,
           UNCHANGED <<shared, client, vChecks, fOk>>,
           nNow' \in [Threads -> Nat], \A u \in Threads \ {t} : nNow'[u] = nNow[u]
    PROVE  QueueInv'
<1>1. QueueTypes /\ t \notin Busy /\ {} \in SUBSET Waiting(Threads) /\ to \in Pcs \ {"work", "again"} /\ to # "wait"
  BY DEF QueueInv, Busy, Pcs
<1>2. /\ queue' = queue /\ nIdle' = nIdle /\ nTotal' = nTotal /\ nTodo' = nTodo /\ fAllOk' = fAllOk
      /\ control' = control /\ added' = added /\ result' = result /\ vChecks' = vChecks /\ fOk' = fOk
  BY Zenon DEF shared, client
<1>3. /\ pc' \in [Threads -> Pcs] /\ pc'[t] = to
      /\ \A u \in Threads \ {t} : pc'[u] = pc[u] \/ (pc[u] = "wait" /\ pc'[u] = "woken")
      /\ Busy' = Busy /\ Taken' = Taken /\ \A u \in Busy' : nNow'[u] # 0
      /\ (\A u \in Busy' : Verdict(u)') <=> (\A u \in Busy : Verdict(u))
      /\ nIdle' >= Cardinality(Idlers') /\ nTotal' >= Cardinality(Inside')
  BY <1>1, <1>2, StepWithoutBatch, Zenon
<1>4. QueueTypes'
  BY <1>1, <1>2, <1>3, Zenon DEF QueueTypes
<1>5. IsFiniteSet(Taken') /\ TodoIsExact'
  BY <1>2, <1>3, Zenon DEF QueueInv, TodoIsExact
<1>6. /\ \A u \in Masters : pc'[u] # "away" => control' = u
      /\ \A u \in Workers : pc'[u] \notin {"away", "adding", "done"}
  BY <1>1, <1>2, <1>3, Zenon DEF QueueInv, Threads
<1>7. Settled' <=> Settled
  BY <1>2, <1>3, Zenon DEF Settled
<1>8. control' = "none" => Settled'
  BY <1>2, <1>7, Zenon DEF QueueInv
<1>9. ASSUME NEW m \in Masters, control' = m
      PROVE  IF pc'[m] = "done" THEN Settled' /\ result' = <<Good(added')>>
             ELSE Good(added') <=> fAllOk' /\ Good(queue') /\ \A u \in Busy' : Verdict(u)'
  <2>1. pc'[m] = "done" <=> pc[m] = "done"
    BY <1>3, Zenon DEF Threads
  <2>2. CASE pc[m] = "done"
    BY <1>2, <1>7, <1>9, <2>1, <2>2 DEF QueueInv
  <2>3. CASE pc[m] # "done"
    <3>1. Good(added) <=> fAllOk /\ Good(queue) /\ \A u \in Busy : Verdict(u)
      BY <1>2, <1>9, <2>3, Zenon DEF QueueInv
    <3>2. added' = added /\ queue' = queue /\ fAllOk' = fAllOk
      BY <1>2, Zenon
    <3>. QED  BY <1>3, <2>1, <2>3, <3>1, <3>2, Zenon
  <2>. QED  BY <2>2, <2>3, Zenon
<1>. QED  BY <1>3, <1>4, <1>5, <1>6, <1>8, <1>9 DEF QueueInv

\* Wait begins.
LEMMA WaitKeeps == ASSUME QueueInv, NEW m \in Masters, Wait(m)  PROVE  QueueInv'
<1>1. m \in Threads /\ nNow \in [Threads -> Nat]
  BY DEF Threads, QueueInv, QueueTypes
<1>2. nNow' \in [Threads -> Nat] /\ \A u \in Threads \ {m} : nNow'[u] = nNow[u]
  BY <1>1 DEF Wait
<1>. QED  BY <1>1, <1>2, QuietKeeps, Zenon DEF Wait

\* A spurious wakeup.
LEMMA SpuriousKeeps == ASSUME QueueInv, NEW t \in Threads, Spurious(t)  PROVE  QueueInv'
<1>1. nNow' = nNow /\ nNow \in [Threads -> Nat] /\ t \in Idlers
  BY DEF Spurious, locals, QueueInv, QueueTypes, Idlers
<1>. QED  BY <1>1, QuietKeeps, Zenon DEF Spurious, locals

\* cond.wait throws: nIdle and nTotal keep counting the thread.
LEMMA InterruptedKeeps == ASSUME QueueInv, NEW t \in Threads, Interrupted(t)  PROVE  QueueInv'
<1>1. nNow' = nNow /\ nNow \in [Threads -> Nat]
  BY DEF Interrupted, locals, QueueInv, QueueTypes
<1>2. CASE t \in Masters
  BY <1>1, <1>2, QuietKeeps, Zenon DEF Interrupted, locals
<1>3. CASE t \notin Masters
  BY <1>1, <1>3, QuietKeeps, Zenon DEF Interrupted, locals
<1>. QED  BY <1>2, <1>3, Zenon

\* The destructor gives up the control; the verdict has been read, and nothing is left behind.
LEMMA LeaveKeeps == ASSUME QueueInv, NEW m \in Masters, Leave(m)  PROVE  QueueInv'
<1>1. QueueTypes /\ m \in Threads /\ m \notin Busy /\ {} \in SUBSET Waiting(Threads) /\ "away" \in Pcs \ {"work", "again"}
  BY DEF QueueInv, Leave, Busy, Threads, Pcs
<1>2. /\ queue' = queue /\ nIdle' = nIdle /\ nTotal' = nTotal /\ nTodo' = nTodo /\ fAllOk' = fAllOk
      /\ vChecks' = vChecks /\ nNow' = nNow /\ fOk' = fOk /\ control' = "none" /\ added' = <<>>
      /\ Goto(m, "away", {}) /\ pc[m] = "done"
  BY Zenon DEF Leave, shared, locals
<1>3. /\ pc' \in [Threads -> Pcs] /\ pc'[m] = "away"
      /\ \A u \in Threads \ {m} : pc'[u] = pc[u] \/ (pc[u] = "wait" /\ pc'[u] = "woken")
      /\ Busy' = Busy /\ Taken' = Taken /\ \A u \in Busy' : nNow'[u] # 0
      /\ nIdle' >= Cardinality(Idlers') /\ nTotal' >= Cardinality(Inside')
  BY <1>1, <1>2, StepWithoutBatch, Zenon DEF QueueTypes
<1>4. QueueTypes'
  BY <1>1, <1>2, <1>3 DEF QueueTypes
<1>5. IsFiniteSet(Taken') /\ TodoIsExact'
  BY <1>2, <1>3 DEF QueueInv, TodoIsExact
<1>6. control = m /\ Settled
  BY <1>2 DEF QueueInv
<1>7. /\ \A u \in Masters : pc'[u] # "away" => control' = u
      /\ \A u \in Workers : pc'[u] \notin {"away", "adding", "done"}
  <2>1. \A u \in Masters : u # m => pc[u] = "away"
    BY <1>6, Zenon DEF QueueInv
  <2>. QED  BY <1>3, <2>1, QueueAssumption DEF QueueInv, Threads
<1>8. Settled' /\ control' \notin Masters
  BY <1>2, <1>3, <1>6, QueueAssumption, Zenon DEF Settled, Threads
<1>. QED  BY <1>3, <1>4, <1>5, <1>7, <1>8, Zenon DEF QueueInv

\* The work on a batch, without the lock.
LEMMA ExecuteKeeps == ASSUME QueueInv, NEW t \in Threads, Execute(t)  PROVE  QueueInv'
<1>1. QueueTypes /\ t \in Busy /\ {} \in SUBSET Waiting(Threads) /\ pc[t] = "work" /\ t \in Inside /\ t \notin Idlers
  BY DEF QueueInv, Execute, Busy, Inside, Idlers
<1>2. /\ queue' = queue /\ nIdle' = nIdle /\ nTotal' = nTotal /\ nTodo' = nTodo /\ fAllOk' = fAllOk
      /\ nNow' = nNow /\ control' = control /\ added' = added /\ result' = result /\ Goto(t, "again", {})
      /\ vChecks' = [vChecks EXCEPT ![t] = <<>>]
  BY DEF Execute, shared, client
<1>3. fOk' = [fOk EXCEPT ![t] = fOk[t] /\ Good(vChecks[t])]
  BY Zenon DEF Execute
<1>4. /\ pc' \in [Threads -> Pcs] /\ pc'[t] = "again"
      /\ \A u \in Threads \ {t} : pc'[u] = pc[u] \/ (pc[u] = "wait" /\ pc'[u] = "woken")
      /\ Busy' = Busy /\ Idlers' = Idlers /\ Inside' = Inside
  <2>1. pc \in [Threads -> Pcs] /\ "again" \in Pcs
    BY <1>1, Zenon DEF QueueTypes, Pcs
  <2>2. /\ Busy' = (Busy \ {t}) \cup {t} /\ Idlers' = Idlers \ {t} /\ Inside' = (Inside \ {t}) \cup {t}
        /\ pc' \in [Threads -> Pcs] /\ pc'[t] = "again"
        /\ \A u \in Threads \ {t} : pc'[u] = pc[u] \/ (pc[u] = "wait" /\ pc'[u] = "woken")
    BY <1>1, <1>2, <2>1, GotoFacts
  <2>. QED  BY <1>1, <2>2, Zenon
<1>5. Taken' = Taken
  BY <1>2, <1>4, Zenon DEF Taken
<1>6. QueueTypes'
  <2>1. fOk' \in [Threads -> BOOLEAN]
    <3>1. (fOk[t] /\ Good(vChecks[t])) \in BOOLEAN
      OBVIOUS
    <3>. HIDE DEF Good
    <3>. QED  BY <1>1, <1>3, <3>1, Zenon DEF QueueTypes
  <2>2. vChecks' \in [Threads -> Seq(BOOLEAN)]
    BY <1>1, <1>2 DEF QueueTypes
  <2>. QED  BY <1>1, <1>2, <1>4, <2>1, <2>2, Zenon DEF QueueTypes
<1>7. IsFiniteSet(Taken') /\ TodoIsExact' /\ \A u \in Busy' : nNow'[u] # 0
  BY <1>2, <1>4, <1>5, Zenon DEF QueueInv, TodoIsExact
<1>8. nIdle' >= Cardinality(Idlers') /\ nTotal' >= Cardinality(Inside')
  BY <1>2, <1>4, Zenon DEF QueueInv
<1>9. /\ \A u \in Masters : pc'[u] # "away" => control' = u
      /\ \A u \in Workers : pc'[u] \notin {"away", "adding", "done"}
  BY <1>1, <1>2, <1>4, Zenon DEF QueueInv, Threads
<1>10. control # "none" /\ \A m \in Masters : control = m => pc[m] # "done"
  BY <1>1 DEF QueueInv, Settled
<1>11. \A u \in Busy : Verdict(u)' <=> Verdict(u)
  <2>1. ASSUME NEW u \in Busy, u # t  PROVE  pc'[u] = pc[u] /\ fOk'[u] = fOk[u] /\ vChecks'[u] = vChecks[u]
    BY <1>1, <1>2, <1>3, <1>4, <2>1 DEF Busy, QueueTypes
  <2>2. fOk'[t] <=> fOk[t] /\ Good(vChecks[t])
    <3>1. fOk'[t] = (fOk[t] /\ Good(vChecks[t]))
      BY <1>1, <1>3 DEF QueueTypes, Busy
    <3>. QED  BY <3>1, Zenon
  <2>3. Verdict(t)' <=> Verdict(t)
    BY <1>1, <1>4, <2>2, Zenon DEF Verdict
  <2>4. ASSUME NEW u \in Busy, u # t  PROVE  Verdict(u)' <=> Verdict(u)
    BY <2>1, <2>4, Zenon DEF Verdict, Good
  <2>. QED  BY <2>3, <2>4, Zenon
<1>12. ASSUME NEW m \in Masters, control' = m
       PROVE  pc'[m] # "done" /\ (Good(added') <=> fAllOk' /\ Good(queue') /\ \A u \in Busy' : Verdict(u)')
  <2>1. pc[m] # "done" /\ pc'[m] # "done"
    BY <1>2, <1>4, <1>10, <1>12, Zenon DEF Threads
  <2>2. Good(added) <=> fAllOk /\ Good(queue) /\ \A u \in Busy : Verdict(u)
    BY <1>2, <1>12, <2>1, Zenon DEF QueueInv
  <2>3. added' = added /\ queue' = queue /\ fAllOk' = fAllOk
    BY <1>2, Zenon
  <2>. QED  BY <1>4, <1>11, <2>1, <2>2, <2>3, Zenon
<1>. QED  BY <1>2, <1>4, <1>6, <1>7, <1>8, <1>9, <1>10, <1>12 DEF QueueInv
-----------------------------------------------------------------------------
(***************************************************************************)
(* The theorems                                                            *)
(***************************************************************************)
\* The queue as it is constructed.
LEMMA QueueInvInit == Init => QueueInv
<1>. SUFFICES ASSUME Init  PROVE  QueueInv
  OBVIOUS
<1>1. QueueTypes
  <2>1. pc \in [Threads -> Pcs]
    BY DEF Init, Pcs
  <2>. QED  BY <2>1 DEF Init, QueueTypes
<1>2. Busy = {} /\ Idlers = {} /\ Inside = {}
  BY DEF Init, Busy, Idlers, Inside
<1>3. Taken = {}
  BY <1>2 DEF Taken
<1>4. IsFiniteSet(Taken) /\ TodoIsExact /\ nIdle >= Cardinality(Idlers) /\ nTotal >= Cardinality(Inside)
  BY <1>2, <1>3, FS_EmptySet DEF Init, TodoIsExact
<1>5. (\A t \in Masters : pc[t] = "away") /\ \A t \in Workers : pc[t] = "enter"
  BY QueueAssumption, Zenon DEF Init, Threads
<1>6. control = "none" /\ control \notin Masters /\ Settled
  BY <1>2, QueueAssumption, Zenon DEF Init, Settled, Threads
<1>. QED  BY <1>1, <1>2, <1>4, <1>5, <1>6 DEF QueueInv

\* Every step of every thread keeps the invariant.
LEMMA QueueInvNext == QueueInv /\ [Next]_vars => QueueInv'
<1>. SUFFICES ASSUME QueueInv, [Next]_vars  PROVE  QueueInv'
  OBVIOUS
<1>1. ASSUME NEW m \in Masters, Control(m) \/ Wait(m) \/ Leave(m)  PROVE  QueueInv'
  BY <1>1, ControlKeeps, WaitKeeps, LeaveKeeps, Zenon
<1>2. ASSUME NEW m \in Masters, NEW checks \in Batches, Add(m, checks)  PROVE  QueueInv'
  BY <1>2, AddKeeps, Zenon
<1>3. ASSUME NEW t \in Threads, Run(t) \/ Spurious(t)  PROVE  QueueInv'
  BY <1>3, EnterKeeps, AgainKeeps, ResumeKeeps, ExecuteKeeps, InterruptedKeeps, SpuriousKeeps, Zenon DEF Run
<1>4. CASE Interrupt \/ UNCHANGED vars
  <2>1. UNCHANGED <<shared, pc, locals, client>>
    BY <1>4 DEF Interrupt, vars, shared, locals, client
  <2>. QED  BY <2>1, Zenon DEF QueueInv, QueueTypes, TodoIsExact, Taken, Busy, Idlers, Inside, Settled, Verdict, shared, locals, client
<1>. QED  BY <1>1, <1>2, <1>3, <1>4 DEF Next

\* The invariant holds in every behaviour, whatever the threads' scheduling.
THEOREM QueueInvHolds == Spec => []QueueInv
BY QueueInvInit, QueueInvNext, PTL DEF Spec

\* Wait (checkqueue.h) returns to the owner of a control whether all checks added under it are
\* good, for every number of threads and every batch size, with interruptions and spurious wakeups.
THEOREM WaitReturnsTheVerdict == Spec => []VerdictIsExact
<1>1. QueueInv => VerdictIsExact
  BY DEF QueueInv, VerdictIsExact
<1>. QED  BY <1>1, QueueInvHolds, PTL

\* nTodo, on which the master's return from Loop (checkqueue.h) depends, counts exactly the checks
\* that are queued or in some thread's batch.
THEOREM NoCheckIsLost == Spec => []TodoIsExact
<1>1. QueueInv => TodoIsExact
  BY DEF QueueInv
<1>. QED  BY <1>1, QueueInvHolds, PTL
=============================================================================
