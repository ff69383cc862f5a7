--------------------------- MODULE OurChainProofs ---------------------------
(***************************************************************************)
(* Theorems about two parts that OurChain adds to the node.                *)
(*                                                                         *)
(* The rounds of mining, for every number of threads in generateBlocks: no *)
(* thread has two blocks accepted in a round and none sleeps through the   *)
(* change of a round.                                                      *)
(*                                                                         *)
(* ContractRuntime, for any contracts: whatever calls of the interface     *)
(* they make, however many and however deep, and wherever they fail.       *)
(***************************************************************************)
EXTENDS MiningRound, ContractRuntime, TLAPS

-----------------------------------------------------------------------------
(* The rounds of mining.                                                   *)

\* From CreateNewBlock to the end of ProcessNewBlock.
AtWork == {"mine", "average", "submit", "interrupt"}
Places == {"idle", "loop", "gate"} \cup AtWork \cup Waits

RoundTypes ==
    /\ pc \in [Miners -> Places] /\ thisRound \in [Miners -> BOOLEAN] /\ blocks \in [Miners -> Nat]
    /\ asleep \subseteq Miners

\* The inductive invariant.  A thread whose block has been accepted in this round is about to
\* interrupt the mining, or the mining is interrupted and the thread is not at a block.
RoundInv ==
    /\ RoundTypes
    /\ NoLostWakeup
    /\ \A t \in Miners : blocks[t] # 0 =>
        blocks[t] = 1 /\ (pc[t] = "interrupt" \/ (~fAllowedMining /\ pc[t] \notin AtWork))

\* A step of one thread that leaves the history of the round alone: if the thread has had its block
\* and goes back to work on one then the mining is allowed.
LEMMA StepOfOne ==
    ASSUME RoundInv, NEW t \in Miners, NEW to \in Places, pc' = [pc EXCEPT ![t] = to],
           thisRound' = thisRound \/ \E b \in BOOLEAN : thisRound' = [thisRound EXCEPT ![t] = b],
           t \notin asleep, asleep' = asleep, notifying' = notifying, blocks' = blocks,
           fAllowedMining' = fAllowedMining \/ fAllowedMining' = FALSE,
           to \in AtWork => pc[t] \in AtWork \ {"interrupt"} \/ fAllowedMining,
           pc[t] = "interrupt" => fAllowedMining' = FALSE /\ to \notin AtWork
    PROVE  RoundInv'
<1>1. RoundTypes'
  BY DEF RoundInv, RoundTypes
<1>2. NoLostWakeup'
  BY DEF RoundInv, RoundTypes, NoLostWakeup
<1>3. ASSUME NEW u \in Miners, blocks'[u] # 0
      PROVE  blocks'[u] = 1 /\ (pc'[u] = "interrupt"
        \/ (~fAllowedMining' /\ pc'[u] \notin AtWork))
  <2>1. blocks[u] = 1 /\ (pc[u] = "interrupt" \/ (~fAllowedMining /\ pc[u] \notin AtWork))
    BY <1>3 DEF RoundInv
  <2>2. CASE u # t
    BY <2>1, <2>2 DEF RoundInv, RoundTypes
  <2>3. CASE u = t
    BY <2>1, <2>3 DEF RoundInv, RoundTypes, AtWork
  <2>. QED  BY <2>2, <2>3
<1>. QED  BY <1>1, <1>2, <1>3 DEF RoundInv

\* Only a thread in cond_roundchange.wait is asleep.
LEMMA AwakeAtWork ==
    ASSUME RoundInv, NEW t \in Miners, pc[t] \notin Waits
    PROVE  t \notin asleep
BY DEF RoundInv, NoLostWakeup
-----------------------------------------------------------------------------
\* The invariant in the state that StartGPoWServer leaves.
LEMMA RoundInvInit == MiningInit => RoundInv
BY DEF MiningInit, RoundInv, RoundTypes, NoLostWakeup, Places

\* The timer thread and ProcessNewBlock for a peer's block.
LEMMA TimerKeeps ==
    ASSUME RoundInv, timeoutCallback \/ NoMiningCallback \/ NotifyAll
             \/ PeerBlock \/ InterruptRPC
    PROVE  RoundInv'
<1>1. CASE timeoutCallback
  BY <1>1 DEF timeoutCallback, RoundInv, RoundTypes, NoLostWakeup
<1>2. CASE NoMiningCallback
  BY <1>2 DEF NoMiningCallback, RoundInv, RoundTypes, NoLostWakeup
<1>3. CASE NotifyAll
  BY <1>3 DEF NotifyAll, RoundInv, RoundTypes, NoLostWakeup
<1>4. CASE PeerBlock
  BY <1>4 DEF PeerBlock, RoundInv, RoundTypes, NoLostWakeup
<1>5. CASE InterruptRPC
  BY <1>5 DEF InterruptRPC, timer, RoundInv, RoundTypes, NoLostWakeup
<1>. QED  BY <1>1, <1>2, <1>3, <1>4, <1>5

\* generateBlocks before and in NextGPoW: no block is accepted.
LEMMA MiningKeeps ==
    ASSUME RoundInv, NEW t \in Miners,
           \/ Generate(t) \/ ReadRound(t) \/ NothingToMine(t)
                \/ SecondHalf(t) \/ CreateFails(t)
           \/ \E cons \in BOOLEAN : Create(t, cons)
           \/ \E h \in Hashes : Hash(t, h)
           \/ Stop(t) \/ AverageDone(t) \/ AverageNotDone(t) \/ Rejected(t)
    PROVE  RoundInv'
<1>1. CASE Generate(t) \/ ReadRound(t) \/ NothingToMine(t)
             \/ SecondHalf(t) \/ CreateFails(t)
  <2>1. /\ pc[t] \in {"idle", "loop", "gate"}
        /\ \E to \in {"loop", "gate", "waitReturn", "waitContinue", "idle"} : pc' = [pc EXCEPT ![t] = to]
        /\ thisRound' = thisRound \/ \E b \in BOOLEAN : thisRound' = [thisRound EXCEPT ![t] = b]
        /\ asleep' = asleep /\ blocks' = blocks /\ fAllowedMining' = fAllowedMining
        /\ notifying' = notifying
    BY <1>1, Zenon DEF Generate, ReadRound, NothingToMine, SecondHalf,
       CreateFails, Go, GoBack, timer
  <2>2. t \notin asleep
    BY <2>1, AwakeAtWork DEF Waits
  <2>. QED  BY <2>1, <2>2, StepOfOne, Zenon DEF Places, AtWork, Waits
<1>2. ASSUME NEW cons \in BOOLEAN, Create(t, cons)  PROVE  RoundInv'
  <2>1. /\ pc[t] = "gate" /\ fAllowedMining /\ pc' = [pc EXCEPT ![t] = "mine"]
        /\ thisRound' = thisRound
        /\ asleep' = asleep /\ blocks' = blocks /\ fAllowedMining' = fAllowedMining
        /\ notifying' = notifying
    BY <1>2 DEF Create, Go, timer
  <2>2. t \notin asleep
    BY <2>1, AwakeAtWork DEF Waits
  <2>. QED  BY <2>1, <2>2, StepOfOne, Zenon DEF Places, AtWork
<1>3. ASSUME NEW h \in Hashes, Hash(t, h)  PROVE  RoundInv'
  <2>1. /\ pc[t] = "mine" /\ \E to \in {"mine", "average"} : pc' = [pc EXCEPT ![t] = to]
        /\ thisRound' = thisRound /\ asleep' = asleep /\ blocks' = blocks
        /\ fAllowedMining' = fAllowedMining /\ notifying' = notifying
    BY <1>3, Zenon DEF Hash, timer
  <2>2. t \notin asleep
    BY <2>1, AwakeAtWork, Zenon DEF Waits
  <2>. QED  BY <2>1, <2>2, StepOfOne, Zenon DEF Places, AtWork
<1>4. CASE Stop(t) \/ AverageDone(t) \/ AverageNotDone(t) \/ Rejected(t)
  <2>1. /\ pc[t] \in {"mine", "average", "submit"}
        /\ \E to \in {"average", "submit", "waitContinue", "idle"} : pc' = [pc EXCEPT ![t] = to]
        /\ thisRound' = thisRound \/ \E b \in BOOLEAN : thisRound' = [thisRound EXCEPT ![t] = b]
        /\ asleep' = asleep /\ blocks' = blocks /\ fAllowedMining' = fAllowedMining
        /\ notifying' = notifying
    BY <1>4, Zenon DEF Stop, AverageDone, AverageNotDone, Rejected, Go,
       GoBack, timer
  <2>2. t \notin asleep
    BY <2>1, AwakeAtWork DEF Waits
  <2>. QED  BY <2>1, <2>2, StepOfOne, Zenon DEF Places, AtWork, Waits
<1>. QED  BY <1>1, <1>2, <1>3, <1>4, Zenon

\* ProcessNewBlock for a block of one's own, and the waits for the round to change.
LEMMA RoundEndKeeps ==
    ASSUME RoundInv, NEW t \in Miners,
           Accepted(t) \/ InterruptMining(t) \/ Resume(t) \/ Sleep(t)
             \/ SpuriousWakeup(t)
    PROVE  RoundInv'
<1>1. CASE Accepted(t)
  <2>1. /\ pc[t] = "submit" /\ pc' = [pc EXCEPT ![t] = "interrupt"]
        /\ blocks' = [blocks EXCEPT ![t] = @ + 1]
        /\ thisRound' = thisRound /\ asleep' = asleep
        /\ fAllowedMining' = fAllowedMining /\ notifying' = notifying
    BY <1>1 DEF Accepted, Go, timer
  <2>2. blocks[t] = 0
    BY <2>1 DEF RoundInv, AtWork
  <2>3. RoundTypes' /\ NoLostWakeup'
    BY <2>1 DEF RoundInv, RoundTypes, NoLostWakeup, Places, AtWork, Waits
  <2>. QED  BY <2>1, <2>2, <2>3 DEF RoundInv, RoundTypes
<1>2. CASE InterruptMining(t)
  <2>1. /\ pc[t] = "interrupt"
        /\ \E to \in {"waitNext", "idle"} : pc' = [pc EXCEPT ![t] = to]
        /\ thisRound' = thisRound \/ thisRound' = [thisRound EXCEPT ![t] = FALSE]
        /\ asleep' = asleep /\ blocks' = blocks /\ fAllowedMining' = FALSE /\ notifying' = notifying
    BY <1>2 DEF InterruptMining, Go, GoBack
  <2>2. t \notin asleep
    BY <2>1, AwakeAtWork, Zenon DEF Waits
  <2>. QED  BY <2>1, <2>2, StepOfOne, Zenon DEF Places, AtWork, Waits
<1>3. CASE Resume(t)
  <2>1. /\ pc[t] \in Waits /\ \E to \in {"loop", "idle"} : pc' = [pc EXCEPT ![t] = to]
        /\ thisRound' = [thisRound EXCEPT ![t] = FALSE] /\ t \notin asleep
        /\ asleep' = asleep /\ blocks' = blocks /\ fAllowedMining' = fAllowedMining
        /\ notifying' = notifying
    BY <1>3 DEF Resume, Go, GoBack, timer, Waits
  <2>. QED  BY <2>1, StepOfOne, Zenon DEF Places, AtWork, Waits
<1>4. CASE Sleep(t)
  BY <1>4 DEF Sleep, timer, RoundInv, RoundTypes, NoLostWakeup
<1>5. CASE SpuriousWakeup(t)
  BY <1>5 DEF SpuriousWakeup, timer, RoundInv, RoundTypes, NoLostWakeup
<1>. QED  BY <1>1, <1>2, <1>3, <1>4, <1>5
-----------------------------------------------------------------------------
\* The invariant holds in every behaviour of the timer thread and the miners.
THEOREM RoundInvHolds == MiningSpec => []RoundInv
<1>1. RoundInv /\ [MiningNext]_miningVars => RoundInv'
  <2>. SUFFICES ASSUME RoundInv, [MiningNext]_miningVars  PROVE  RoundInv'
    OBVIOUS
  <2>1. CASE UNCHANGED miningVars
    BY <2>1 DEF miningVars, timer, RoundInv, RoundTypes, NoLostWakeup
  <2>2. CASE MiningNext
    <3>1. ASSUME NEW t \in Miners, Generate(t) \/ SpuriousWakeup(t) \/ Step(t)  PROVE  RoundInv'
      BY <3>1, MiningKeeps, RoundEndKeeps DEF Step
    <3>. QED  BY <2>2, <3>1, TimerKeeps DEF MiningNext
  <2>. QED  BY <2>1, <2>2
<1>. QED  BY <1>1, RoundInvInit, PTL DEF MiningSpec

\* generateBlocks has at most one block of a thread accepted in a round, also when the round changes
\* between AcceptBlock and InterruptMining (ProcessNewBlock, validation.cpp).
THEOREM OneBlockInARound == MiningSpec => []OneBlockPerRound
<1>1. RoundInv => OneBlockPerRound
  <2>. SUFFICES ASSUME RoundInv, NEW t \in Miners  PROVE  blocks[t] <= 1
    BY DEF OneBlockPerRound
  <2>1. blocks[t] \in Nat
    BY DEF RoundInv, RoundTypes
  <2>2. blocks[t] # 0 => blocks[t] = 1
    BY Zenon DEF RoundInv
  <2>. QED  BY <2>1, <2>2
<1>. QED  BY <1>1, RoundInvHolds, PTL

\* No thread in generateBlocks sleeps on cond_roundchange after the round has changed, unless the
\* timer thread (gpowserver.cpp) has yet to call notify_all.
THEOREM NoMinerSleepsThrough == MiningSpec => []NoLostWakeup
<1>1. RoundInv => NoLostWakeup
  BY DEF RoundInv
<1>. QED  BY <1>1, RoundInvHolds, PTL
-----------------------------------------------------------------------------
(* Sequences.                                                              *)

LEMMA EmptySeq ==
    ASSUME NEW S
    PROVE  /\ <<>> \in Seq(S)
           /\ \A s \in Seq(S) : Len(s) \in Nat /\ (s = <<>> <=> Len(s) = 0)
OBVIOUS

LEMMA AppendSeq ==
    ASSUME NEW S, NEW s \in Seq(S), NEW e \in S
    PROVE  /\ Append(s, e) \in Seq(S)
           /\ Len(Append(s, e)) = Len(s) + 1
           /\ Append(s, e) # <<>>
           /\ Append(s, e)[Len(s) + 1] = e
           /\ \A k \in 1..Len(s) : Append(s, e)[k] = s[k]
OBVIOUS

LEMMA TailSeq ==
    ASSUME NEW S, NEW s \in Seq(S), s # <<>>
    PROVE  /\ Head(s) \in S /\ Head(s) = s[1]
           /\ Tail(s) \in Seq(S)
           /\ Len(Tail(s)) = Len(s) - 1
           /\ \A k \in 1..(Len(s) - 1) : Tail(s)[k] = s[k + 1]
OBVIOUS

LEMMA ExceptSeq ==
    ASSUME NEW S, NEW s \in Seq(S), NEW n \in 1..Len(s), NEW e \in S
    PROVE  /\ [s EXCEPT ![n] = e] \in Seq(S)
           /\ Len([s EXCEPT ![n] = e]) = Len(s)
OBVIOUS

LEMMA FrontSeq ==
    ASSUME NEW S, NEW s \in Seq(S), Len(s) > 1
    PROVE  SubSeq(s, 1, Len(s) - 1) \in Seq(S) /\ Len(SubSeq(s, 1, Len(s) - 1)) = Len(s) - 1
<1>1. Len(s) - 1 \in 0..Len(s) /\ 1 \in Nat
  BY EmptySeq
<1> QED
  BY <1>1

LEMMA RangeAppend ==
    ASSUME NEW S, NEW s \in Seq(S), NEW e \in S
    PROVE  Range(Append(s, e)) = Range(s) \cup {e}
<1>1. /\ Len(s) \in Nat /\ DOMAIN s = 1..Len(s)
      /\ DOMAIN Append(s, e) = 1..(Len(s) + 1)
  OBVIOUS
<1>2. /\ Append(s, e)[Len(s) + 1] = e
      /\ \A k \in 1..Len(s) : Append(s, e)[k] = s[k]
  BY AppendSeq
<1>3. \A k \in 1..(Len(s) + 1) : k \in 1..Len(s) \/ k = Len(s) + 1
  BY <1>1
<1> QED
  BY <1>1, <1>2, <1>3 DEF Range

-----------------------------------------------------------------------------
(* Types.                                                                  *)

State == Value \cup {Null}

Frame == [addr : Address, state : State, pre : State]

Word == {"real", "pure", "getcontractdir", "other"}

Kinds == Awaits \cup {"read", "write", "pid"}

Message ==
    {m \in [kind : Kinds, value : Address \cup State \cup {Absent} \cup Int \cup Word] :
        /\ m.kind \in {"state", "write"} => m.value \in State
        /\ m.kind = "read" => m.value \in Address}

TypeInv ==
    /\ target \in Address /\ loading \in Address
    /\ mode \in {"real", "pure"}
    /\ node \in {"idle", "serve", "pid", "reap", "down"}
    /\ child \in Awaits \cup {"none", "load", "run", "exit0", "exit1", "killed"}
    /\ db \in [Address -> State \cup {Absent}] /\ tmp \in [Address -> State \cup {Absent}]
    /\ req \in Seq(Message) /\ rep \in Seq(Message)
    /\ stack \in Seq(Frame)
    /\ child = "run" \/ child \in Awaits \ {"state"} => stack # <<>>

\* A reply is of the kind the runtime waits for.
InReply == rep # <<>> => child = rep[1].kind

LEMMA MessageFacts ==
    /\ \A kind \in {"mode", "txid", "dir", "client"}, v \in Address \cup {Null} \cup Word :
         [kind |-> kind, value |-> v] \in Message
    /\ \A v \in State : [kind |-> "state", value |-> v] \in Message /\ [kind |-> "write", value |-> v] \in Message
    /\ \A a \in Address : [kind |-> "read", value |-> a] \in Message
    /\ \A n \in Int : [kind |-> "pid", value |-> n] \in Message
BY DEF Message, Kinds, Awaits, State

LEMMA TypeInit == Init => TypeInv
BY EmptySeq DEF Init, TypeInv, State, Awaits

\* What the node and the runtime send, and what they take out of the pipes.
LEMMA SendType ==
    ASSUME TypeInv, NEW kind, NEW value, Send(kind, value), [kind |-> kind, value |-> value] \in Message
    PROVE  req' \in Seq(Message)
BY AppendSeq DEF TypeInv, Send

LEMMA ReplyType ==
    ASSUME TypeInv, NEW kind, NEW value, Reply(kind, value), [kind |-> kind, value |-> value] \in Message
    PROVE  rep' \in Seq(Message)
BY AppendSeq DEF TypeInv, Reply

LEMMA TakeType ==
    ASSUME TypeInv
    PROVE  /\ req # <<>> => Head(req) \in Message /\ Tail(req) \in Seq(Message)
           /\ rep # <<>> => Head(rep) \in Message /\ Tail(rep) \in Seq(Message)
BY TailSeq DEF TypeInv

LEMMA TopType ==
    ASSUME TypeInv, NEW status, Return(status)
    PROVE  Len(stack) \in Nat /\ Len(stack) >= 1 /\ Top \in Frame
<1>1. Len(stack) \in Nat /\ Len(stack) >= 1
  BY EmptySeq DEF Return, TypeInv
<1> QED
  BY <1>1 DEF TypeInv, Top

LEMMA TypeNode ==
    /\ TypeInv
    /\ \/ \E a \in Address : ProcessNew(a) \/ ProcessCall(a) \/ CallPure(a)
       \/ Backup \/ StopContractDaemon \/ Serve
    => TypeInv'
<1> USE DEF nodeVars, childVars, Awaits
<1>1. ASSUME TypeInv, NEW a \in Address, ProcessNew(a) \/ ProcessCall(a) \/ CallPure(a)
      PROVE  TypeInv'
  BY <1>1, EmptySeq, ZenonT(40) DEF TypeInv, ProcessNew, ProcessCall, CallPure, Start
<1>2. ASSUME TypeInv, Backup \/ StopContractDaemon \/ EndOfFile
      PROVE  TypeInv'
  BY <1>2 DEF TypeInv, Backup, StopContractDaemon, EndOfFile
<1>3. ASSUME TypeInv, Reap
      PROVE  TypeInv'
  BY <1>3, EmptySeq DEF TypeInv, Reap, CallLeft
<1>4. ASSUME TypeInv, ServeRead
      PROVE  TypeInv'
  <2>1. CASE mode = "pure" /\ tmp[Head(req).value] = Absent
    BY <1>4, <2>1, EmptySeq, Zenon DEF TypeInv, ServeRead, CallLeft
  <2>2. CASE ~(mode = "pure" /\ tmp[Head(req).value] = Absent)
    <3> DEFINE s == Shown(States[Head(req).value])
    <3>1. Head(req) \in Message /\ Head(req).kind = "read" /\ Tail(req) \in Seq(Message)
      BY <1>4, TakeType DEF ServeRead
    <3>2. Head(req).value \in Address
      BY <3>1, Zenon DEF Message
    <3>3. s \in State
      BY <1>4, <3>2 DEF Shown, States, TypeInv, State
    <3>4. rep' \in Seq(Message) /\ req' = Tail(req)
      BY <1>4, <2>2, <3>3, MessageFacts, ReplyType, ZenonT(40) DEF ServeRead
    <3> QED
      BY <1>4, <2>2, <3>1, <3>4 DEF TypeInv, ServeRead
  <2> QED
    BY <2>1, <2>2, Zenon
<1>5. ASSUME TypeInv, ServeWrite
      PROVE  TypeInv'
  <2>1. Head(req) \in Message /\ Head(req).kind = "write" /\ Tail(req) \in Seq(Message)
    BY <1>5, TakeType DEF ServeWrite
  <2>2. Head(req).value \in State
    BY <2>1, Zenon DEF Message
  <2>3. db' \in [Address -> State \cup {Absent}]
    BY <1>5, <2>2, Zenon DEF ServeWrite, Store, TypeInv
  <2> QED
    BY <1>5, <2>1, <2>3 DEF TypeInv, ServeWrite
<1>6. ASSUME TypeInv, ServeQuestion
      PROVE  TypeInv'
  <2>1. Tail(req) \in Seq(Message)
    BY <1>6, TakeType DEF ServeQuestion
  <2>3. mode \in Word
    BY <1>6 DEF TypeInv, Word
  <2>2. rep' \in Seq(Message)
    BY <1>6, <2>3, MessageFacts, ReplyType, ZenonT(40) DEF ServeQuestion
  <2> QED
    BY <1>6, <2>1, <2>2 DEF TypeInv, ServeQuestion
<1>7. ASSUME TypeInv, ServeDaemon
      PROVE  TypeInv'
  <2>1. Tail(req) \in Seq(Message) /\ target \in Address
    BY <1>7, TakeType DEF ServeDaemon, TypeInv
  <2>2. rep' = rep \/ Reply("dir", target) \/ Reply("client", target)
    BY <1>7 DEF ServeDaemon
  <2>3. rep' \in Seq(Message)
    BY <1>7, <2>1, <2>2, MessageFacts, ReplyType, ZenonT(40) DEF TypeInv
  <2> QED
    BY <1>7, <2>1, <2>3 DEF TypeInv, ServeDaemon
<1>8. ASSUME TypeInv, ServePid
      PROVE  TypeInv'
  BY <1>8, TakeType, Zenon DEF TypeInv, ServePid
<1> QED
  BY <1>1, <1>2, <1>3, <1>4, <1>5, <1>6, <1>7, <1>8 DEF Serve

LEMMA TypeRuntime ==
    /\ TypeInv /\ InReply
    /\ Runtime \/ UNCHANGED vars \/ \E p \in daemons : DaemonCloses(p) \/ DaemonEnds(p)
    => TypeInv'
<1> USE DEF nodeVars, childVars, Awaits
<1>1. ASSUME TypeInv, InReply, Load
      PROVE  TypeInv'
  <2>1. req' \in Seq(Message)
    BY <1>1, MessageFacts, SendType, ZenonT(40) DEF Load, TypeInv
  <2> QED
    BY <1>1, <2>1 DEF TypeInv, Load
<1>2. ASSUME TypeInv, InReply, Receive \/ ReceiveNothing
      PROVE  TypeInv'
  <2>1. ASSUME NEW s \in State
        PROVE  /\ Append(stack, [addr |-> loading, state |-> s, pre |-> Null]) \in Seq(Frame)
               /\ Append(stack, [addr |-> loading, state |-> s, pre |-> Null]) # <<>>
    BY <1>2, <2>1, AppendSeq DEF TypeInv, Frame, State
  <2>2. ASSUME rep # <<>>, child = "state"
        PROVE  Head(rep).value \in State
    <3>1. Head(rep) \in Message /\ Head(rep) = rep[1]
      BY <1>2, <2>2, TailSeq DEF TypeInv
    <3> QED
      BY <1>2, <2>2, <3>1 DEF InReply, Message
  <2>3. stack' \in Seq(Frame) /\ stack' # <<>>
    <3>1. CASE child = "state"
      <4>1. Null \in State
        BY DEF State
      <4> QED
        BY <1>2, <2>1, <2>2, <3>1, <4>1, Zenon DEF Receive, ReceiveNothing
    <3>2. CASE child # "state"
      BY <1>2, <3>2 DEF Receive, ReceiveNothing, TypeInv
    <3> QED
      BY <3>1, <3>2, Zenon
  <2>4. rep' \in Seq(Message)
    BY <1>2, TakeType, ZenonT(40) DEF Receive, ReceiveNothing, TypeInv
  <2> QED
    BY <1>2, <2>3, <2>4, Zenon DEF TypeInv, Receive, ReceiveNothing
<1>3. ASSUME TypeInv, InReply, Fork
      PROVE  TypeInv'
  <2>1. rep' \in Seq(Message)
    BY <1>3, TakeType DEF Fork
  <2>2. \E n \in Int : Send("pid", n)
    <3>1. NoPid \in Int
      BY DEF NoPid
    <3>2. CASE Send("pid", NoPid)
      BY <3>1, <3>2
    <3>3. CASE Send("pid", Len(queue) + 1)
      BY <3>3
    <3> QED
      BY <1>3, <3>2, <3>3 DEF Fork
  <2>3. req' \in Seq(Message)
    BY <1>3, <2>2, MessageFacts, SendType, ZenonT(40)
  <2> QED
    BY <1>3, <2>1, <2>3, Zenon DEF TypeInv, Fork
<1>4. ASSUME TypeInv, InReply, NEW v \in State, StateWrite(v)
      PROVE  TypeInv'
  <2> DEFINE n == Len(stack)
             f == [stack[n] EXCEPT !.state = v]
  <2>1. n \in 1..Len(stack) /\ stack \in Seq(Frame) /\ stack[n] \in Frame
    BY <1>4, EmptySeq DEF StateWrite, Calls, TypeInv
  <2>2. f \in Frame
    BY <2>1 DEF Frame
  <2>3. stack' = [stack EXCEPT ![n] = f]
    BY <1>4 DEF StateWrite
  <2> HIDE DEF n, f
  <2>4. stack' \in Seq(Frame) /\ Len(stack') = Len(stack)
    BY <2>1, <2>2, <2>3, ExceptSeq
  <2>5. stack' # <<>>
    BY <2>1, <2>4
  <2> QED
    BY <1>4, <2>4, <2>5 DEF StateWrite, Calls, TypeInv
<1>5. ASSUME TypeInv, InReply, NEW kind \in {"mode", "txid", "dir", "client"}, NEW value \in {Null, "getcontractdir", "other"}, Ask(kind, value)
      PROVE  TypeInv'
  <2>2. value \in Address \cup {Null} \cup Word
    BY DEF Word
  <2>3. [kind |-> kind, value |-> value] \in Message
    BY <2>2, MessageFacts, Zenon
  <2>1. req' \in Seq(Message)
    BY <1>5, <2>3, SendType, Zenon DEF Ask
  <2> QED
    BY <1>5, <2>1, Zenon DEF Ask, Calls, TypeInv
<1>6. ASSUME TypeInv, InReply, NEW a \in Address, CallContract(a)
      PROVE  TypeInv'
  BY <1>6 DEF CallContract, Calls, TypeInv
<1>7. ASSUME TypeInv, InReply, NEW status \in {"exit0", "exit1"}, Return(status)
      PROVE  TypeInv'
  <2>0. Len(stack) \in Nat /\ Len(stack) >= 1
    BY <1>7, TopType
  <2>1. Top \in Frame
    BY <1>7, TopType
  <2>2. Top.state \in State
    BY <2>1 DEF Frame
  <2>3. CASE Len(stack) = 1
    <3>1. req' \in Seq(Message)
      BY <1>7, <2>2, <2>3, MessageFacts, SendType, ZenonT(40) DEF Return
    <3> QED
      BY <1>7, <2>3, <3>1, EmptySeq DEF Return, TypeInv
  <2>4. CASE Len(stack) # 1
    <3>1. SubSeq(stack, 1, Len(stack) - 1) \in Seq(Frame) /\ Len(SubSeq(stack, 1, Len(stack) - 1)) = Len(stack) - 1
      <4>1. stack \in Seq(Frame)
        BY <1>7 DEF TypeInv
      <4>2. Len(stack) > 1
        BY <2>0, <2>4
      <4> QED
        BY <4>1, <4>2, FrontSeq
    <3> DEFINE n == Len(stack) - 1
               f == [SubSeq(stack, 1, Len(stack) - 1)[n] EXCEPT !.pre = Top.state]
    <3>4. n \in 1..Len(SubSeq(stack, 1, Len(stack) - 1)) /\ SubSeq(stack, 1, Len(stack) - 1)[n] \in Frame
      BY <2>0, <2>4, <3>1
    <3>5. f \in Frame
      BY <2>2, <3>4 DEF Frame
    <3>6. stack' = [SubSeq(stack, 1, Len(stack) - 1) EXCEPT ![n] = f]
      BY <1>7, <2>4, Zenon DEF Return
    <3> HIDE DEF n, f
    <3>2. stack' \in Seq(Frame) /\ Len(stack') = Len(stack) - 1
      BY <3>1, <3>4, <3>5, <3>6, ExceptSeq
    <3>3. stack' # <<>>
      BY <2>0, <2>4, <3>2, EmptySeq
    <3> QED
      BY <1>7, <2>4, <3>2, <3>3, Zenon DEF Return, TypeInv
  <2> QED
    BY <2>3, <2>4
<1>8. ASSUME TypeInv, InReply, Dies \/ UNCHANGED vars \/ \E p \in daemons : DaemonCloses(p) \/ DaemonEnds(p)
      PROVE  TypeInv'
  BY <1>8, EmptySeq, ZenonT(40) DEF Dies, DaemonCloses, DaemonEnds, vars, TypeInv
<1> QED
  BY <1>1, <1>2, <1>3, <1>4, <1>5, <1>6, <1>7, <1>8 DEF Runtime, State

-----------------------------------------------------------------------------
(* The pipes.                                                              *)

\* How many messages are before the next request: a process id that the node has yet to read.
Off == IF node = "pid" /\ req # <<>> THEN 1 ELSE 0

\* The request that a runtime waiting for (or ended by) child has sent.
Sent(m) ==
    \/ child = "state" /\ m.kind = "read"
    \/ child \in {"mode", "txid", "dir", "client"} /\ m.kind = child
    \/ child \in {"exit0", "exit1"} /\ m.kind = "write" /\ m.value = final

\* There is at most one message under way: the request of a runtime that waits (or has ended), or
\* the reply of the kind it waits for; but the process id of a daemon may still be before the
\* request.
PipeInv ==
    /\ Closed => req = <<>> /\ rep = <<>>
    /\ node \in {"idle", "down"} => child = "none"
    /\ node = "pid" /\ req # <<>> => req[1].kind = "pid"
    /\ node = "pid" /\ req = <<>> => child = "dir" /\ rep # <<>>
    /\ Len(req) <= Off + 1
    /\ Len(req) = Off + 1 => rep = <<>> /\ Sent(req[Off + 1])
    /\ Len(rep) <= 1
    /\ rep # <<>> => child = rep[1].kind
    /\ rep # <<>> /\ child = "dir" => node = "pid" /\ req = <<>>

\* The cases of PipeInv: no message, a process id, a request (after a process id), a reply.
LEMMA PipeCases ==
    ASSUME TypeInv, PipeInv
    PROVE  /\ rep # <<>> => Len(rep) = 1 /\ child = rep[1].kind /\ child \in Awaits
                            /\ (node = "serve" => req = <<>>)
           /\ node = "serve" /\ req # <<>> => Len(req) = 1 /\ Sent(req[1]) /\ rep = <<>>
           /\ node = "pid" /\ req # <<>> /\ Len(req) # 1 => Len(req) = 2 /\ Sent(req[2]) /\ rep = <<>>
           /\ child \in {"none", "load", "run", "killed"} => rep = <<>> /\ Len(req) = Off
<1>1. Len(req) \in Nat /\ Len(rep) \in Nat /\ (req = <<>> <=> Len(req) = 0) /\ (rep = <<>> <=> Len(rep) = 0)
  BY EmptySeq DEF TypeInv
<1>2. rep # <<>> => rep[1] \in Message
  BY <1>1, TailSeq DEF TypeInv
<1>3. rep # <<>> => child \in Awaits
  BY <1>2 DEF PipeInv, Message, Kinds, TypeInv, Awaits
<1>4. node \in {"serve", "pid"} \/ Closed
  BY DEF Closed
<1>5. ASSUME child \in {"none", "load", "run", "killed"}
      PROVE  Len(req) # Off + 1
  BY <1>5 DEF PipeInv, Sent
<1>b. ASSUME NEW n \in Nat, NEW k \in {0, 1}
      PROVE  /\ n <= k + 1 /\ n # k + 1 => n <= k
             /\ n <= 1 /\ n # 0 => n = 1
             /\ n <= 2 /\ n # 0 /\ n # 1 => n = 2
             /\ k <= n /\ n <= k + 1 /\ n # k + 1 => n = k
  BY <1>b
<1>a. /\ Len(req) <= Off + 1 /\ (Len(req) = Off + 1 => rep = <<>> /\ Sent(req[Off + 1]))
      /\ Len(rep) <= 1 /\ (rep # <<>> => child = rep[1].kind)
  BY DEF PipeInv
<1>6. ASSUME rep # <<>>
      PROVE  Len(rep) = 1 /\ child = rep[1].kind /\ (node = "serve" => req = <<>>)
  <2>0. Len(rep) \in Nat /\ Len(rep) # 0 /\ Len(rep) <= 1
    BY <1>1, <1>6, <1>a
  <2>1. Len(rep) = 1 /\ child = rep[1].kind
    BY <1>6, <1>a, <1>b, <2>0, Zenon
  <2>2. node = "serve" => Off = 0
    BY DEF Off
  <2>3. node = "serve" => Len(req) <= 1 /\ Len(req) # 1
    BY <1>6, <1>a, <2>2
  <2>4. node = "serve" => Len(req) = 0
    BY <1>1, <1>b, <2>3, Zenon
  <2> QED
    BY <1>1, <2>1, <2>4, Zenon
<1>7. ASSUME node = "serve", req # <<>>
      PROVE  Len(req) = 1 /\ Sent(req[1]) /\ rep = <<>>
  <2>1. Off + 1 = 1
    BY <1>7 DEF Off
  <2>3. Len(req) \in Nat /\ Len(req) # 0 /\ Len(req) <= 1
    BY <1>1, <1>7, <1>a, <2>1, Zenon
  <2>2. Len(req) = 1
    BY <1>b, <2>3, Zenon
  <2> QED
    BY <1>a, <2>1, <2>2
<1>8. ASSUME node = "pid", req # <<>>, Len(req) # 1
      PROVE  Len(req) = 2 /\ Sent(req[2]) /\ rep = <<>>
  <2>1. Off + 1 = 2
    BY <1>8 DEF Off
  <2>3. Len(req) \in Nat /\ Len(req) # 0 /\ Len(req) # 1 /\ Len(req) <= 2
    BY <1>1, <1>8, <1>a, <2>1, Zenon
  <2>2. Len(req) = 2
    BY <1>b, <2>3, Zenon
  <2> QED
    BY <1>a, <2>1, <2>2
<1>9. ASSUME child \in {"none", "load", "run", "killed"}
      PROVE  rep = <<>> /\ Len(req) = Off
  <2>1. rep = <<>>
    BY <1>3, <1>9 DEF Awaits
  <2>2. Off \in {0, 1} /\ Off <= Len(req)
    BY <1>1 DEF Off
  <2>3. Len(req) <= Off + 1 /\ Len(req) # Off + 1
    BY <1>5, <1>9 DEF PipeInv
  <2> QED
    BY <1>1, <2>1, <2>2, <2>3
<1> QED
  BY <1>3, <1>6, <1>7, <1>8, <1>9

LEMMA PipeInit == Init => PipeInv
BY DEF Init, PipeInv, Closed, Off

\* A runtime that runs sends a request; with it, it waits for the reply or has ended.
LEMMA PipeSend ==
    ASSUME TypeInv, PipeInv, NEW m \in Message, child \in {"load", "run"},
           req' = IF Closed THEN req ELSE Append(req, m),
           node' = node, rep' = rep, Sent(m)', child' \notin {"none", "load", "run", "killed"}
    PROVE  PipeInv'
<1>1. rep = <<>> /\ Len(req) = Off /\ node \notin {"idle", "down"}
  BY PipeCases DEF PipeInv
<1>2. CASE Closed
  <2>1. req' = <<>> /\ Closed' /\ Len(req') = 0
    BY <1>2, Zenon DEF PipeInv, Closed
  <2> QED
    BY <1>1, <2>1, <1>2 DEF PipeInv, Off, Closed
<1>3. CASE ~Closed
  <2>1. /\ req' = Append(req, m) /\ req' # <<>> /\ Len(req') = Len(req) + 1
        /\ req'[Len(req) + 1] = m /\ \A k \in 1..Len(req) : req'[k] = req[k]
    BY <1>3, AppendSeq DEF TypeInv
  <2>2. node = "pid" => req # <<>>
    BY <1>1 DEF PipeInv
  <2>3. Off' = Off /\ Off \in {0, 1}
    BY <2>1, <2>2, Zenon DEF Off
  <2>4. node = "pid" => req'[1] = req[1] /\ req[1].kind = "pid"
    BY <1>1, <2>1, <2>2 DEF Off, PipeInv
  <2>5. ~Closed'
    BY <1>3 DEF Closed
  <2> QED
    BY <1>1, <2>1, <2>3, <2>4, <2>5 DEF PipeInv
<1> QED
  BY <1>2, <1>3, Zenon

\* Steps of a runtime that runs (or starts) without a message, and of the daemons.
LEMMA PipeQuiet ==
    ASSUME TypeInv, PipeInv, UNCHANGED <<node, req, rep>>,
           \/ child \in {"load", "run"} /\ node \notin {"idle", "down"}
           \/ UNCHANGED <<child, final>>
    PROVE  PipeInv'
<1>1. Off' = Off /\ (Closed' <=> Closed)
  BY Zenon DEF Off, Closed
<1>2. CASE child \in {"load", "run"} /\ node \notin {"idle", "down"}
  <2>1. rep = <<>> /\ Len(req) = Off
    BY <1>2, PipeCases
  <2>2. Off \in {0, 1} /\ (node = "pid" => req # <<>>)
    BY <1>2, <2>1, Zenon DEF PipeInv, Off
  <2> QED
    BY <1>1, <1>2, <2>1, <2>2 DEF PipeInv
<1>3. CASE UNCHANGED <<child, final>>
  <2>1. \A m : Sent(m)' <=> Sent(m)
    BY <1>3 DEF Sent
  <2> QED
    BY <1>1, <1>3, <2>1 DEF PipeInv
<1> QED
  BY <1>2, <1>3

LEMMA PipeEmpty ==
    ASSUME req' = <<>>, rep' = <<>>, node' # "pid", node' \in {"idle", "down"} => child' = "none"
    PROVE  PipeInv'
<1>1. Len(req') = 0 /\ Len(rep') = 0 /\ Off' = 0
  BY DEF Off
<1> QED
  BY <1>1 DEF PipeInv

\* A pipe with one message is empty once the message is taken.
LEMMA TakeOnly ==
    ASSUME NEW s \in Seq(Message), Len(s) = 1
    PROVE  Tail(s) = <<>> /\ s # <<>> /\ Head(s) = s[1] /\ Head(s) \in Message
<1>1. s # <<>>
  BY EmptySeq
<1>2. Tail(s) \in Seq(Message) /\ Len(Tail(s)) = Len(s) - 1 /\ Head(s) = s[1] /\ Head(s) \in Message
  BY <1>1, TailSeq
<1>3. Len(Tail(s)) = 0
  BY <1>2
<1> QED
  BY <1>1, <1>2, <1>3, EmptySeq, ZenonT(40)

\* What holds when the node serves a request.
LEMMA Serving ==
    ASSUME TypeInv, PipeInv, node = "serve", req # <<>>
    PROVE  Tail(req) = <<>> /\ rep = <<>> /\ Head(req) \in Message /\ Sent(Head(req))
<1>1. Len(req) = 1 /\ Sent(req[1]) /\ rep = <<>>
  BY PipeCases
<1> QED
  BY <1>1, TakeOnly DEF TypeInv

\* A reply of the kind the runtime waits for.
LEMMA PipeReply ==
    ASSUME rep = <<>>, req' = <<>>, NEW kind, NEW value, Reply(kind, value), child' = kind,
           kind \in Awaits, node' = IF kind = "dir" THEN "pid" ELSE "serve"
    PROVE  PipeInv'
<1> DEFINE m == [kind |-> kind, value |-> value]
<1>1. rep' = <<m>>
  BY DEF Reply
<1>2. Len(rep') = 1 /\ rep'[1] = m /\ rep' # <<>> /\ m.kind = kind
  BY <1>1
<1> HIDE DEF m
<1>3. Len(req') = 0 /\ Off' = 0 /\ ~Closed'
  BY DEF Off, Closed
<1> QED
  BY <1>2, <1>3 DEF PipeInv, Awaits

LEMMA PipeServe ==
    ASSUME TypeInv, PipeInv, ServeRead \/ ServeWrite \/ ServeQuestion \/ ServeDaemon
    PROVE  PipeInv'
<1>1. node = "serve" /\ req # <<>>
  BY DEF ServeRead, ServeWrite, ServeQuestion, ServeDaemon
<1>2. Tail(req) = <<>> /\ rep = <<>> /\ Sent(Head(req))
  BY <1>1, Serving
<1>3. CASE ServeRead
  <2>1. CASE mode = "pure" /\ tmp[Head(req).value] = Absent
    <3>1. req' = <<>> /\ rep' = <<>> /\ node' = "idle" /\ child' = "none"
      BY <1>2, <1>3, <2>1, Zenon DEF ServeRead, CallLeft
    <3> QED
      BY <3>1, PipeEmpty, Zenon
  <2>2. CASE ~(mode = "pure" /\ tmp[Head(req).value] = Absent)
    <3>1. /\ req' = <<>> /\ Reply("state", Shown(States[Head(req).value]))
          /\ child' = child /\ node' = "serve" /\ Head(req).kind = "read"
      BY <1>1, <1>2, <1>3, <2>2, ZenonT(40) DEF ServeRead
    <3>2. child = "state"
      BY <1>2, <3>1 DEF Sent
    <3> QED
      BY <1>2, <3>1, <3>2, PipeReply DEF Awaits
  <2> QED
    BY <2>1, <2>2
<1>4. CASE ServeWrite
  <2>1. req' = <<>> /\ rep' = <<>> /\ node' = "serve"
    BY <1>1, <1>2, <1>4, Zenon DEF ServeWrite
  <2> QED
    BY <2>1, PipeEmpty, Zenon
<1>5. CASE ServeQuestion
  <2>1. /\ req' = <<>> /\ Reply(Head(req).kind, mode) /\ child' = child /\ node' = "serve"
        /\ Head(req).kind \in {"mode", "txid"}
    BY <1>1, <1>2, <1>5 DEF ServeQuestion
  <2>2. child = Head(req).kind
    BY <1>2, <2>1, Zenon DEF Sent
  <2> QED
    BY <1>2, <2>1, <2>2, PipeReply, Zenon DEF Awaits
<1>6. CASE ServeDaemon
  <2>1. req' = <<>> /\ child' = child /\ Head(req).kind \in {"dir", "client"}
    BY <1>2, <1>6 DEF ServeDaemon
  <2>2. child = Head(req).kind
    BY <1>2, <2>1 DEF Sent
  <2>3. CASE rep' = rep
    <3>1. node' \in {"reap", "serve"}
      BY <1>1, <1>2, <1>6, <2>3 DEF ServeDaemon, Reply
    <3> QED
      BY <1>2, <2>1, <2>3, <3>1, PipeEmpty, Zenon
  <2>4. CASE Reply("dir", target) /\ child = "dir" /\ node' = "pid"
    BY <1>2, <2>1, <2>4, PipeReply DEF Awaits
  <2>5. CASE Reply("client", target) /\ child = "client" /\ node' = "serve"
    BY <1>2, <2>1, <2>5, PipeReply DEF Awaits
  <2> QED
    BY <1>1, <1>6, <2>1, <2>2, <2>3, <2>4, <2>5, Zenon DEF ServeDaemon
<1> QED
  BY <1>3, <1>4, <1>5, <1>6, Zenon

LEMMA PipePid ==
    ASSUME TypeInv, PipeInv, ServePid
    PROVE  PipeInv'
<1>1. node = "pid" /\ req # <<>> /\ req' = Tail(req) /\ node' = "serve" /\ UNCHANGED <<rep, child, final>>
  BY DEF ServePid, childVars
<1>2. /\ Len(req) \in Nat /\ Len(req') = Len(req) - 1
      /\ \A k \in 1..(Len(req) - 1) : req'[k] = req[k + 1]
  BY <1>1, TailSeq, EmptySeq DEF TypeInv
<1>3. Off' = 0 /\ Off = 1 /\ ~Closed'
  BY <1>1, Zenon DEF Off, Closed
<1>5. CASE Len(req) = 1
  <2>1. Len(req') = 0
    BY <1>2, <1>5
  <2>2. rep = <<>> \/ (Len(rep) = 1 /\ child = rep[1].kind /\ child # "dir")
    BY <1>1, PipeCases DEF PipeInv
  <2>3. Len(rep) <= 1
    BY DEF PipeInv
  <2> QED
    BY <1>1, <1>3, <2>1, <2>2, <2>3, SMTT(40) DEF PipeInv
<1>6. CASE Len(req) # 1
  <2>1. Len(req) = 2 /\ Sent(req[2]) /\ rep = <<>>
    BY <1>1, <1>6, PipeCases
  <2>2. Len(req') = 1 /\ req'[1] = req[2]
    BY <1>2, <2>1
  <2>3. Len(rep) <= 1
    BY DEF PipeInv
  <2>4. Off' + 1 = 1
    BY <1>3
  <2>5. Sent(req[1])'
    BY <1>1, <2>1, <2>2, Zenon DEF Sent
  <2>6. Sent(req[Off + 1])'
    BY <2>4, <2>5
  <2>7. rep' = <<>>
    BY <1>1, <2>1
  <2>8. Len(req') <= Off' + 1
    BY <2>2, <2>4
  <2> QED
    BY <1>1, <1>3, <2>3, <2>6, <2>7, <2>8 DEF PipeInv
<1> QED
  BY <1>5, <1>6

LEMMA PipeRuntime ==
    TypeInv /\ PipeInv /\ Runtime => PipeInv'
<1> USE DEF nodeVars, childVars
<1>1. ASSUME TypeInv, PipeInv, Load
      PROVE  PipeInv'
  <2>1. child = "load" /\ UNCHANGED <<node, rep, final>> /\ node \notin {"idle", "down"}
    BY <1>1 DEF Load, PipeInv
  <2>2. CASE loading \in code
    <3>0. PICK m \in Message : m = [kind |-> "read", value |-> loading]
      BY <1>1, MessageFacts, ZenonT(40) DEF TypeInv
    <3>1. m.kind = "read"
      BY <3>0, Zenon
    <3>2. child' = "state" /\ req' = IF Closed THEN req ELSE Append(req, m)
      BY <1>1, <2>2, <3>0 DEF Load, Send
    <3>3. Sent(m)'
      BY <3>1, <3>2, Zenon DEF Sent
    <3> QED
      BY <1>1, <2>1, <3>1, <3>2, <3>3, PipeSend
  <2>3. CASE loading \notin code
    BY <1>1, <2>1, <2>3, PipeQuiet, Zenon DEF Load
  <2> QED
    BY <2>2, <2>3
<1>2. ASSUME TypeInv, PipeInv, Receive
      PROVE  PipeInv'
  <2>1. child \in Awaits \ {"dir"} /\ rep # <<>> /\ rep' = Tail(rep) /\ child' = "run" /\ UNCHANGED <<node, req>>
    BY <1>2, Zenon DEF Receive
  <2>2. Len(rep) = 1
    BY <1>2, <2>1, PipeCases
  <2>3. rep' = <<>>
    BY <1>2, <2>1, <2>2, TakeOnly DEF TypeInv
  <2>4. node \in {"serve", "pid"} /\ Len(rep') = 0 /\ ~Closed' /\ Off' = Off
    BY <1>2, <2>1, <2>3, ZenonT(40) DEF PipeInv, Closed, Off
  <2>5. Len(req) <= Off + 1 /\ Len(req) # Off + 1 /\ (node = "pid" => req # <<>> /\ req[1].kind = "pid")
    BY <1>2, <2>1, Zenon DEF PipeInv
  <2>6. Len(req') <= Off' + 1 /\ Len(req') # Off' + 1 /\ (node' = "pid" => req' # <<>> /\ req'[1].kind = "pid")
    BY <2>1, <2>4, <2>5
  <2>7. node' \notin {"idle", "down"}
    BY <2>1, <2>4
  <2> QED
    BY <2>3, <2>4, <2>6, <2>7 DEF PipeInv
<1>3. ASSUME TypeInv, PipeInv, ReceiveNothing
      PROVE  PipeInv'
  <2>1. child # "none" /\ rep' = <<>> /\ UNCHANGED <<node, req>> /\ Closed
    BY <1>3, Zenon DEF ReceiveNothing, Awaits
  <2>2. req' = <<>> /\ node' \notin {"idle", "down", "pid"}
    BY <1>3, <2>1, Zenon DEF PipeInv, Closed
  <2> QED
    BY <2>1, <2>2, PipeEmpty, Zenon
<1>4. ASSUME TypeInv, PipeInv, Fork
      PROVE  PipeInv'
  <2>1. child = "dir" /\ rep # <<>> /\ rep' = Tail(rep) /\ node' = node /\ child' \in {"run", "exit1"}
    BY <1>4 DEF Fork
  <2>2. node = "pid" /\ req = <<>> /\ ~Closed /\ Len(rep) = 1
    BY <1>4, <2>1, PipeCases, Zenon DEF PipeInv, Closed
  <2>3. rep' = <<>> /\ Len(rep') = 0
    BY <1>4, <2>1, <2>2, TakeOnly DEF TypeInv
  <2>4. PICK n : req' = <<[kind |-> "pid", value |-> n]>>
    BY <1>4, <2>2 DEF Fork, Send
  <2>5. Len(req') = 1 /\ req' # <<>> /\ req'[1].kind = "pid"
    BY <2>4
  <2>6. Off' = 1 /\ ~Closed'
    BY <2>1, <2>2, <2>5 DEF Off, Closed
  <2> QED
    BY <2>1, <2>2, <2>3, <2>5, <2>6 DEF PipeInv
<1>5. ASSUME TypeInv, PipeInv, NEW kind \in {"mode", "txid", "dir", "client"},
             NEW value \in {Null, "getcontractdir", "other"}, Ask(kind, value)
      PROVE  PipeInv'
  <2> DEFINE m == [kind |-> kind, value |-> value]
  <2>1. value \in Address \cup {Null} \cup Word
    BY DEF Word
  <2>2. m \in Message /\ m.kind = kind
    BY <2>1, MessageFacts, Zenon
  <2>3. /\ child = "run" /\ child' = kind /\ UNCHANGED <<node, rep>>
        /\ req' = IF Closed THEN req ELSE Append(req, m)
    BY <1>5 DEF Ask, Calls, Send
  <2> HIDE DEF m
  <2>4. Sent(m)'
    BY <2>2, <2>3 DEF Sent
  <2> QED
    BY <1>5, <2>2, <2>3, <2>4, PipeSend, Zenon
<1>6. ASSUME TypeInv, PipeInv, NEW status \in {"exit0", "exit1"}, Return(status)
      PROVE  PipeInv'
  <2>1. child = "run" /\ UNCHANGED <<node, rep>>
    BY <1>6, Zenon DEF Return
  <2>2. CASE Len(stack) = 1
    <3>1. Top \in Frame
      BY <1>6, TopType
    <3>2. Top.state \in State
      BY <3>1 DEF Frame
    <3>0. PICK m \in Message : m = [kind |-> "write", value |-> Top.state]
      BY <3>2, MessageFacts, ZenonT(40)
    <3>3. m.kind = "write" /\ m.value = Top.state
      BY <3>0
    <3>4. child' = status /\ final' = Top.state /\ req' = IF Closed THEN req ELSE Append(req, m)
      BY <1>6, <2>2, <3>0, Zenon DEF Return, Send
    <3>5. Sent(m)'
      BY <3>3, <3>4 DEF Sent
    <3> QED
      BY <1>6, <2>1, <3>3, <3>4, <3>5, PipeSend, Zenon
  <2>3. CASE Len(stack) # 1
    BY <1>6, <2>1, <2>3, PipeQuiet DEF Return
  <2> QED
    BY <2>2, <2>3
<1>7. ASSUME TypeInv, PipeInv, Dies \/ (\E v \in Value \cup {Null} : StateWrite(v)) \/ (\E a \in Address : CallContract(a))
      PROVE  PipeInv'
  <2>1. child = "run" /\ UNCHANGED <<node, req, rep>>
    BY <1>7, Zenon DEF Dies, StateWrite, CallContract, Calls
  <2>2. node \notin {"idle", "down"}
    BY <1>7, <2>1, Zenon DEF PipeInv
  <2> QED
    BY <1>7, <2>1, <2>2, PipeQuiet
<1> QED
  BY <1>1, <1>2, <1>3, <1>4, <1>5, <1>6, <1>7 DEF Runtime

LEMMA PipeNext ==
    TypeInv /\ PipeInv /\ [Next]_vars => TypeInv' /\ PipeInv'
<1> USE DEF nodeVars, childVars
<1>1. ASSUME TypeInv, PipeInv, NEW a \in Address, ProcessNew(a) \/ ProcessCall(a) \/ CallPure(a)
      PROVE  PipeInv'
  <2>1. req' = <<>> /\ rep' = <<>> /\ node' = "serve"
    BY <1>1 DEF ProcessNew, ProcessCall, CallPure, Start
  <2> QED
    BY <2>1, PipeEmpty, Zenon
<1>2. ASSUME TypeInv, PipeInv, Backup \/ StopContractDaemon
      PROVE  PipeInv'
  <2>1. Closed /\ node' \in {"idle", "down"} /\ UNCHANGED <<req, rep, child>> /\ node = "idle"
    BY <1>2, Zenon DEF Backup, StopContractDaemon, Closed
  <2>2. req' = <<>> /\ rep' = <<>> /\ child' = "none"
    BY <1>2, <2>1 DEF PipeInv
  <2> QED
    BY <2>1, <2>2, PipeEmpty, Zenon
<1>3. ASSUME TypeInv, PipeInv, Serve
      PROVE  PipeInv'
  <2>1. CASE EndOfFile
    <3>1. Ended /\ req = <<>> /\ req' = req /\ rep' = rep /\ node' = "reap"
      BY <2>1, Zenon DEF EndOfFile
    <3>2. rep = <<>>
      BY <1>3, <3>1, PipeCases DEF Ended, Awaits
    <3> QED
      BY <3>1, <3>2, PipeEmpty, Zenon
  <2>2. CASE Reap
    <3>1. node = "reap" /\ req' = <<>> /\ rep' = rep /\ node' = "idle" /\ child' = "none"
      BY <2>2, Zenon DEF Reap, CallLeft
    <3>2. rep = <<>>
      BY <1>3, <3>1 DEF PipeInv, Closed
    <3> QED
      BY <3>1, <3>2, PipeEmpty
  <2> QED
    BY <1>3, <2>1, <2>2, PipeServe, PipePid DEF Serve
<1>4. ASSUME TypeInv, PipeInv, UNCHANGED vars \/ \E p \in daemons : DaemonCloses(p) \/ DaemonEnds(p)
      PROVE  PipeInv'
  <2>1. UNCHANGED <<node, req, rep, child, final>>
    BY <1>4, Zenon DEF vars, DaemonCloses, DaemonEnds
  <2> QED
    BY <1>4, <2>1, PipeQuiet, Zenon
<1>5. PipeInv => InReply
  BY DEF PipeInv, InReply
<1> QED
  BY <1>1, <1>2, <1>3, <1>4, <1>5, PipeRuntime, TypeNode, TypeRuntime DEF Next

LEMMA PipesInvariant == Spec => [](TypeInv /\ PipeInv)
<1>1. Init => TypeInv /\ PipeInv
  BY TypeInit, PipeInit
<1> QED
  BY <1>1, PipeNext, PTL DEF Spec

\* For any contracts the node and the runtime stay in step: a runtime that waits for a reply finds
\* one of that kind and no older one, and the node takes as a process id only what is one
\* (processing.cpp and libourcontract.cpp read the pipes without looking at what they read).
THEOREM PipesInStep == Spec => []InStep
<1>1. ASSUME TypeInv, PipeInv
      PROVE  InStep
  <2>1. Len(rep) <= 1 /\ (rep # <<>> => child = Head(rep).kind)
    BY <1>1, TailSeq, Zenon DEF TypeInv, PipeInv
  <2>2. ASSUME node = "pid"
        PROVE  child = "dir" \/ (req # <<>> /\ Head(req).kind = "pid")
    BY <1>1, <2>2, TailSeq DEF TypeInv, PipeInv
  <2>3. ASSUME node = "serve", req # <<>>
        PROVE  Head(req).kind # "pid"
    BY <1>1, <2>3, Serving DEF Sent
  <2> QED
    BY <2>1, <2>2, <2>3, Zenon DEF InStep
<1>2. TypeInv /\ PipeInv => InStep
  BY <1>1, Zenon
<1> QED
  BY <1>2, PipesInvariant, PTL

-----------------------------------------------------------------------------
(* The snapshot.                                                           *)

\* The final state is in the pipe.
Pending == req # <<>> /\ req[Len(req)].kind = "write"

\* There is a final state only once the base contract has returned; a real call stores it when it
\* is taken out of the pipe, which is before the node leaves the loop.
DbInv ==
    /\ mode = "pure" => db = before
    /\ mode = "real" /\ node = "reap" => Ended
    /\ final \in State \cup {Absent}
    /\ ~Ended \/ child \in {"none", "killed"} => final = Absent
    /\ mode = "real" /\ final = Absent => db = before
    /\ mode = "real" /\ final # Absent /\ Pending => db = before
    /\ mode = "real" /\ final # Absent /\ ~Pending => db = [before EXCEPT ![target] = final]
    /\ output = Null \/ (output = final /\ final # Absent)

\* Steps that neither write a state nor take one out of the pipe.
LEMMA DbQuiet ==
    ASSUME DbInv, UNCHANGED <<db, before, target, mode, output, final>>,
           final # Absent => (Pending' <=> Pending),
           mode = "real" /\ node' = "reap" => Ended',
           final = Absent \/ (Ended' /\ child' \notin {"none", "killed"})
    PROVE  DbInv'
BY DEF DbInv

\* Steps of a runtime that has not ended, but for the return of the base contract.
LEMMA DbRunning ==
    ASSUME DbInv, ~Ended, node' = node, UNCHANGED <<db, before, target, mode, output, final>>
    PROVE  DbInv'
<1>1. final = Absent /\ ~(mode = "real" /\ node' = "reap")
  BY DEF DbInv
<1> QED
  BY <1>1, DbQuiet

LEMMA DbReturn ==
    ASSUME TypeInv, PipeInv, DbInv, NEW status \in {"exit0", "exit1"}, Return(status)
    PROVE  DbInv'
<1> USE DEF nodeVars
<1>1. child = "run" /\ ~Ended /\ node' = node /\ UNCHANGED <<db, before, target, mode, output>>
  BY DEF Return, Ended
<1>2. CASE Len(stack) # 1
  BY <1>1, <1>2, DbRunning, Zenon DEF Return
<1>3. CASE Len(stack) = 1
  <2>1. Top.state \in State
    BY TopType DEF Frame
  <2>2. final' = Top.state /\ child' = status /\ Send("write", Top.state)
    BY <1>3, Zenon DEF Return
  <2>3. final = Absent /\ output = Null /\ db = before /\ final' # Absent
    BY <1>1, <2>1, <2>2, AbsentAssumption, Zenon DEF DbInv, TypeInv, State
  <2>4. ASSUME mode = "real"
        PROVE  Pending'
    <3>1. node \notin {"idle", "down", "reap"}
      BY <1>1, <2>4, Zenon DEF PipeInv, DbInv
    <3>2. ~Closed
      BY <3>1 DEF TypeInv, Closed
    <3>3. [kind |-> "write", value |-> Top.state] \in Message
      BY <2>1, MessageFacts, ZenonT(40)
    <3>4. req' = Append(req, [kind |-> "write", value |-> Top.state])
      BY <2>2, <3>2, Zenon DEF Send
    <3>5. req' # <<>> /\ req'[Len(req')] = [kind |-> "write", value |-> Top.state]
      BY <3>3, <3>4, AppendSeq DEF TypeInv
    <3> QED
      BY <3>5 DEF Pending
  <2>5. Ended' /\ child' \notin {"none", "killed"}
    BY <2>2 DEF Ended
  <2> QED
    BY <1>1, <2>1, <2>2, <2>3, <2>4, <2>5 DEF DbInv
<1> QED
  BY <1>2, <1>3

LEMMA DbRuntime ==
    TypeInv /\ PipeInv /\ DbInv /\ Runtime => DbInv'
<1> USE DEF nodeVars, childVars
<1>1. ASSUME DbInv, Load \/ Receive \/ ReceiveNothing \/ Fork
      PROVE  DbInv'
  <2>1. ~Ended /\ node' = node /\ UNCHANGED <<db, before, target, mode, output, final>>
    BY <1>1 DEF Load, Receive, ReceiveNothing, Fork, Ended, Awaits
  <2> QED
    BY <1>1, <2>1, DbRunning, Zenon
<1>2. ASSUME DbInv, NEW v, StateWrite(v) \/ CallContract(v) \/ Dies
      PROVE  DbInv'
  <2>1. ~Ended /\ node' = node /\ UNCHANGED <<db, before, target, mode, output, final>>
    BY <1>2, Zenon DEF StateWrite, CallContract, Dies, Calls, Ended
  <2> QED
    BY <1>2, <2>1, DbRunning
<1>3. ASSUME DbInv, NEW kind, NEW value, Ask(kind, value)
      PROVE  DbInv'
  <2>1. ~Ended /\ node' = node /\ UNCHANGED <<db, before, target, mode, output, final>>
    BY <1>3, Zenon DEF Ask, Calls, Ended
  <2> QED
    BY <1>3, <2>1, DbRunning, Zenon
<1> QED
  BY <1>1, <1>2, <1>3, DbReturn, Zenon DEF Runtime

LEMMA DbServe ==
    TypeInv /\ PipeInv /\ DbInv /\ Serve => DbInv'
<1> USE DEF nodeVars, childVars
<1>1. ASSUME TypeInv, PipeInv, DbInv, ServeRead \/ ServeQuestion \/ ServeDaemon, UNCHANGED <<child, before, final, output>>
      PROVE  DbInv'
  <2>1. /\ node = "serve" /\ req # <<>> /\ Head(req).kind \in {"read", "mode", "txid", "dir", "client"}
        /\ UNCHANGED <<db, target, mode>> /\ (mode = "real" => node' # "reap")
    BY <1>1 DEF ServeRead, ServeQuestion, ServeDaemon
  <2>2. Sent(Head(req))
    BY <1>1, <2>1, Serving
  <2>3. ~Ended
    BY <2>1, <2>2 DEF Sent, Ended
  <2>4. final = Absent
    BY <1>1, <2>3, Zenon DEF DbInv
  <2> QED
    BY <1>1, <2>1, <2>4, DbQuiet, Zenon
<1>2. ASSUME TypeInv, DbInv, Reap \/ ServeRead, node' = "idle", child' = "none", CallLeft
      PROVE  DbInv'
  <2>1. db' = db /\ node' = "idle" /\ Ended' /\ before' = db' /\ final' = Absent /\ output' = Null
    BY <1>2, ZenonT(40) DEF Reap, ServeRead, CallLeft, Ended
  <2> QED
    BY <1>2, <2>1 DEF DbInv
<1>3. ASSUME TypeInv, PipeInv, DbInv, ServeRead
      PROVE  DbInv'
  <2>1. (node' = "idle" /\ child' = "none" /\ CallLeft) \/ UNCHANGED <<child, before, final, output>>
    BY <1>3, Zenon DEF ServeRead
  <2> QED
    BY <1>1, <1>2, <1>3, <2>1, SMTT(40)
<1>4. ASSUME TypeInv, PipeInv, DbInv, ServeQuestion \/ ServeDaemon
      PROVE  DbInv'
  <2>1. UNCHANGED <<child, before, final, output>>
    BY <1>4, Zenon DEF ServeQuestion, ServeDaemon
  <2> QED
    BY <1>1, <1>4, <2>1, Zenon
<1>5. ASSUME TypeInv, PipeInv, DbInv, ServeWrite
      PROVE  DbInv'
  <2>1. node = "serve" /\ req # <<>> /\ Head(req).kind = "write"
    BY <1>5 DEF ServeWrite
  <2>2. Sent(Head(req)) /\ Head(req) \in Message /\ Tail(req) = <<>>
    BY <1>5, <2>1, Serving, Zenon
  <2>3. Head(req).value = final /\ child \in {"exit0", "exit1"} /\ final \in State
    BY <2>1, <2>2 DEF Sent, Message
  <2>4. final # Absent
    BY <2>3, AbsentAssumption DEF State
  <2>5. Pending /\ ~Pending'
    <3>1. Len(req) = 1 /\ req[1] = Head(req)
      BY <1>5, <2>1, PipeCases, TailSeq, Zenon DEF TypeInv
    <3>2. req' = <<>>
      BY <1>5, <2>2 DEF ServeWrite
    <3> QED
      BY <2>1, <3>1, <3>2, Zenon DEF Pending
  <2>6. UNCHANGED <<before, target, mode, final, child, node>> /\ Store(final)
    BY <1>5, <2>3 DEF ServeWrite
  <2>7. Ended' /\ child' \notin {"none", "killed"}
    BY <2>3, <2>6, Zenon DEF Ended
  <2>8. CASE mode = "real"
    <3>1. db = before /\ db' = [before EXCEPT ![target] = final] /\ output' = output
      BY <1>5, <2>4, <2>5, <2>6, <2>8, Zenon DEF Store, DbInv
    <3> QED
      BY <1>5, <2>4, <2>5, <2>6, <2>7, <2>8, <3>1, Zenon DEF DbInv
  <2>9. CASE mode = "pure"
    <3>1. db' = db /\ db = before /\ output' = final
      BY <1>5, <2>6, <2>9 DEF Store, DbInv
    <3> QED
      BY <1>5, <2>4, <2>6, <2>7, <2>9, <3>1, Zenon DEF DbInv
  <2> QED
    BY <1>5, <2>8, <2>9, Zenon DEF TypeInv
<1>6. ASSUME TypeInv, PipeInv, DbInv, ServePid
      PROVE  DbInv'
  <2>1. node = "pid" /\ req # <<>> /\ req' = Tail(req) /\ node' = "serve" /\ UNCHANGED <<db, before, target, mode, output, final, child>>
    BY <1>6, Zenon DEF ServePid
  <2>2. req[1].kind = "pid"
    BY <1>6, <2>1, Zenon DEF PipeInv
  <2>3. CASE Len(req) = 1
    <3>1. req' = <<>>
      BY <1>6, <2>1, <2>3, TakeOnly DEF TypeInv
    <3> QED
      BY <2>2, <2>3, <3>1, <2>1, <1>6, DbQuiet, Zenon DEF Pending, DbInv, Ended
  <2>4. CASE Len(req) # 1
    <3>1. Len(req) = 2
      BY <1>6, <2>1, <2>4, PipeCases, ZenonT(40)
    <3>0. Len(req') = Len(req) - 1 /\ \A k \in 1..(Len(req) - 1) : req'[k] = req[k + 1]
      BY <1>6, <2>1, TailSeq DEF TypeInv
    <3>2. Len(req') = 1 /\ req'[1] = req[2]
      BY <3>0, <3>1
    <3>3. req' # <<>>
      BY <3>2
    <3>4. Pending' <=> Pending
      BY <2>1, <3>1, <3>2, <3>3, ZenonT(40) DEF Pending
    <3> QED
      BY <2>1, <3>4, <1>6, DbQuiet DEF DbInv, Ended
  <2> QED
    BY <2>3, <2>4, Zenon
<1>7. ASSUME TypeInv, PipeInv, DbInv, EndOfFile
      PROVE  DbInv'
  <2>1. Ended /\ UNCHANGED <<db, before, target, mode, output, final, child, req>>
    BY <1>7, Zenon DEF EndOfFile
  <2>2. (Pending' <=> Pending) /\ Ended'
    BY <2>1, Zenon DEF Pending, Ended
  <2> QED
    BY <1>7, <2>1, <2>2, DbQuiet, Zenon DEF DbInv
<1>8. ASSUME TypeInv, DbInv, Reap
      PROVE  DbInv'
  BY <1>2, <1>8, Zenon DEF Reap
<1> QED
  BY <1>3, <1>4, <1>5, <1>6, <1>7, <1>8, Zenon DEF Serve

LEMMA DbNext ==
    TypeInv /\ PipeInv /\ DbInv /\ [Next]_vars => DbInv'
<1> USE DEF nodeVars, childVars
<1>1. ASSUME DbInv, NEW a, ProcessNew(a) \/ ProcessCall(a) \/ CallPure(a)
      PROVE  DbInv'
  <2>1. /\ db' = db /\ before' = db /\ final' = Absent /\ output' = Null
        /\ node' = "serve" /\ child' = "load"
    BY <1>1, Zenon DEF ProcessNew, ProcessCall, CallPure, Start
  <2> QED
    BY <2>1, Zenon DEF DbInv
<1>2. ASSUME DbInv, \/ Backup \/ StopContractDaemon \/ UNCHANGED vars
                    \/ \E p \in daemons : DaemonCloses(p) \/ DaemonEnds(p)
      PROVE  DbInv'
  <2>1. UNCHANGED <<db, before, target, mode, output, final, child, req>> /\ (node' = node \/ node' = "down")
    BY <1>2 DEF Backup, StopContractDaemon, vars, DaemonCloses, DaemonEnds
  <2>2. (Pending' <=> Pending) /\ (Ended' <=> Ended)
    BY <2>1 DEF Pending, Ended
  <2> QED
    BY <1>2, <2>1, <2>2, DbQuiet, Zenon DEF DbInv
<1> QED
  BY <1>1, <1>2, DbRuntime, DbServe, Zenon DEF Next

LEMMA DbInvariant == Spec => [](TypeInv /\ PipeInv /\ DbInv)
<1>1. Init => TypeInv /\ PipeInv /\ DbInv
  <2>1. Init => DbInv
    BY DEF Init, DbInv, Ended
  <2> QED
    BY <2>1, TypeInit, PipeInit, Zenon
<1>2. TypeInv /\ PipeInv /\ DbInv /\ [Next]_vars => (TypeInv /\ PipeInv /\ DbInv)'
  BY PipeNext, DbNext
<1> QED
  BY <1>1, <1>2, PTL DEF Spec

\* A call of any contracts is all or nothing (call_rt stores a state only for BYTE_WRITE_STATE, and
\* the runtime sends that only for the base contract, when it has returned).
THEOREM CallsAreAtomic == Spec => []CallIsAtomic
<1>1. ASSUME TypeInv, PipeInv, DbInv
      PROVE  CallIsAtomic
  <2>1. node = "reap" => ~Pending
    BY <1>1, Zenon DEF PipeInv, Closed, Pending
  <2>2. mode = "real" => db \in {before, Committed}
    BY <1>1, Zenon DEF DbInv, Committed
  <2>3. mode = "real" /\ ~Ended => db = before
    BY <1>1, Zenon DEF DbInv
  <2>4. mode = "real" /\ node = "reap" => db = Committed
    BY <1>1, <2>1, Zenon DEF DbInv, Committed
  <2>5. mode = "pure" => db = before
    BY <1>1 DEF DbInv
  <2> QED
    BY <2>2, <2>3, <2>4, <2>5, Zenon DEF CallIsAtomic
<1>2. TypeInv /\ PipeInv /\ DbInv => CallIsAtomic
  BY <1>1, Zenon
<1> QED
  BY <1>2, DbInvariant, PTL

\* A pure call answers with the final state of a contract that returned with status 0, or with
\* nothing (call_rt_pure, after waitpid).
THEOREM AnswersAreFinal == Spec => AnswerIsFinal
<1> DEFINE A == mode = "pure" /\ node = "reap" /\ node' = "idle" /\ answer' # Null => child = "exit0" /\ answer' = final
<1>1. ASSUME DbInv, Next, mode = "pure", node = "reap", node' = "idle", answer' # Null
      PROVE  child = "exit0" /\ answer' = final
  <2>1. Reap
    BY <1>1 DEF Next, ProcessNew, ProcessCall, CallPure, Backup, StopContractDaemon, Serve, ServeRead, ServeWrite,
                ServeQuestion, ServeDaemon, ServePid, EndOfFile, Runtime, Load, Receive, ReceiveNothing, Fork,
                StateWrite, Ask, CallContract, Return, Dies, DaemonCloses, DaemonEnds, Start
  <2> QED
    BY <1>1, <2>1 DEF Reap, DbInv
<1>2. DbInv /\ [Next]_vars => [A]_vars
  BY <1>1
<1>3. [][A]_vars => AnswerIsFinal
  BY PTL DEF AnswerIsFinal
<1> QED
  BY <1>2, <1>3, DbInvariant, PTL DEF Spec

-----------------------------------------------------------------------------
(* The daemons.                                                            *)

\* What the node has read as process ids.
Payload == Address \cup State \cup {Absent} \cup Int \cup Word

\* The process id that is under way to the node.
PidSent == IF node = "pid" /\ req # <<>> THEN {req[1].value} ELSE {}

\* A daemon whose process id is not in cont_daemon_q is the one of which the node reads the id next.
DaemonInv ==
    /\ queue \in Seq(Payload)
    /\ daemons \subseteq Range(queue) \cup PidSent
    /\ node = "down" => daemons = {}

\* Steps that start no daemon and read no process id.
LEMMA DaemonQuiet ==
    ASSUME DaemonInv, queue' = queue, daemons' \subseteq daemons, PidSent \subseteq PidSent',
           node' = "down" => node = "down"
    PROVE  DaemonInv'
BY DEF DaemonInv

\* A process id that is under way stays first in the pipe.
LEMMA PidStays ==
    ASSUME TypeInv, node' = node, NEW m \in Message, req' = req \/ req' = Append(req, m)
    PROVE  PidSent \subseteq PidSent'
<1>1. CASE req' = req
  BY <1>1 DEF PidSent
<1>2. CASE req' = Append(req, m) /\ req # <<>>
  <2>1. Len(req) \in Nat /\ Len(req) # 0
    BY <1>2, EmptySeq DEF TypeInv
  <2>2. 1 \in 1..Len(req)
    BY <2>1
  <2>3. req' # <<>> /\ req'[1] = req[1]
    BY <1>2, <2>2, AppendSeq DEF TypeInv
  <2> QED
    BY <2>3, Zenon DEF PidSent
<1>3. CASE req = <<>>
  BY <1>3, Zenon DEF PidSent
<1> QED
  BY <1>1, <1>2, <1>3, Zenon

LEMMA DaemonFork ==
    ASSUME TypeInv, PipeInv, DaemonInv, Fork
    PROVE  DaemonInv'
<1>1. child = "dir" /\ rep # <<>> /\ node' = node /\ queue' = queue
  BY Zenon DEF Fork, nodeVars
<1>2. node = "pid" /\ req = <<>> /\ ~Closed
  BY <1>1, Zenon DEF PipeInv, Closed
<1>3. daemons \subseteq Range(queue)
  BY <1>2, Zenon DEF DaemonInv, PidSent
<1>4. CASE daemons' = daemons
  BY <1>1, <1>2, <1>3, <1>4, Zenon DEF DaemonInv
<1>5. CASE daemons' = daemons \cup {Len(queue) + 1} /\ Send("pid", Len(queue) + 1)
  <2>1. req' = <<[kind |-> "pid", value |-> Len(queue) + 1]>>
    BY <1>2, <1>5 DEF Send
  <2>2. req' # <<>> /\ req'[1].value = Len(queue) + 1
    BY <2>1, Zenon
  <2>3. PidSent' = {Len(queue) + 1}
    BY <1>1, <1>2, <2>2, Zenon DEF PidSent
  <2> QED
    BY <1>1, <1>2, <1>3, <1>5, <2>3, Zenon DEF DaemonInv
<1> QED
  BY <1>4, <1>5, Zenon DEF Fork

LEMMA DaemonServePid ==
    ASSUME TypeInv, PipeInv, DaemonInv, ServePid
    PROVE  DaemonInv'
<1>1. /\ node = "pid" /\ req # <<>> /\ node' = "serve" /\ daemons' = daemons
      /\ queue' = Append(queue, Head(req).value)
  BY Zenon DEF ServePid, childVars
<1>2. Head(req) \in Message /\ Head(req) = req[1]
  BY <1>1, TailSeq, Zenon DEF TypeInv
<1>3. Head(req).value \in Payload
  BY <1>2 DEF Message, Payload
<1>4. PidSent = {Head(req).value}
  BY <1>1, <1>2, Zenon DEF PidSent
<1>5. queue' \in Seq(Payload) /\ Range(queue') = Range(queue) \cup {Head(req).value}
  BY <1>1, <1>3, AppendSeq, RangeAppend DEF DaemonInv
<1> QED
  BY <1>1, <1>4, <1>5, Zenon DEF DaemonInv

LEMMA DaemonNext ==
    TypeInv /\ PipeInv /\ DaemonInv /\ [Next]_vars => DaemonInv'
<1> USE DEF nodeVars, childVars
<1>1. ASSUME DaemonInv, NEW a, ProcessNew(a) \/ ProcessCall(a) \/ CallPure(a) \/ Backup
      PROVE  DaemonInv'
  <2>1. node = "idle" /\ node' # "down" /\ UNCHANGED <<queue, daemons>>
    BY <1>1 DEF ProcessNew, ProcessCall, CallPure, Backup, Start
  <2>2. PidSent = {}
    BY <2>1 DEF PidSent
  <2> QED
    BY <1>1, <2>1, <2>2, DaemonQuiet, Zenon
<1>2. ASSUME DaemonInv, StopContractDaemon
      PROVE  DaemonInv'
  <2>1. node = "idle" /\ queue' = <<>> /\ daemons' \subseteq daemons \ Range(queue)
    BY <1>2 DEF StopContractDaemon
  <2>2. PidSent = {}
    BY <2>1, Zenon DEF PidSent
  <2>3. daemons' = {}
    BY <1>2, <2>1, <2>2 DEF DaemonInv
  <2>4. queue' \in Seq(Payload)
    BY <2>1, EmptySeq, Zenon
  <2> QED
    BY <2>3, <2>4, Zenon DEF DaemonInv
<1>3. ASSUME DaemonInv, ServeRead \/ ServeWrite \/ ServeQuestion \/ ServeDaemon \/ EndOfFile \/ Reap
      PROVE  DaemonInv'
  <2>1. node # "pid" /\ node' # "down" /\ UNCHANGED <<queue, daemons>>
    BY <1>3 DEF ServeRead, ServeWrite, ServeQuestion, ServeDaemon, EndOfFile, Reap
  <2>2. PidSent = {}
    BY <2>1, Zenon DEF PidSent
  <2> QED
    BY <1>3, <2>1, <2>2, DaemonQuiet, SMTT(40)
<1>4. ASSUME TypeInv, DaemonInv, UNCHANGED <<node, queue, daemons>>,
             NEW kind, NEW value, [kind |-> kind, value |-> value] \in Message, req' = req \/ Send(kind, value)
      PROVE  DaemonInv'
  <2>1. req' = req \/ req' = Append(req, [kind |-> kind, value |-> value])
    BY <1>4, Zenon DEF Send
  <2>2. PidSent \subseteq PidSent'
    BY <1>4, <2>1, PidStays, Zenon
  <2> QED
    BY <1>4, <2>2, DaemonQuiet, Zenon
<1>5. ASSUME TypeInv, DaemonInv, Load
      PROVE  DaemonInv'
  <2>1. UNCHANGED <<node, queue, daemons>> /\ (req' = req \/ Send("read", loading))
    BY <1>5, Zenon DEF Load
  <2>2. [kind |-> "read", value |-> loading] \in Message
    BY <1>5, MessageFacts, Zenon DEF TypeInv
  <2> QED
    BY <1>4, <1>5, <2>1, <2>2, Zenon
<1>6. ASSUME TypeInv, DaemonInv, NEW kind \in {"mode", "txid", "dir", "client"},
             NEW value \in {Null, "getcontractdir", "other"}, Ask(kind, value)
      PROVE  DaemonInv'
  <2>1. UNCHANGED <<node, queue, daemons>> /\ Send(kind, value)
    BY <1>6, Zenon DEF Ask
  <2>2. value \in Address \cup {Null} \cup Word
    BY DEF Word
  <2>3. [kind |-> kind, value |-> value] \in Message
    BY <2>2, MessageFacts
  <2> QED
    BY <1>4, <1>6, <2>1, <2>3, Zenon
<1>7. ASSUME TypeInv, DaemonInv, NEW status, Return(status)
      PROVE  DaemonInv'
  <2>1. UNCHANGED <<node, queue, daemons>> /\ (req' = req \/ Send("write", Top.state))
    BY <1>7 DEF Return
  <2>2. Top.state \in State
    BY <1>7, TopType DEF Frame
  <2>3. [kind |-> "write", value |-> Top.state] \in Message
    BY <2>2, MessageFacts, ZenonT(40)
  <2> QED
    BY <1>4, <1>7, <2>1, <2>3
<1>8. ASSUME DaemonInv, NEW v, \/ Receive \/ ReceiveNothing \/ StateWrite(v) \/ CallContract(v) \/ Dies
                               \/ DaemonCloses(v) \/ DaemonEnds(v) \/ UNCHANGED vars
      PROVE  DaemonInv'
  <2>1. UNCHANGED <<node, queue, req>> /\ daemons' \subseteq daemons
    BY <1>8, Zenon DEF Receive, ReceiveNothing, StateWrite, CallContract, Dies, DaemonCloses, DaemonEnds, vars
  <2>2. PidSent' = PidSent
    BY <2>1, Zenon DEF PidSent
  <2> QED
    BY <1>8, <2>1, <2>2, DaemonQuiet, Zenon
<1>9. TypeInv /\ PipeInv /\ DaemonInv /\ Runtime => DaemonInv'
  BY <1>5, <1>6, <1>7, <1>8, DaemonFork DEF Runtime
<1>10. TypeInv /\ PipeInv /\ DaemonInv /\ Serve => DaemonInv'
  BY <1>3, DaemonServePid DEF Serve
<1> QED
  BY <1>1, <1>2, <1>8, <1>9, <1>10, Zenon DEF Next

\* Whatever daemons contracts start, and however the starting contract ends, the node knows all of
\* them between calls, and none is left after StopContractDaemon.
THEOREM NoDaemonIsLost == Spec => []DaemonsAreKnown
<1>1. Init => TypeInv /\ PipeInv /\ DaemonInv
  <2>1. Init => DaemonInv
    BY EmptySeq DEF Init, DaemonInv
  <2> QED
    BY <2>1, TypeInit, PipeInit
<1>2. TypeInv /\ PipeInv /\ DaemonInv /\ [Next]_vars => (TypeInv /\ PipeInv /\ DaemonInv)'
  BY PipeNext, DaemonNext
<1>3. DaemonInv => DaemonsAreKnown
  BY DEF DaemonInv, DaemonsAreKnown, PidSent
<1> QED
  BY <1>1, <1>2, <1>3, PTL DEF Spec
=============================================================================
