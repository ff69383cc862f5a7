----------------------------- MODULE CheckQueue -----------------------------
(***************************************************************************)
(* The queue on which ConnectBlock has its script checks verified          *)
(* (checkqueue.h): workers that sleep on condWorker, and a master that     *)
(* adds checks, then joins the workers until all are done and sleeps on    *)
(* condMaster meanwhile.  One action is one critical section of `mutex',   *)
(* or the work between two of them.  A check is its verdict.               *)
(*                                                                         *)
(* Shutdown interrupts the threads of init's thread group: the workers and *)
(* ThreadImport, which is a master too.  A thread is interrupted in        *)
(* cond.wait, and the exception leaves Loop between nIdle++ and nIdle--.   *)
(* (fQuit is never set, so no worker leaves Loop by returning.)            *)
(***************************************************************************)
EXTENDS Naturals, Sequences, FiniteSetsExt

CONSTANTS
    Workers, Masters,
    Group,       \* the threads that shutdown interrupts: the workers and some masters
    nBatchSize,
    Batches,     \* what one call of Add may bring: sequences of verdicts
    MaxChecks    \* bound: how many checks are added under one control

Threads == Workers \cup Masters

ASSUME QueueAssumption ==
    /\ IsFiniteSet(Threads) /\ "none" \notin Threads
    /\ Workers \cap Masters = {}
    /\ Workers \subseteq Group /\ Group \subseteq Threads
    /\ nBatchSize \in Nat \ {0} /\ MaxChecks \in Nat
    /\ Batches \subseteq Seq(BOOLEAN) \ {<<>>}  \* adding nothing changes nothing

VARIABLES
    queue,        \* the verdicts of the checks that no thread has taken
    nIdle, nTotal, nTodo, fAllOk,
    pc,           \* "away", "adding", "enter", "wait", "woken", "work", "again", "done" or "gone"
    vChecks,      \* the batch a thread has taken
    nNow,         \* its size, for the cleanup in the next critical section
    fOk,
    control,      \* the master that holds ControlMutex, or "none"
    added,        \* the verdicts of all checks added under this control
    result,       \* what Wait returned to it: <<>> or one Boolean
    shutdown,     \* whether shutdown has interrupted the thread group
    interrupted   \* the threads with a pending interruption

vars == <<queue, nIdle, nTotal, nTodo, fAllOk, pc, vChecks, nNow, fOk, control, added, result, shutdown, interrupted>>
stop == <<shutdown, interrupted>>
shared == <<queue, nIdle, nTotal, nTodo, fAllOk>>
locals == <<vChecks, nNow, fOk>>
client == <<control, added, result>>

Init ==
    /\ queue = <<>>
    /\ nIdle = 0 /\ nTotal = 0 /\ nTodo = 0 /\ fAllOk = TRUE
    /\ pc = [t \in Threads |-> IF t \in Workers THEN "enter" ELSE "away"]
    /\ vChecks = [t \in Threads |-> <<>>]
    /\ nNow = [t \in Threads |-> 0]
    /\ fOk = [t \in Threads |-> TRUE]
    /\ control = "none" /\ added = <<>> /\ result = <<>>
    /\ shutdown = FALSE /\ interrupted = {}

\* The threads that wait on a condition variable.
Waiting(S) == {t \in S : pc[t] = "wait"}

\* Whom notify_one and notify_all may wake, if those of S wait on the condition variable.
NotifyOne(S) == IF Waiting(S) = {} THEN {{}} ELSE {{u} : u \in Waiting(S)}
NotifyAll(S) == {Waiting(S)}
NotifyNone == {{}}

\* Thread t goes to `to', and the threads of W are woken.
Goto(t, to, W) == pc' = [u \in Threads |-> IF u = t THEN to ELSE IF u \in W THEN "woken" ELSE pc[u]]

-----------------------------------------------------------------------------
\* CCheckQueueControl, and what its owner does with it.

Control(m) ==
    /\ pc[m] = "away"
    /\ control = "none"
    /\ control' = m
    /\ Goto(m, "adding", {})
    /\ added' = <<>> /\ result' = <<>>
    /\ UNCHANGED <<shared, locals, stop>>

Add(m, checks) ==
    /\ pc[m] = "adding"
    /\ Len(added) + Len(checks) <= MaxChecks
    /\ queue' = queue \o checks
    /\ nTodo' = nTodo + Len(checks)
    /\ added' = added \o checks
    /\ \E W \in IF Len(checks) = 1 THEN NotifyOne(Workers) ELSE NotifyAll(Workers) : Goto(m, "adding", W)
    /\ UNCHANGED <<nIdle, nTotal, fAllOk, locals, control, result, stop>>

\* Wait, by the owner or, if it returns early, by the destructor.
Wait(m) ==
    /\ pc[m] = "adding"
    /\ Goto(m, "enter", {})
    /\ nNow' = [nNow EXCEPT ![m] = 0]
    /\ UNCHANGED <<shared, vChecks, fOk, client, stop>>

\* The end of the destructor.
Leave(m) ==
    /\ pc[m] = "done"
    /\ control' = "none"
    /\ Goto(m, "away", {})
    /\ added' = <<>> /\ result' = <<>>
    /\ UNCHANGED <<shared, locals, stop>>
-----------------------------------------------------------------------------
\* Loop.

BatchSize(queued, total, idle) == Max({1, Min({nBatchSize, queued \div (total + idle + 1)})})

\* The first part of the critical section ends with the queue empty or not; total, idle, todo and
\* ok are the values of the counters by then, and W are the threads that t has notified.
GoOn(t, total, idle, todo, ok, W) ==
    \/ /\ queue = <<>> /\ t \in Masters /\ todo = 0
       /\ nTotal' = total - 1 /\ nIdle' = idle
       /\ result' = <<ok>>
       /\ fAllOk' = TRUE
       /\ Goto(t, "done", W)
       /\ nNow' = [nNow EXCEPT ![t] = 0]
       /\ UNCHANGED <<queue, vChecks, fOk>>
    \/ /\ queue = <<>> /\ ~(t \in Masters /\ todo = 0)
       /\ nIdle' = idle + 1 /\ nTotal' = total
       /\ fAllOk' = ok
       /\ Goto(t, "wait", W)
       /\ nNow' = [nNow EXCEPT ![t] = 0]
       /\ UNCHANGED <<queue, vChecks, fOk, result>>
    \/ /\ queue # <<>>
       /\ LET n == BatchSize(Len(queue), total, idle) IN
          /\ nNow' = [nNow EXCEPT ![t] = n]
          /\ vChecks' = [vChecks EXCEPT ![t] = SubSeq(queue, Len(queue) - n + 1, Len(queue))]
          /\ queue' = SubSeq(queue, 1, Len(queue) - n)
       /\ fOk' = [fOk EXCEPT ![t] = ok]
       /\ nTotal' = total /\ nIdle' = idle
       /\ fAllOk' = ok
       /\ Goto(t, "work", W)
       /\ UNCHANGED result

\* The first iteration.
Enter(t) ==
    /\ pc[t] = "enter"
    /\ GoOn(t, nTotal + 1, nIdle, nTodo, fAllOk, {})
    /\ UNCHANGED <<nTodo, control, added, stop>>

\* A later one: the cleanup of the batch before, which wakes the master after the last check.
WakeAfterLast(t, todo) == IF todo = 0 /\ t \notin Masters THEN NotifyOne(Masters) ELSE NotifyNone
AgainOneDone(t) ==
    /\ pc[t] = "again"
    /\ nTodo' = nTodo - 1
    /\ \E W \in WakeAfterLast(t, nTodo') : GoOn(t, nTotal, nIdle, nTodo', fAllOk /\ fOk[t], W)
    /\ UNCHANGED <<control, added, stop>>
AgainOwnVerdict(t) ==
    /\ pc[t] = "again"
    /\ nTodo' = nTodo - nNow[t]
    /\ \E W \in WakeAfterLast(t, nTodo') : GoOn(t, nTotal, nIdle, nTodo', fOk[t], W)
    /\ UNCHANGED <<control, added, stop>>
AgainSilent(t) ==
    /\ pc[t] = "again"
    /\ nTodo' = nTodo - nNow[t]
    /\ GoOn(t, nTotal, nIdle, nTodo', fAllOk /\ fOk[t], {})
    /\ UNCHANGED <<control, added, stop>>
Again(t) ==
    /\ pc[t] = "again"
    /\ nTodo' = nTodo - nNow[t]
    /\ \E W \in WakeAfterLast(t, nTodo') : GoOn(t, nTotal, nIdle, nTodo', fAllOk /\ fOk[t], W)
    /\ UNCHANGED <<control, added, stop>>

\* cond.wait returns.
Resume(t) ==
    /\ pc[t] = "woken" /\ t \notin interrupted
    /\ GoOn(t, nTotal, nIdle - 1, nTodo, fAllOk, {})
    /\ UNCHANGED <<nTodo, control, added, stop>>

Good(checks) == \A k \in DOMAIN checks : checks[k]

\* The checks of the batch, none of them once one has failed.
Execute(t) ==
    /\ pc[t] = "work"
    /\ fOk' = [fOk EXCEPT ![t] = fOk[t] /\ Good(vChecks[t])]
    /\ vChecks' = [vChecks EXCEPT ![t] = <<>>]
    /\ Goto(t, "again", {})
    /\ UNCHANGED <<shared, nNow, client, stop>>

\* A condition variable may wake a thread that nobody notified.
Spurious(t) ==
    /\ pc[t] = "wait"
    /\ Goto(t, "woken", {})
    /\ UNCHANGED <<shared, locals, client, stop>>

\* interrupt_all at shutdown.
Interrupt ==
    /\ ~shutdown
    /\ shutdown' = TRUE
    /\ interrupted' = Group
    /\ UNCHANGED <<shared, pc, locals, client>>

\* cond.wait throws.  That ends a worker; a master's destructor calls Wait again.
Interrupted(t) ==
    /\ pc[t] \in {"wait", "woken"} /\ t \in interrupted
    /\ interrupted' = interrupted \ {t}
    /\ Goto(t, IF t \in Masters THEN "enter" ELSE "gone", {})
    /\ UNCHANGED <<shared, locals, client, shutdown>>

Run(t) == Enter(t) \/ Again(t) \/ Resume(t) \/ Execute(t) \/ Interrupted(t)

Next ==
    \/ \E m \in Masters :
        \/ Control(m) \/ Wait(m) \/ Leave(m)
        \/ \E checks \in Batches : Add(m, checks)
    \/ \E t \in Threads : Run(t) \/ Spurious(t)
    \/ Interrupt

Spec == Init /\ [][Next]_vars

\* Every thread that can run in Loop does, and the owner of a control gets to its end.
FairSpec ==
    /\ Spec
    /\ \A t \in Threads : WF_vars(Run(t))
    /\ \A m \in Masters : WF_vars(Wait(m)) /\ WF_vars(Leave(m))
-----------------------------------------------------------------------------
(***************************************************************************)
(* Properties                                                              *)
(***************************************************************************)
\* Wait tells the owner of a control whether all the checks added under that control, and no
\* others, are good: whichever threads ran them, and whatever an earlier control left behind.
VerdictIsExact == \A m \in Masters : pc[m] = "done" => result = <<Good(added)>>

\* The threads with a batch that is not yet accounted for, and the checks in their batches.
Busy == {t \in Threads : pc[t] \in {"work", "again"}}
Taken == UNION {{t} \X (1..nNow[t]) : t \in Busy}

\* No check is lost or counted twice between the queue and the batches: nTodo is what is queued
\* and what threads have taken and not yet accounted for.
TodoIsExact == nTodo = Len(queue) + Cardinality(Taken)

\* No wakeup of the master is lost: it returns from Wait, with spurious wakeups or without, also
\* if the workers it had notified are interrupted.
WaitReturns == \A m \in Masters : pc[m] = "enter" ~> pc[m] = "done"
=============================================================================
