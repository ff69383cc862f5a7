--------------------------- MODULE ContractRuntime ---------------------------
(***************************************************************************)
(* One contract call: the node (contract/processing.cpp) forks a runtime   *)
(* (contract/libourcontract.cpp) and serves its requests over two pipes    *)
(* until the runtime closes them.  The real call of ProcessContract works  *)
(* on the snapshot, the pure call of dumpcontractmessage on the read-only  *)
(* copy `tmp' and returns the state to the user.                           *)
(*                                                                         *)
(* The contract is any program on the runtime's interface that makes at    *)
(* most MaxOps calls of it; it may fail or crash between two calls.  The   *)
(* library sends a request in one go, so a request and its fields are one  *)
(* message.  A JSON value is a member of Value, or Null for JSON's null;   *)
(* Absent is a key the database does not have.  The two kinds of call may  *)
(* overlap in time but share no state, so one call is modelled at a time.  *)
(***************************************************************************)
EXTENDS Integers, Sequences, Functions

CONSTANTS
    Address, Value, Null, Absent,
    MaxOps,      \* bound: calls of the interface by the contracts of one call
    MaxDaemons   \* bound: daemons started

ASSUME AbsentAssumption == Absent \notin Value \cup {Null}

NoPid == -1  \* what fork returns when it fails

VARIABLES
    db,          \* the states of the snapshot
    tmp,         \* the states of the read-only copy
    code,        \* the contracts whose code.so exists
    mode,        \* the kind of the call: "real" or "pure"
    target,      \* the contract called
    node,        \* "idle", "serve", "pid" (awaits a process id), "reap", "down"
    output,      \* result in call_rt_pure, or Null
    answer,      \* what the last call has returned
    req, rep,    \* the messages in the pipes to the node and to the runtime
    child,       \* what the runtime does, waits for, or how it ended
    loading,     \* the contract call_contract is loading
    stack,       \* call_stack: a local state per nested contract
    ops,
    daemons,     \* the daemons running
    holding,     \* those that still have the pipes open
    queue,       \* cont_daemon_q
    before,      \* (history) the snapshot when the call began
    final        \* (history) the state with which the base contract has returned, or Absent

vars == <<db, tmp, code, mode, target, node, output, answer, req, rep, child, loading, stack, ops,
          daemons, holding, queue, before, final>>
nodeVars == <<db, tmp, code, mode, target, output, answer, queue, before>>
childVars == <<loading, stack, daemons, holding, final>>

Top == stack[Len(stack)]
Ended == child \in {"none", "exit0", "exit1", "killed"}
Awaits == {"state", "mode", "txid", "dir", "client"}  \* fread in the runtime

Init ==
    /\ db = [a \in Address |-> Absent] /\ tmp = db
    /\ code = {}
    /\ mode = "real" /\ target \in Address /\ loading = target
    /\ node = "idle" /\ child = "none"
    /\ output = Null /\ answer = Null
    /\ req = <<>> /\ rep = <<>>
    /\ stack = <<>> /\ ops = 0
    /\ daemons = {} /\ holding = {} /\ queue = <<>>
    /\ before = db /\ final = Absent
-----------------------------------------------------------------------------
\* The node.

\* The beginning of call_rt and call_rt_pure: the pipes, fork and exec.
Start(kind, a) ==
    /\ mode' = kind /\ target' = a /\ loading' = a
    /\ node' = "serve" /\ child' = "load"
    /\ output' = Null
    /\ req' = <<>> /\ rep' = <<>> /\ stack' = <<>> /\ ops' = 0
    /\ before' = db /\ final' = Absent

\* ProcessContract with ACTION_NEW.  ourcontract-mkdll ends with status 0 also if the compiler
\* fails, and compiles nothing if there is a code.so.
ProcessNew(a) ==
    /\ node = "idle"
    /\ \/ code' = code \cup {a}
       \/ code' = code
    /\ Start("real", a)
    /\ UNCHANGED <<db, tmp, answer, daemons, holding, queue>>

\* ProcessContract with ACTION_CALL.
ProcessCall(a) ==
    /\ node = "idle"
    /\ Start("real", a)
    /\ UNCHANGED <<db, tmp, code, answer, daemons, holding, queue>>

CallPure(a) ==
    /\ node = "idle"
    /\ Start("pure", a)
    /\ UNCHANGED <<db, tmp, code, answer, daemons, holding, queue>>

\* The follower saves the snapshot for readers (between calls).
Backup ==
    /\ node = "idle"
    /\ tmp' = db
    /\ UNCHANGED <<db, code, mode, target, node, output, answer, req, rep, child, loading, stack, ops,
                   daemons, holding, queue, before, final>>

States == IF mode = "real" THEN db ELSE tmp

\* A client that gets no entry gets no data after the flag, as for a null state.
Shown(s) == IF s = Absent THEN Null ELSE s

Reply(kind, value) == rep' = Append(rep, [kind |-> kind, value |-> value])

\* What is local to a call goes.
CallLeft == output' = Null /\ req' = <<>> /\ stack' = <<>> /\ ops' = 0 /\ before' = db /\ final' = Absent

\* BYTE_READ_STATE.  In a pure call the parse of a missing entry throws: the RPC fails, with the
\* pipes open and the runtime waiting for its state, which has no further effect.
ServeRead ==
    /\ node = "serve" /\ req # <<>> /\ Head(req).kind = "read"
    /\ IF mode = "pure" /\ tmp[Head(req).value] = Absent
       THEN /\ node' = "idle" /\ child' = "none" /\ answer' = Null
            /\ CallLeft
            /\ UNCHANGED rep
       ELSE /\ req' = Tail(req)
            /\ Reply("state", Shown(States[Head(req).value]))
            /\ UNCHANGED <<node, child, output, answer, stack, ops, before, final>>
    /\ UNCHANGED <<db, tmp, code, mode, target, loading, daemons, holding, queue>>

\* BYTE_WRITE_STATE.
Store(s) ==
    IF mode = "real" THEN db' = [db EXCEPT ![target] = s] /\ UNCHANGED output
    ELSE output' = s /\ UNCHANGED db
ServeWrite ==
    /\ node = "serve" /\ req # <<>> /\ Head(req).kind = "write"
    /\ req' = Tail(req)
    /\ Store(Head(req).value)
    /\ UNCHANGED <<tmp, code, mode, target, node, answer, rep, child, ops, childVars, queue, before>>

\* CHECK_RUNTIME_STATE and GET_PRE_TXID_STATE.
ServeQuestion ==
    /\ node = "serve" /\ req # <<>> /\ Head(req).kind \in {"mode", "txid"}
    /\ req' = Tail(req)
    /\ Reply(Head(req).kind, mode)
    /\ UNCHANGED <<nodeVars, node, child, ops, childVars>>

\* CONTRACT_DAEMON and CONTRACT_DAEMON_CLIENT, which only a real call knows: a pure call leaves
\* the loop and closes the pipes.  A client's command other than getcontractdir has no reply.
DaemonPidUnread ==
    /\ node = "serve" /\ req # <<>> /\ Head(req).kind \in {"dir", "client"}
    /\ req' = Tail(req)
    /\ Reply(Head(req).kind, target)
    /\ UNCHANGED <<nodeVars, node, child, ops, childVars>>
ServeDaemon ==
    /\ node = "serve" /\ req # <<>> /\ Head(req).kind \in {"dir", "client"}
    /\ req' = Tail(req)
    /\ IF mode = "pure" THEN node' = "reap" /\ UNCHANGED rep
       ELSE IF Head(req).kind = "dir" THEN node' = "pid" /\ Reply("dir", target)
       ELSE IF Head(req).value = "getcontractdir" THEN Reply("client", target) /\ UNCHANGED node
       ELSE UNCHANGED <<node, rep>>
    /\ UNCHANGED <<nodeVars, child, ops, childVars>>

PidForgotten ==
    /\ node = "pid" /\ req # <<>>
    /\ req' = Tail(req)
    /\ node' = "serve"
    /\ UNCHANGED <<nodeVars, rep, child, ops, childVars>>
ServePid ==
    /\ node = "pid" /\ req # <<>>
    /\ req' = Tail(req)
    /\ queue' = Append(queue, Head(req).value)
    /\ node' = "serve"
    /\ UNCHANGED <<db, tmp, code, mode, target, output, answer, before, rep, child, ops, childVars>>

\* The end of the pipe ends the loop.
EndOfFile ==
    /\ node = "serve" /\ req = <<>>
    /\ Ended /\ holding = {}
    /\ node' = "reap"
    /\ UNCHANGED <<nodeVars, req, rep, child, ops, childVars>>

\* waitpid, and the result.
ReapAnyStatus ==
    /\ node = "reap" /\ Ended
    /\ node' = "idle" /\ child' = "none"
    /\ answer' = IF mode = "pure" THEN output ELSE Null
    /\ CallLeft
    /\ UNCHANGED <<db, tmp, code, mode, target, queue, rep, loading, daemons, holding>>
Reap ==
    /\ node = "reap" /\ Ended
    /\ node' = "idle" /\ child' = "none"
    /\ answer' = IF mode = "pure" /\ child = "exit0" THEN output ELSE Null
    /\ CallLeft
    /\ UNCHANGED <<db, tmp, code, mode, target, queue, rep, loading, daemons, holding>>

\* StopContractDaemon.  (kill(-1, ...) reaches every process of the user.)
StopContractDaemon ==
    /\ node = "idle"
    /\ node' = "down"
    /\ queue' = <<>>
    /\ daemons' = (IF NoPid \in Range(queue) THEN {} ELSE daemons \ Range(queue))
    /\ holding' = holding \cap daemons'
    /\ UNCHANGED <<db, tmp, code, mode, target, output, answer, before, req, rep, child, ops, loading, stack, final>>
-----------------------------------------------------------------------------
\* The runtime.

Closed == node \notin {"serve", "pid"}  \* the node has closed its ends of the pipes

Send(kind, value) == req' = IF Closed THEN req ELSE Append(req, [kind |-> kind, value |-> value])

\* call_contract up to the read of the state; a contract without code.so is an error.
Load ==
    /\ child = "load"
    /\ IF loading \in code
       THEN Send("read", loading) /\ child' = "state"
       ELSE child' = (IF stack = <<>> THEN "exit1" ELSE "run") /\ UNCHANGED req
    /\ UNCHANGED <<nodeVars, node, rep, ops, childVars>>

\* The reply to what the runtime has asked.
Receive ==
    /\ child \in Awaits \ {"dir"} /\ rep # <<>>
    /\ rep' = Tail(rep)
    /\ child' = "run"
    /\ stack' = IF child = "state"
                THEN Append(stack, [addr |-> loading, state |-> Head(rep).value, pre |-> Null])
                ELSE stack
    /\ UNCHANGED <<nodeVars, node, req, ops, loading, daemons, holding, final>>

\* fread fails once the node has closed the pipe.
ReceiveNothing ==
    /\ child \in Awaits /\ rep = <<>> /\ Closed
    /\ child' = "run"
    /\ stack' = IF child = "state"
                THEN Append(stack, [addr |-> loading, state |-> Null, pre |-> Null])
                ELSE stack
    /\ UNCHANGED <<nodeVars, node, req, rep, ops, loading, daemons, holding, final>>

\* The rest of contract_daemon: the daemon keeps the pipes open until it has closed its files.
Fork ==
    /\ child = "dir" /\ rep # <<>>
    /\ rep' = Tail(rep)
    /\ \/ LET pid == Len(queue) + 1 IN
          /\ daemons' = daemons \cup {pid} /\ holding' = holding \cup {pid}
          /\ Send("pid", pid) /\ child' = "run"
       \/ Send("pid", NoPid) /\ child' = "exit1" /\ UNCHANGED <<daemons, holding>>
    /\ UNCHANGED <<nodeVars, node, ops, loading, stack, final>>

DaemonKeepsFiles(p) ==
    /\ p \in holding
    /\ UNCHANGED vars
DaemonCloses(p) ==
    /\ p \in holding
    /\ holding' = holding \ {p}
    /\ UNCHANGED <<nodeVars, node, req, rep, child, ops, loading, stack, daemons, final>>

\* A daemon ends by itself.
DaemonEnds(p) ==
    /\ p \in daemons
    /\ daemons' = daemons \ {p}
    /\ holding' = holding \ {p}
    /\ UNCHANGED <<nodeVars, node, req, rep, child, ops, loading, stack, final>>

\* The contract runs, and makes its next call of the interface.
Calls == child = "run" /\ ops < MaxOps /\ ops' = ops + 1

StateWrite(v) ==
    /\ Calls
    /\ stack' = [stack EXCEPT ![Len(stack)].state = v]
    /\ UNCHANGED <<nodeVars, node, req, rep, child, loading, daemons, holding, final>>

Ask(kind, value) ==
    /\ Calls
    /\ kind = "mode" => Len(stack) = 1
    /\ kind = "dir" => Len(queue) + Len(req) < MaxDaemons
    /\ Send(kind, value) /\ child' = kind
    /\ UNCHANGED <<nodeVars, node, rep, childVars>>

CallContract(a) ==
    /\ Calls
    /\ loading' = a /\ child' = "load"
    /\ UNCHANGED <<nodeVars, node, req, rep, stack, daemons, holding, final>>

\* contract_main returns: the state of the base contract is written, that of a nested one is left
\* to its caller.
ReturnWritesAll(status) ==
    /\ child = "run" /\ stack # <<>>
    /\ Send("write", Top.state)
    /\ IF Len(stack) = 1 THEN child' = status /\ stack' = <<>> /\ final' = Top.state
       ELSE UNCHANGED <<child, final>> /\ stack' = [SubSeq(stack, 1, Len(stack) - 1) EXCEPT ![Len(stack) - 1].pre = Top.state]
    /\ UNCHANGED <<nodeVars, node, rep, ops, loading, daemons, holding>>
Return(status) ==
    /\ child = "run" /\ stack # <<>>
    /\ IF Len(stack) = 1
       THEN Send("write", Top.state) /\ child' = status /\ stack' = <<>> /\ final' = Top.state
       ELSE /\ stack' = [SubSeq(stack, 1, Len(stack) - 1) EXCEPT ![Len(stack) - 1].pre = Top.state]
            /\ UNCHANGED <<req, child, final>>
    /\ UNCHANGED <<nodeVars, node, rep, ops, loading, daemons, holding>>

\* The contract crashes, or its return does where the destructor of a local state deletes the
\* uninitialised string.
Dies ==
    /\ child = "run"
    /\ child' = "killed" /\ stack' = <<>>
    /\ UNCHANGED <<nodeVars, node, req, rep, ops, loading, daemons, holding, final>>
-----------------------------------------------------------------------------
Serve == ServeRead \/ ServeWrite \/ ServeQuestion \/ ServeDaemon \/ ServePid \/ EndOfFile \/ Reap

Runtime ==
    \/ Load \/ Receive \/ ReceiveNothing \/ Fork
    \/ \E v \in Value \cup {Null} : StateWrite(v)
    \/ \E kind \in {"mode", "txid", "dir"} : Ask(kind, Null)
    \/ \E cmd \in {"getcontractdir", "other"} : Ask("client", cmd)
    \/ \E a \in Address : CallContract(a)
    \/ \E status \in {"exit0", "exit1"} : Return(status)
    \/ Dies

Next ==
    \/ \E a \in Address : ProcessNew(a) \/ ProcessCall(a) \/ CallPure(a)
    \/ Backup \/ StopContractDaemon
    \/ Serve \/ Runtime
    \/ \E p \in daemons : DaemonCloses(p) \/ DaemonEnds(p)

Spec == Init /\ [][Next]_vars

\* The processes are scheduled; a contract that runs does its next call or returns.
FairSpec == Spec /\ WF_vars(Serve) /\ WF_vars(Runtime) /\ WF_vars(\E p \in daemons : DaemonCloses(p))
-----------------------------------------------------------------------------
(***************************************************************************)
(* Properties                                                              *)
(***************************************************************************)
\* What a real call leaves: nothing, or the final state of the contract called, and only of it.
Committed == IF final = Absent THEN before ELSE [before EXCEPT ![target] = final]

\* A call is all or nothing.  While its contracts run, all of them (a contract that is called
\* again from within, too) read the states from before the call; afterwards the base contract's
\* final state is stored if it returned, whatever its status, and nothing if it crashed.  Neither
\* a nested contract nor a pure call changes the snapshot.
CallIsAtomic ==
    /\ mode = "pure" => db = before
    /\ mode = "real" => db \in {before, Committed}
    /\ mode = "real" /\ ~Ended => db = before
    /\ mode = "real" /\ node = "reap" => db = Committed

\* The two sides stay in step: a runtime that waits for a reply gets one of that kind and never
\* finds an older one, and the node takes for a process id only what is one.
InStep ==
    /\ Len(rep) <= 1 /\ (rep # <<>> => child = Head(rep).kind)
    /\ node = "pid" => child = "dir" \/ (req # <<>> /\ Head(req).kind = "pid")
    /\ node = "serve" /\ req # <<>> => Head(req).kind # "pid"

\* A pure call answers with the final state of a contract that returned with status 0, or with
\* nothing: never with the state of a call that failed.
AnswerIsFinal == [][mode = "pure" /\ node = "reap" /\ node' = "idle" /\ answer' # Null => child = "exit0" /\ answer' = final]_vars

\* Every daemon that a contract has started is known to the node when the call has ended, so that
\* StopContractDaemon ends them all.
DaemonsAreKnown ==
    /\ node = "idle" => daemons \subseteq Range(queue)
    /\ node = "down" => daemons = {}

\* The one case in which both sides wait for each other: a daemon_client command that the node
\* does not know.
Unanswered == node = "serve" /\ child = "client" /\ req = <<>> /\ rep = <<>>

\* Every call of terminating contracts ends, daemons, crashes and closed pipes included, but for
\* the unanswered command.
CallEnds == node \in {"serve", "pid", "reap"} ~> node = "idle" \/ Unanswered
=============================================================================
