----------------------------- MODULE DurableTip -----------------------------
(***************************************************************************)
(* What the chainstate promises to the chain on top of it: a tip that moves *)
(* by one block at a time, and a stored tip to which a crash falls back.   *)
(* The stored tip only ever becomes the tip of the moment; a crash never   *)
(* leads to a block in between, nor to one the node has not been on.       *)
(***************************************************************************)
EXTENDS BlockTree

VARIABLES tip, stored

Init == tip = Genesis /\ stored = Genesis

Connect(b) == b # Genesis /\ Pprev(b) = tip /\ tip' = b /\ UNCHANGED stored

Disconnect == tip # Genesis /\ tip' = Pprev(tip) /\ UNCHANGED stored

Store == stored' = tip /\ UNCHANGED tip

Crash == tip' = stored /\ UNCHANGED stored

Next == (\E b \in Block : Connect(b)) \/ Disconnect \/ Store \/ Crash

Spec == Init /\ [][Next]_<<tip, stored>>
=============================================================================
