---------------------------- MODULE ContractService ----------------------------
(***************************************************************************)
(* What the contract engine promises to the rest of the node: seen by      *)
(* anyone who holds cs_main, the contract states change in one step, from  *)
(* those of one block to those of the block that is the active tip at that *)
(* moment.  How the change is brought about is ContractFollower's subject. *)
(***************************************************************************)
EXTENDS BlockTree

VARIABLES
    tip,       \* the active tip
    updating,  \* an update is under way, and cs_main is held
    state,     \* the contract states, <<>> while an update hides them
    broken     \* the process has ended, or a block could not be read

serviceVars == <<tip, updating, state, broken>>

ServiceInit ==
    /\ tip = Genesis
    /\ updating = FALSE
    /\ state = <<>>
    /\ broken = FALSE

\* The chain moves, never during an update.
Move ==
    /\ ~ updating
    /\ tip' \in Block
    /\ UNCHANGED <<updating, state, broken>>

Begin ==
    /\ ~ updating
    /\ updating' = TRUE
    /\ state' = <<>>
    /\ UNCHANGED <<tip, broken>>

Finish ==
    /\ updating
    /\ updating' = FALSE
    /\ state' = tip
    /\ UNCHANGED <<tip, broken>>

\* From then on nothing is promised of the states.
Break == broken' = TRUE

ServiceNext == Move \/ Begin \/ Finish \/ Break

ServiceSpec == ServiceInit /\ [][ServiceNext]_serviceVars
=============================================================================
