-------------------------- MODULE MCContractFollower --------------------------
(***************************************************************************)
(* Small instances of ContractFollower: a tree with two branches that fork *)
(* at height 1, long enough for every strategy to be taken.                *)
(***************************************************************************)
EXTENDS ContractFollower, TLC

\* g - a - b - c
\*       \ d - e
MCPayload == {"g", "a", "b", "c", "d", "e"}
MCGenesis == <<"g">>
MCLeaves == {<<"g", "a", "b", "c">>, <<"g", "a", "d", "e">>}
MCBlock == {SubSeq(l, 1, n) : l \in MCLeaves, n \in 1..4}

\* Two blocks that compete, for two threads that make progress.
MCShortBlock == {b \in MCBlock : Len(b) < 4}
=============================================================================
