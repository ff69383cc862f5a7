-------------------------- MODULE MCChainActivation --------------------------
(***************************************************************************)
(* Small instances of ChainActivation: a tree with two forks, in which one *)
(* branch is longer than the others.                                       *)
(***************************************************************************)
EXTENDS ChainActivation, TLC

\* g - a - b
\*   \   \ f
\*     c - d - e
MCPayload == {"g", "a", "b", "c", "d", "e", "f"}
MCGenesis == <<"g">>
MCLeaves == {<<"g", "a", "b">>, <<"g", "a", "f">>, <<"g", "c", "d", "e">>}
MCBlock == UNION {{SubSeq(l, 1, n) : n \in 1..Len(l)} : l \in MCLeaves}
\* Only the branches b and e.
MCTwoBranches == MCBlock \ {<<"g", "a", "f">>}

\* Every block adds the same work.
MCWork == [b \in Block |-> Len(b)]
MCNames == <<"f", "g", "a", "b", "c", "d", "e">>
MCAddress == [b \in Block |-> CHOOSE i \in 1..7 : MCNames[i] = b[Len(b)]]
MCMinSequenceId == -2

\* Headers for GPoW: c is mined well after a; b, d and f almost together.
MCTime == [b \in Block |-> 0]
MCTimes == <<4, 0, 0, 3, 2, 4, 0>>
MCPrecisionTime == [b \in Block |-> MCTimes[MCAddress[b]]]
MCHashGPoW == [b \in Block |-> 10 - MCAddress[b]]

MCNone == {}
MCa == {<<"g", "a">>}
MCb == {<<"g", "a", "b">>}
MCd == {<<"g", "c", "d">>}
MCe == {<<"g", "c", "d", "e">>}
=============================================================================
