--------------------------- MODULE MCCandidateSet ---------------------------
(***************************************************************************)
(* Four blocks that compete on top of the genesis block, and a successor   *)
(* of one of them.                                                         *)
(***************************************************************************)
EXTENDS CandidateSet

MCPayload == {"g", "a", "b", "c", "d", "e"}
MCGenesis == <<"g">>
MCBlock == {<<"g">>, <<"g", "a">>, <<"g", "b">>, <<"g", "c">>, <<"g", "d">>, <<"g", "d", "e">>}

\* The header of each block.  Mined one after another within TimeError of the one before, the
\* later ones with the smaller hash.
MCNames == <<"g", "a", "b", "c", "d", "e">>
MCAddress == [b \in Block |-> CHOOSE i \in 1..6 : MCNames[i] = b[Len(b)]]
MCWork == [b \in Block |-> Len(b)]
MCTime == [b \in Block |-> 0]
MCPrecisionTime == [b \in Block |-> 2 * MCAddress[b]]
MCHashGPoW == [b \in Block |-> 10 - MCAddress[b]]
=============================================================================
