---------------------------- MODULE MCChainState ----------------------------
EXTENDS ChainState, TLC

CONSTANTS g, a, b, c, d, e, f, h, w, x, y, z

\* Two branches over a: b d, and c e; f, on a, spends what is not there and h, on c,
\* makes again what is unspent.
MCPayload == {g, a, b, c, d, e, f, h}
MCGenesis == <<g>>
MCBlock == {<<g>>, <<g, a>>, <<g, a, b>>, <<g, a, b, d>>, <<g, a, c>>, <<g, a, c, e>>, <<g, a, f>>, <<g, a, c, h>>}
MCOutpoint == {w, x, y, z}

Coinbase(S) == [in |-> {}, out |-> S]
Pay(S, T) == [in |-> S, out |-> T]

\* Pay({x}, {y}) is in b and, one block later, in e.  d spends y through z, which it also
\* makes, and makes x again.
MCTxs ==
    (<<g>> :> <<>>) @@ (<<g, a>> :> <<Coinbase({w, x})>>)
    @@ (<<g, a, b>> :> <<Coinbase({}), Pay({x}, {y})>>)
    @@ (<<g, a, b, d>> :> <<Coinbase({x}), Pay({y}, {z}), Pay({z}, {})>>)
    @@ (<<g, a, c>> :> <<Coinbase({z})>>)
    @@ (<<g, a, c, e>> :> <<Coinbase({}), Pay({x}, {y}), Pay({w, z}, {})>>)
    @@ (<<g, a, c, h>> :> <<Coinbase({z})>>) @@ (<<g, a, f>> :> <<Coinbase({}), Pay({y}, {z})>>)
=============================================================================
