-------------------------- MODULE MCSessionTokens --------------------------
(* Two instances; the ids an order can use up are bounded. *)
EXTENDS SessionTokens, TLC

CONSTANTS i1, i2, o1, o2, r1, r2, q1, c1, c2

MCInstances == {i1, i2}
MCOrders == {o1, o2}
MCRanks == {r1, r2}
MCQuotes == {q1}
MCCheckouts == {c1, c2}
\* The second order is the one a restart begins.
MCIdsOf == (o1 :> {r1, r2, q1, c1, c2}) @@ (o2 :> {})
\* The instances are interchangeable.
Symmetry == Permutations(MCInstances)
=============================================================================
