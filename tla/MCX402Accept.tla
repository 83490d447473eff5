---------------------------- MODULE MCX402Accept ----------------------------
(* Instances of X402Accept for TLC. *)
EXTENDS X402Accept, TLC

CONSTANTS p1, p2, s1, pid1, pid2

\* One slot, two payments under two identifiers.
TwoPids == p1 :> pid1 @@ p2 :> pid2
OneSlot == p1 :> s1 @@ p2 :> s1
\* One payment.
OnePayload == p1 :> s1
OnePayloadPid == p1 :> pid1

\* A facilitator that names the hash of the transaction it was given, and one
\* that may name any.
Honest == [p \in Payloads |-> {p}]
AnyHash == [p \in Payloads |-> Payloads]

\* Workers are interchangeable, minted revisions are, and so are the two
\* payloads of one slot together with their identifiers.
Swaps == {[x \in {p1, p2, pid1, pid2} |-> x],
          p1 :> p2 @@ p2 :> p1 @@ pid1 :> pid2 @@ pid2 :> pid1}
WorkersAndMints ==
    {f @@ g : f \in Permutations(Workers), g \in Permutations(Mints)}
TwoPidsSymmetry == {f @@ g : f \in WorkersAndMints, g \in Swaps}
=============================================================================
