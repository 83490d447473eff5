-------------------------- MODULE MCOrderLifecycle --------------------------
(* Instances of OrderLifecycle for TLC. *)
EXTENDS OrderLifecycle, TLC

CONSTANTS q1, q2, q3

\* Two envelopes of one price, the third of another.
TwoPrices == q1 :> 1 @@ q2 :> 1 @@ q3 :> 2
OnePrice == q1 :> 1 @@ q2 :> 1

\* Payments, calls and envelopes of one price are interchangeable.
Interchangeable ==
    {f @@ g @@ h @@ k : f \in Permutations(Payments), g \in Permutations(Verifiers),
                        h \in Permutations(Refunders), k \in Permutations({q1, q2})}
=============================================================================
