--------------------------- MODULE MCMachineSpend ---------------------------
(* Instances of MachineSpend for TLC. *)
EXTENDS MachineSpend, TLC

CONSTANTS p1, p2, s1, pid1, pid2

\* One intent version, for which the client can sign two payments: the second
\* once the first is bound to an attempt that has been given up.
SpendSlots == p1 :> s1 @@ p2 :> s1
SpendPids == p1 :> pid1 @@ p2 :> pid2
OneVersion == <<s1>>
Honest == [p \in Payloads |-> {p}]
SpendSymmetry ==
    {f @@ g : f \in Permutations(Workers), g \in Permutations(Mints)}
=============================================================================
