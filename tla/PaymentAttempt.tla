--------------------------- MODULE PaymentAttempt ---------------------------
(***************************************************************************)
(* What the settlement table and the calls that work on it promise about   *)
(* the attempts to pay for a request: a request has at most one attempt    *)
(* under way; the payment of an attempt is handed to the facilitator at    *)
(* most once, and from then on the attempt can only be settled, found      *)
(* mismatched or left to an operator; a request is settled at most once;   *)
(* what is resolved stays resolved.  Where an operator reconciles, an      *)
(* attempt may also be settled by a payment found on chain before its own  *)
(* has been sent.                                                          *)
(***************************************************************************)
CONSTANTS
    Attempts,       \* attempts that may be made
    RequestOf,      \* the request each of them pays for
    Adopts          \* TRUE: an operator may record a payment it finds on chain

VARIABLE att        \* the state of each attempt

AttemptState == {"none", "open", "sent", "manual", "settled", "mismatch", "rejected", "released"}
UnderWay == {"open", "sent", "manual"}

Others(o) == {q \in Attempts \ {o} : RequestOf[q] = RequestOf[o]}

AInit == att = [o \in Attempts |-> "none"]

Move(o, from, to) == att[o] \in from /\ att' = [att EXCEPT ![o] = to]

Open(o) ==
    /\ \A q \in Others(o) : att[q] \notin UnderWay
    /\ Move(o, {"none"}, "open")

Send(o) == Move(o, {"open"}, "sent")

Reject(o) == Move(o, {"open"}, "rejected")

Settle(o) ==
    /\ \A q \in Others(o) : att[q] # "settled"
    /\ Move(o, {"sent"}, "settled")

Adopt(o) ==
    /\ Adopts
    /\ \A q \in Others(o) : att[q] # "settled"
    /\ Move(o, {"open"}, "settled")

GiveUp(o) == Move(o, {"sent"}, "mismatch") \/ Move(o, {"sent"}, "manual")

Release(o) == Move(o, {"manual"}, "released")

ANext == \E o \in Attempts :
    Open(o) \/ Send(o) \/ Reject(o) \/ Settle(o) \/ Adopt(o) \/ GiveUp(o) \/ Release(o)

ASpec == AInit /\ [][ANext]_att
=============================================================================
