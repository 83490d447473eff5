---------------------------- MODULE OrderMachine ----------------------------
(***************************************************************************)
(* The states of an order and the moves setState lets it make, with the    *)
(* state guards that respond and intentPatch put before a new ranking.     *)
(***************************************************************************)

OrderStates ==
    {"DRAFT", "CLARIFYING", "QUOTED", "AWAITING_APPROVAL", "APPROVED", "PAYMENT_PENDING",
     "PAID_VERIFIED", "FULFILMENT_PENDING", "FULFILLED", "EXPIRED", "REAPPROVAL_REQUIRED",
     "PAYMENT_FAILED", "FULFILMENT_FAILED", "COMPENSATION_PENDING", "REFUNDED", "MANUAL_REVIEW"}

ALLOWED_TRANSITIONS ==
    [DRAFT                |-> {"CLARIFYING", "QUOTED", "EXPIRED"},
     CLARIFYING           |-> {"CLARIFYING", "QUOTED", "EXPIRED"},
     QUOTED               |-> {"AWAITING_APPROVAL", "EXPIRED", "REAPPROVAL_REQUIRED"},
     AWAITING_APPROVAL    |-> {"APPROVED", "EXPIRED", "REAPPROVAL_REQUIRED", "CLARIFYING", "QUOTED"},
     APPROVED             |-> {"PAYMENT_PENDING", "EXPIRED", "REAPPROVAL_REQUIRED"},
     PAYMENT_PENDING      |-> {"PAID_VERIFIED", "PAYMENT_FAILED", "REAPPROVAL_REQUIRED", "EXPIRED"},
     PAID_VERIFIED        |-> {"FULFILMENT_PENDING", "FULFILMENT_FAILED"},
     FULFILMENT_PENDING   |-> {"FULFILLED", "FULFILMENT_FAILED"},
     FULFILLED            |-> {},
     EXPIRED              |-> {},
     REAPPROVAL_REQUIRED  |-> {"AWAITING_APPROVAL", "APPROVED", "EXPIRED", "CLARIFYING", "QUOTED"},
     PAYMENT_FAILED       |-> {"PAYMENT_PENDING", "EXPIRED"},
     FULFILMENT_FAILED    |-> {"COMPENSATION_PENDING"},
     COMPENSATION_PENDING |-> {"REFUNDED", "MANUAL_REVIEW"},
     REFUNDED             |-> {},
     MANUAL_REVIEW        |-> {"REFUNDED", "FULFILMENT_PENDING", "FULFILLED", "COMPENSATION_PENDING"}]

Moves(s, next) == s = next \/ next \in ALLOWED_TRANSITIONS[s]
StateAfter(s, next) == IF Moves(s, next) THEN next ELSE s

\* The states that every rail guard looks at.
Successful == {"PAID_VERIFIED", "FULFILMENT_PENDING", "FULFILLED"}
PaidStates == Successful \cup
    {"FULFILMENT_FAILED", "COMPENSATION_PENDING", "REFUNDED", "MANUAL_REVIEW"}

CanRank(s, change) ==
    \/ s \in {"DRAFT", "CLARIFYING", "REAPPROVAL_REQUIRED", "QUOTED"}
    \/ s = "AWAITING_APPROVAL" /\ change

\* Where intentPatch goes before it ranks again.
PatchTarget(s, change) ==
    CASE s \in {"AWAITING_APPROVAL", "APPROVED"} /\ ~change -> s
      [] s = "AWAITING_APPROVAL" /\ change -> "QUOTED"
      [] s = "APPROVED" /\ change -> "REAPPROVAL_REQUIRED"
      [] s \in {"REAPPROVAL_REQUIRED", "DRAFT", "CLARIFYING"} -> s
      [] OTHER -> "QUOTED"
=============================================================================
