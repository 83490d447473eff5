---------------------------- MODULE OrderProofs ----------------------------
(***************************************************************************)
(* Proofs about OrderLifecycle for any number of envelopes, payments,      *)
(* verifications and refunds, in mock and in live mode.                    *)
(***************************************************************************)
EXTENDS OrderLifecycle, TLAPS

---------------------------------------------------------------------------
(* The transition table *)

AfterRefund == {"COMPENSATION_PENDING", "REFUNDED", "MANUAL_REVIEW"}
Unpaid == OrderStates \ PaidStates

\* setState reaches a state of the machine, from any state.
LEMMA MoveType ==
  ASSUME NEW s \in OrderStates, NEW next \in OrderStates
  PROVE  StateAfter(s, next) \in OrderStates
  BY DEF StateAfter

\* The table has no way from a paid state to an unpaid one.
LEMMA PaidMoves ==
  ASSUME NEW s \in PaidStates, NEW next
  PROVE  StateAfter(s, next) \in PaidStates
  BY DEF StateAfter, Moves, ALLOWED_TRANSITIONS, PaidStates, Successful

\* A move to an unpaid state does not make an order paid.
LEMMA UnpaidMoves ==
  ASSUME NEW s \in Unpaid, NEW next \in OrderStates, next # "PAID_VERIFIED"
  PROVE  StateAfter(s, next) \in Unpaid
  BY DEF StateAfter, Moves, ALLOWED_TRANSITIONS, PaidStates, Successful, Unpaid, OrderStates

\* Once a refund has been requested, no setState but to FULFILMENT_PENDING or
\* FULFILLED leaves the refund states.
LEMMA RefundMoves ==
  ASSUME NEW s \in AfterRefund, NEW next, next \notin {"FULFILMENT_PENDING", "FULFILLED"}
  PROVE  StateAfter(s, next) \in AfterRefund
  BY DEF StateAfter, Moves, ALLOWED_TRANSITIONS, AfterRefund
---------------------------------------------------------------------------
(* The inductive invariant *)

\* A verification that awaits Razorpay is about a real payment, and one that
\* was captured when the call was made still is.
VerifyOK ==
    \A v \in Verifiers : verifying[v] # NoVerify =>
        /\ verifying[v].payment \in Payments
        /\ verifying[v].since = "captured" => pay[verifying[v].payment] = "captured"

\* The session lock admits one initiation, and none once the order exists.
OneInitiation ==
    /\ \A q, r \in initiating : q = r
    /\ extOrder # None => initiating = {}

\* Nobody pays before there is an order to pay.
NoneBeforeOrder == extOrder = None => \A p \in Payments : pay[p] = "none"

\* The stronger form of ShippedOrRefunded.
RefundOK == refundCalls > 0 => state \in AfterRefund

MoneyOK ==
    /\ VerifyOK
    /\ OneInitiation
    /\ NoneBeforeOrder
    /\ OneRail

StateOK ==
    /\ PaidIsCaptured
    /\ ProcessedIsPaid
    /\ RefundOK

OrderInv == TypeOK /\ MoneyOK /\ StateOK

---------------------------------------------------------------------------
(* Types *)

\* A message keeps the types.
LEMMA ConversationType ==
  ASSUME TypeOK, Conversation
  PROVE  TypeOK'
<1> USE NoneAssumption DEF TypeOK, moneyVars, outsideVars
<1>1. state' \in OrderStates
  <2>1. CASE Restart
    BY <2>1 DEF Restart
  <2>2. ASSUME NEW change \in BOOLEAN, NEW ranks \in BOOLEAN, Answer(change, ranks)
        PROVE  state' \in OrderStates
    BY <2>2 DEF Answer, OrderStates
  <2>3. ASSUME NEW change \in BOOLEAN, NEW ranks \in BOOLEAN, Search(change, ranks)
        PROVE  state' \in OrderStates
    <3>1. "CLARIFYING" \in OrderStates /\ "QUOTED" \in OrderStates
      BY DEF OrderStates
    <3> QED
      BY <2>3, <3>1, MoveType DEF Search
  <2>4. ASSUME NEW change \in BOOLEAN, NEW ranks \in BOOLEAN, IntentPatch(change, ranks)
        PROVE  state' \in OrderStates
    <3>1. /\ "CLARIFYING" \in OrderStates /\ "QUOTED" \in OrderStates
          /\ PatchTarget(state, change) \in OrderStates
      BY DEF OrderStates, PatchTarget
    <3> QED
      BY <2>4, <3>1 DEF IntentPatch
  <2> QED
    BY <2>1, <2>2, <2>3, <2>4 DEF Conversation
<1> DEFINE QuoteOK ==
             /\ ranked \in BOOLEAN /\ bound \in BOOLEAN /\ lapsed \in BOOLEAN
             /\ envelope \in Quotes \cup {None} /\ approved \in Quotes \cup {None}
             /\ bound => envelope # None
<1>2. QuoteOK'
  <2>1. ASSUME NEW change \in BOOLEAN, InvalidateQuote(change)
        PROVE  /\ bound' \in BOOLEAN
               /\ envelope' \in Quotes \cup {None} /\ approved' \in Quotes \cup {None}
               /\ bound' => envelope' # None
    BY <2>1 DEF InvalidateQuote
  <2>2. CASE Restart
    BY <2>1, <2>2 DEF Restart
  <2>3. ASSUME NEW change \in BOOLEAN, NEW ranks \in BOOLEAN, Answer(change, ranks)
        PROVE  QuoteOK'
    BY <2>1, <2>3 DEF Answer
  <2>4. ASSUME NEW change \in BOOLEAN, NEW ranks \in BOOLEAN, Search(change, ranks)
        PROVE  QuoteOK'
    BY <2>4 DEF Search
  <2>5. ASSUME NEW change \in BOOLEAN, NEW ranks \in BOOLEAN, IntentPatch(change, ranks)
        PROVE  QuoteOK'
    BY <2>1, <2>5 DEF IntentPatch
  <2> QED
    BY <2>2, <2>3, <2>4, <2>5 DEF Conversation
<1>3. UNCHANGED <<moneyVars, outsideVars>>
  BY DEF Conversation, Restart, Answer, Search, IntentPatch
<1> QED
  BY <1>1, <1>2, <1>3

\* confirmX402OrderPayment changes the status of the record only.
LEMMA AgentPayVerified ==
  ASSUME NEW a \in [status : {"none", "pending", "verified"}, envelope : Quotes \cup {None}]
  PROVE  [a EXCEPT !.status = "verified"] \in
             [status : {"none", "pending", "verified"}, envelope : Quotes \cup {None}]
  OBVIOUS

\* A quote, an approval, a tampering or a call of a rail keeps the types.
LEMMA PurchaseType ==
  ASSUME TypeOK, Purchase
  PROVE  TypeOK'
<1> USE NoneAssumption DEF TypeOK, moneyVars, outsideVars, quoteVars
<1>1. \A next \in {"AWAITING_APPROVAL", "EXPIRED", "APPROVED", "REAPPROVAL_REQUIRED",
                   "PAYMENT_FAILED"} : StateAfter(state, next) \in OrderStates
  BY MoveType DEF OrderStates
<1>2. ASSUME NEW q \in Quotes, BuildQuote(q) PROVE TypeOK'
  BY ZenonT(60), <1>1, <1>2 DEF BuildQuote
<1>3. ASSUME NEW q \in Quotes, Tamper(q) PROVE TypeOK'
  BY <1>1, <1>3 DEF Tamper
<1>4. ASSUME NEW q \in Quotes, Initiated(q) PROVE TypeOK'
  BY <1>1, <1>4 DEF Initiated
<1>5. CASE Approve
  BY <1>1, <1>5 DEF Approve
<1>6. CASE Lapse
  BY <1>6 DEF Lapse
<1>7. CASE Initiate
  <2>1. state' \in OrderStates /\ initiating' \subseteq Quotes
    BY <1>7 DEF Initiate, PolicyAllows, OrderStates
  <2> QED
    BY <1>7, <2>1 DEF Initiate
<1>8. CASE PrepareX402
  BY <1>8 DEF PrepareX402, PolicyAllows
<1>9. CASE ConfirmX402
  <2>1. state' \in OrderStates
    BY <1>9 DEF ConfirmX402, OrderStates
  <2>2. agentPay' \in [status : {"none", "pending", "verified"}, envelope : Quotes \cup {None}]
    <3>1. agentPay' = [agentPay EXCEPT !.status = "verified"]
      BY <1>9 DEF ConfirmX402
    <3> QED
      BY <3>1, AgentPayVerified, Zenon
  <2>3. /\ UNCHANGED <<quoteVars, initiating, extOrder, held, processed, outsideVars>>
        /\ paid' = [verified |-> TRUE, rail |-> "x402"] /\ paymentId' = "x402"
    BY <1>9 DEF ConfirmX402
  <2> QED
    BY <2>1, <2>2, <2>3
<1> QED
  BY <1>2, <1>3, <1>4, <1>5, <1>6, <1>7, <1>8, <1>9 DEF Purchase

\* A payment, an event or a verification keeps the types.
LEMMA RazorpayType ==
  ASSUME TypeOK, VerifyOK, Razorpay
  PROVE  TypeOK'
<1> USE NoneAssumption DEF TypeOK, moneyVars, outsideVars, quoteVars
<1>1. \A next \in {"PAID_VERIFIED", "PAYMENT_FAILED"} : StateAfter(state, next) \in OrderStates
  BY MoveType DEF OrderStates
<1>2. CASE VerifyOtherOrder
  BY <1>1, <1>2 DEF VerifyOtherOrder
<1>3. ASSUME NEW p \in Payments, CustomerPays(p) \/ MockCapture(p) PROVE TypeOK'
  <2>1. pay' \in [Payments -> PayStatus]
    BY <1>3 DEF CustomerPays, MockCapture, PayStatus
  <2> QED
    BY <1>3, <2>1 DEF CustomerPays, MockCapture
<1>4. ASSUME NEW p \in Payments, NEW status \in PayStatus, Webhook(p, status) PROVE TypeOK'
  <2>1. state' \in OrderStates
    BY <1>4 DEF Webhook, WebhookPays, WebhookHeld, WebhookNoted, OrderStates
  <2>2. /\ paid' \in [verified : BOOLEAN, rail : {None, "razorpay", "x402"}]
        /\ paymentId' \in Payments \cup {"x402", None}
        /\ held' \in Payments \cup {None} /\ processed' \subseteq Payments
    <3>1. CASE WebhookPays(p)
      BY <3>1 DEF WebhookPays
    <3>2. CASE WebhookHeld(p)
      BY <3>2 DEF WebhookHeld
    <3>3. CASE WebhookNoted(p)
      BY <3>3 DEF WebhookNoted
    <3> QED
      BY <1>4, <3>1, <3>2, <3>3 DEF Webhook
  <2>3. UNCHANGED <<quoteVars, initiating, extOrder, agentPay, outsideVars>>
    BY <1>4 DEF Webhook
  <2> QED
    BY <2>1, <2>2, <2>3
<1>5. ASSUME NEW v \in Verifiers, NEW p \in Payments, NEW signed \in BOOLEAN,
             VerifyCall(v, p, signed)
      PROVE  TypeOK'
  <2>1. pay[p] \in PayStatus
    OBVIOUS
  <2> QED
    BY <1>5, <2>1 DEF VerifyCall
<1>6. ASSUME NEW v \in Verifiers, NEW status \in PayStatus, VerifyReturn(v, status) PROVE TypeOK'
  <2>1. NoVerify \in [payment : Payments \cup {None}, record : Quotes \cup {None},
                      signed : BOOLEAN, since : PayStatus]
    BY DEF NoVerify, PayStatus
  <2>2. verifying[v].payment \in Payments /\ verifying[v].signed \in BOOLEAN
    BY <1>6 DEF VerifyReturn, VerifyOK
  <2>3. state' \in OrderStates
    BY <1>1, <1>6 DEF VerifyReturn
  <2>4. held' \in Payments \cup {None} /\ processed' \subseteq Payments
    BY <1>6 DEF VerifyReturn
  <2> QED
    BY <1>6, <2>1, <2>2, <2>3, <2>4 DEF VerifyReturn
<1>7. ASSUME NEW v \in Verifiers, VerifyError(v) PROVE TypeOK'
  <2>1. NoVerify \in [payment : Payments \cup {None}, record : Quotes \cup {None},
                      signed : BOOLEAN, since : PayStatus]
    BY DEF NoVerify, PayStatus
  <2> QED
    BY <1>7, <2>1 DEF VerifyError
<1> QED
  BY <1>2, <1>3, <1>4, <1>5, <1>6, <1>7 DEF Razorpay

\* Shipping and refunding keep the types.
LEMMA AftermathType ==
  ASSUME TypeOK, Aftermath
  PROVE  TypeOK'
<1> USE NoneAssumption DEF TypeOK, moneyVars, outsideVars, quoteVars
<1>1. \A next \in {"REFUNDED", "MANUAL_REVIEW"} : StateAfter(state, next) \in OrderStates
  BY MoveType DEF OrderStates
<1>2. ASSUME NEW fails \in BOOLEAN, Fulfil(fails) PROVE TypeOK'
  <2>1. state' \in OrderStates
    BY <1>2 DEF Fulfil, OrderStates
  <2> QED
    BY <1>2, <2>1 DEF Fulfil
<1>3. ASSUME NEW r \in Refunders, Compensate(r) PROVE TypeOK'
  <2>1. state' \in OrderStates /\ refunding' \subseteq Refunders /\ refundCalls' \in 0..2
    BY <1>3 DEF Compensate, OrderStates
  <2> QED
    BY <1>3, <2>1 DEF Compensate
<1>4. ASSUME NEW r \in Refunders, Compensated(r) PROVE TypeOK'
  BY <1>1, <1>4 DEF Compensated
<1> QED
  BY <1>2, <1>3, <1>4 DEF Aftermath

\* Every step keeps the types.
LEMMA TypeStep ==
  ASSUME TypeOK, VerifyOK, [Next]_vars
  PROVE  TypeOK'
<1>1. CASE UNCHANGED vars
  BY <1>1 DEF TypeOK, vars, quoteVars, moneyVars, outsideVars
<1> QED
  BY <1>1, ConversationType, PurchaseType, RazorpayType, AftermathType DEF Next

---------------------------------------------------------------------------
(* The rails *)

\* What the rails have done is read from these variables alone.
LEMMA MoneyFrame ==
  ASSUME MoneyOK, UNCHANGED <<moneyVars, outsideVars>>
  PROVE  MoneyOK'
  BY DEF MoneyOK, VerifyOK, OneInitiation, NoneBeforeOrder, OneRail, moneyVars, outsideVars

\* An initiation takes the lock, and only without an order or another rail.
LEMMA InitiateMoney ==
  ASSUME TypeOK, MoneyOK, Initiate \/ \E q \in Quotes : Initiated(q)
  PROVE  MoneyOK'
<1>1. VerifyOK' /\ UNCHANGED <<agentPay, pay>>
  BY DEF Initiate, Initiated, MoneyOK, VerifyOK, outsideVars
<1>2. CASE Initiate
  <2>1. /\ UNCHANGED extOrder
        /\ agentPay.status # "verified"
        /\ initiating = {}
        /\ \/ UNCHANGED initiating
           \/ extOrder = None /\ initiating' = {envelope}
    BY <1>2 DEF Initiate, Unlocked
  <2> QED
    BY <1>1, <2>1 DEF MoneyOK, OneInitiation, NoneBeforeOrder, OneRail
<1>3. ASSUME NEW q \in Quotes, Initiated(q)
      PROVE  MoneyOK'
  <2>1. /\ q \in initiating /\ initiating' = {}
        /\ extOrder' \in {q, extOrder} /\ extOrder = None
        /\ agentPay.status # "verified"
    BY <1>3 DEF Initiated, MoneyOK, OneInitiation, OneRail
  <2> QED
    BY <1>1, <2>1 DEF MoneyOK, OneInitiation, NoneBeforeOrder, OneRail
<1> QED
  BY <1>2, <1>3

\* Agent Pay starts and ends while no other rail has started.
LEMMA AgentPayMoney ==
  ASSUME TypeOK, MoneyOK, PrepareX402 \/ ConfirmX402
  PROVE  MoneyOK'
<1>1. /\ UNCHANGED <<initiating, extOrder, pay, verifying>>
      /\ extOrder = None /\ initiating = {}
  BY DEF PrepareX402, ConfirmX402, Unlocked, RailTaken, outsideVars
<1> QED
  BY <1>1 DEF MoneyOK, VerifyOK, OneInitiation, NoneBeforeOrder, OneRail

\* A payment is made to an order that exists, and a captured one stays so.
LEMMA PaymentMoney ==
  ASSUME TypeOK, MoneyOK, NEW p \in Payments, CustomerPays(p) \/ MockCapture(p)
  PROVE  MoneyOK'
<1>1. UNCHANGED <<moneyVars, verifying>> /\ extOrder # None
  BY DEF CustomerPays, MockCapture
<1>2. \A q \in Payments : pay[q] = "captured" => pay'[q] = "captured"
  BY DEF TypeOK, CustomerPays, MockCapture
<1>3. VerifyOK'
  BY <1>1, <1>2 DEF MoneyOK, VerifyOK
<1> QED
  BY <1>1, <1>3 DEF MoneyOK, OneInitiation, NoneBeforeOrder, OneRail, moneyVars

\* An event does not move money.
LEMMA WebhookMoney ==
  ASSUME MoneyOK, NEW p \in Payments, NEW status \in PayStatus, Webhook(p, status)
  PROVE  MoneyOK'
  BY DEF Webhook, outsideVars, MoneyOK, VerifyOK, OneInitiation, NoneBeforeOrder, OneRail

\* A verification reads the payment and moves no money.
LEMMA VerifyMoney ==
  ASSUME TypeOK, MoneyOK, UNCHANGED <<initiating, extOrder, agentPay, pay>>,
         NEW v \in Verifiers,
         \/ verifying' = [verifying EXCEPT ![v] = NoVerify]
         \/ \E p \in Payments : \E r, b : verifying' = [verifying EXCEPT ![v] =
                [payment |-> p, record |-> r, signed |-> b, since |-> pay[p]]]
  PROVE  MoneyOK'
<1>1. VerifyOK'
  BY DEF TypeOK, MoneyOK, VerifyOK
<1> QED
  BY <1>1 DEF MoneyOK, OneInitiation, NoneBeforeOrder, OneRail

\* Every step keeps what is known of the rails.
LEMMA MoneyStep ==
  ASSUME TypeOK, MoneyOK, [Next]_vars
  PROVE  MoneyOK'
<1>1. CASE Conversation
  <2>1. UNCHANGED <<moneyVars, outsideVars>>
    BY <1>1 DEF Conversation, Restart, Answer, Search, IntentPatch
  <2> QED
    BY <2>1, MoneyFrame
<1>2. CASE Purchase
  <2>1. CASE (\E q \in Quotes : BuildQuote(q) \/ Tamper(q)) \/ Approve \/ Lapse
    BY <2>1, MoneyFrame DEF BuildQuote, Tamper, Approve, Lapse
  <2> QED
    BY <1>2, <2>1, InitiateMoney, AgentPayMoney DEF Purchase
<1>3. CASE Razorpay
  <2>1. CASE VerifyOtherOrder
    BY <2>1, MoneyFrame DEF VerifyOtherOrder
  <2>2. ASSUME NEW p \in Payments, CustomerPays(p) \/ MockCapture(p)
        PROVE  MoneyOK'
    BY <2>2, PaymentMoney
  <2>3. ASSUME NEW p \in Payments, NEW status \in PayStatus, Webhook(p, status)
        PROVE  MoneyOK'
    BY <2>3, WebhookMoney
  <2>4. ASSUME NEW v \in Verifiers, NEW p \in Payments, NEW signed \in BOOLEAN,
               VerifyCall(v, p, signed)
        PROVE  MoneyOK'
    BY <2>4, VerifyMoney DEF VerifyCall, moneyVars
  <2>5. ASSUME NEW v \in Verifiers, NEW status \in PayStatus, VerifyReturn(v, status)
        PROVE  MoneyOK'
    BY <2>5, VerifyMoney DEF VerifyReturn
  <2>6. ASSUME NEW v \in Verifiers, VerifyError(v)
        PROVE  MoneyOK'
    BY <2>6, VerifyMoney DEF VerifyError, moneyVars
  <2> QED
    BY <1>3, <2>1, <2>2, <2>3, <2>4, <2>5, <2>6 DEF Razorpay
<1>4. CASE Aftermath
  <2>1. UNCHANGED <<initiating, extOrder, agentPay, pay, verifying>>
    BY <1>4 DEF Aftermath, Fulfil, Compensate, Compensated, moneyVars, outsideVars
  <2> QED
    BY <2>1 DEF MoneyOK, VerifyOK, OneInitiation, NoneBeforeOrder, OneRail
<1>5. CASE UNCHANGED vars
  BY <1>5, MoneyFrame DEF vars
<1> QED
  BY <1>1, <1>2, <1>3, <1>4, <1>5 DEF Next

---------------------------------------------------------------------------
(* The state of the order *)

\* A step that neither pays the order nor takes it out of the paid states or
\* out of the refund.
Steady ==
    /\ state \in PaidStates <=> state' \in PaidStates
    /\ state \in AfterRefund => state' \in AfterRefund

\* A steady step that leaves payments and refunds alone.
LEMMA SteadyFrame ==
  ASSUME StateOK, Steady, UNCHANGED <<pay, processed, refundCalls>>,
         agentPay.status = "verified" => agentPay'.status = "verified"
  PROVE  StateOK'
  BY DEF StateOK, Steady, PaidIsCaptured, ProcessedIsPaid, RefundOK

\* A call of setState with a state that no payment reaches is steady.
LEMMA SetStateSteady ==
  ASSUME state \in OrderStates, NEW next \in OrderStates \ (PaidStates \ AfterRefund),
         state' = StateAfter(state, next), next \in AfterRefund => state \in PaidStates
  PROVE  Steady
<1>1. CASE state \in PaidStates
  <2>1. state' \in PaidStates
    BY <1>1, PaidMoves
  <2>2. next \notin {"FULFILMENT_PENDING", "FULFILLED"}
    BY DEF PaidStates, Successful, AfterRefund
  <2> QED
    BY <1>1, <2>1, <2>2, RefundMoves DEF Steady
<1>2. CASE state \notin PaidStates
  <2>1. state' \in Unpaid /\ state \notin AfterRefund
    BY <1>2, UnpaidMoves DEF Unpaid, AfterRefund, PaidStates, Successful
  <2> QED
    BY <1>2, <2>1 DEF Steady, Unpaid
<1> QED
  BY <1>1, <1>2

\* No message pays an order, and none takes a paid order back: the guards
\* before a new ranking refuse the paid states, and the one assignment past
\* the transition table comes after a setState that throws there.
LEMMA ConversationSteady ==
  ASSUME TypeOK, Conversation
  PROVE  Steady
<1>1. CASE Restart
  BY <1>1 DEF Restart, Steady
<1>2. ASSUME NEW change \in BOOLEAN, NEW ranks \in BOOLEAN, Answer(change, ranks)
      PROVE  Steady
  BY <1>2 DEF Answer, Steady, PaidStates, Successful, AfterRefund
<1>3. ASSUME NEW change \in BOOLEAN, NEW ranks \in BOOLEAN, Search(change, ranks)
      PROVE  Steady
  <2>1. state \notin PaidStates
    BY <1>3 DEF Search, CanRank, PaidStates, Successful
  <2>2. state' \in {state, "CLARIFYING", "QUOTED"}
    BY <1>3 DEF Search, StateAfter
  <2> QED
    BY <2>1, <2>2 DEF Steady, PaidStates, Successful, AfterRefund
<1>4. ASSUME NEW change \in BOOLEAN, NEW ranks \in BOOLEAN, IntentPatch(change, ranks)
      PROVE  Steady
  <2>1. CASE state \in PaidStates
    <3>1. PatchTarget(state, change) = "QUOTED"
      BY <2>1 DEF PatchTarget, PaidStates, Successful
    <3>2. ~Moves(state, "QUOTED")
      BY <2>1 DEF Moves, ALLOWED_TRANSITIONS, PaidStates, Successful
    <3>3. UNCHANGED state
      BY <1>4, <3>1, <3>2 DEF IntentPatch, PatchThrows
    <3> QED
      BY <3>3 DEF Steady
  <2>2. CASE state \notin PaidStates
    <3>1. PatchTarget(state, change) \in {state, "QUOTED", "REAPPROVAL_REQUIRED"}
      BY DEF PatchTarget
    <3>2. state' \in {state, "CLARIFYING", "QUOTED", "REAPPROVAL_REQUIRED"}
      BY <1>4, <3>1 DEF IntentPatch
    <3> QED
      BY <2>2, <3>2 DEF Steady, PaidStates, Successful, AfterRefund
  <2> QED
    BY <2>1, <2>2
<1> QED
  BY <1>1, <1>2, <1>3, <1>4 DEF Conversation

\* The steps up to the payment, but for the confirmation of Agent Pay.
LEMMA PurchaseSteady ==
  ASSUME TypeOK, Purchase, ~ConfirmX402
  PROVE  /\ Steady
         /\ UNCHANGED <<pay, processed, refundCalls>>
         /\ agentPay.status = "verified" => agentPay'.status = "verified"
<1> USE DEF moneyVars, outsideVars
<1>1. /\ state \in OrderStates
      /\ \A next \in {"AWAITING_APPROVAL", "EXPIRED", "APPROVED", "REAPPROVAL_REQUIRED",
                      "PAYMENT_FAILED"} :
             next \in OrderStates \ (PaidStates \ AfterRefund) /\ next \notin AfterRefund
  BY DEF TypeOK, OrderStates, PaidStates, Successful, AfterRefund
<1>2. ASSUME NEW q \in Quotes, BuildQuote(q) \/ Tamper(q)
      PROVE  Steady
  BY <1>1, <1>2, SetStateSteady DEF BuildQuote, Tamper
<1>3. ASSUME NEW q \in Quotes, Initiated(q)
      PROVE  Steady
  <2>1. CASE UNCHANGED state
    BY <2>1 DEF Steady
  <2>2. CASE state' = StateAfter(state, "PAYMENT_FAILED")
    BY <1>1, <2>2, SetStateSteady
  <2> QED
    BY <1>3, <2>1, <2>2 DEF Initiated
<1>4. ASSUME Approve
      PROVE  Steady
  BY <1>1, <1>4, SetStateSteady DEF Approve
<1>5. ASSUME Lapse \/ PrepareX402
      PROVE  Steady
  BY <1>5 DEF Lapse, PrepareX402, Steady
<1>6. ASSUME Initiate
      PROVE  Steady
  <2>1. \/ UNCHANGED state
        \/ Moves(state, "PAYMENT_PENDING") /\ state' = "PAYMENT_PENDING"
    BY <1>6 DEF Initiate, Moves, ALLOWED_TRANSITIONS
  <2>2. CASE Moves(state, "PAYMENT_PENDING") /\ state' = "PAYMENT_PENDING"
    <3>1. state \notin PaidStates /\ state' \notin PaidStates
      BY <2>2 DEF Moves, ALLOWED_TRANSITIONS, PaidStates, Successful
    <3>2. AfterRefund \subseteq PaidStates
      BY DEF AfterRefund, PaidStates
    <3> QED
      BY <3>1, <3>2 DEF Steady
  <2>3. CASE UNCHANGED state
    BY <2>3 DEF Steady
  <2> QED
    BY <2>1, <2>2, <2>3
<1>7. Steady
  BY <1>2, <1>3, <1>4, <1>5, <1>6 DEF Purchase
<1>8. /\ UNCHANGED <<pay, processed, refundCalls>>
      /\ agentPay.status = "verified" => agentPay'.status = "verified"
  BY DEF Purchase, BuildQuote, Tamper, Initiated, Approve, Lapse, Initiate, PrepareX402
<1> QED
  BY <1>7, <1>8

\* The steps that leave an order as paid as it was.
LEMMA SteadySteps ==
  ASSUME TypeOK, StateOK, (Purchase /\ ~ConfirmX402) \/ Conversation \/ VerifyOtherOrder
  PROVE  StateOK' /\ Steady
<1>1. CASE Purchase /\ ~ConfirmX402
  BY <1>1, PurchaseSteady, SteadyFrame
<1>2. CASE Conversation
  <2>1. UNCHANGED <<agentPay, pay, processed, refundCalls>>
    BY <1>2 DEF Conversation, Restart, Answer, Search, IntentPatch, moneyVars, outsideVars
  <2> QED
    BY <1>2, <2>1, ConversationSteady, SteadyFrame
<1>3. CASE VerifyOtherOrder
  <2>1. /\ "PAYMENT_FAILED" \in OrderStates \ (PaidStates \ AfterRefund)
        /\ "PAYMENT_FAILED" \notin AfterRefund
    BY DEF OrderStates, PaidStates, Successful, AfterRefund
  <2>2. Steady /\ UNCHANGED <<agentPay, pay, processed, refundCalls>>
    BY <1>3, <2>1, SetStateSteady DEF VerifyOtherOrder, TypeOK, moneyVars, outsideVars
  <2> QED
    BY <2>2, SteadyFrame
<1> QED
  BY <1>1, <1>2, <1>3

\* A confirmation of Agent Pay.
LEMMA ConfirmState ==
  ASSUME TypeOK, StateOK, ConfirmX402
  PROVE  StateOK' /\ (state \in PaidStates => state' \in PaidStates)
<1>1. agentPay'.status = "verified" /\ UNCHANGED <<processed, refundCalls>>
  BY DEF TypeOK, ConfirmX402, outsideVars
<1>2. \/ UNCHANGED state
      \/ Moves(state, "PAYMENT_PENDING") /\ state' = "PAID_VERIFIED"
  BY DEF ConfirmX402
<1>3. Moves(state, "PAYMENT_PENDING") => state \notin PaidStates
  BY DEF Moves, ALLOWED_TRANSITIONS, PaidStates, Successful
<1>4. AfterRefund \subseteq PaidStates /\ "PAID_VERIFIED" \in PaidStates
  BY DEF PaidStates, Successful, AfterRefund
<1> QED
  BY <1>1, <1>2, <1>3, <1>4 DEF StateOK, PaidIsCaptured, ProcessedIsPaid, RefundOK

\* A payment does not touch the session.
LEMMA PaymentState ==
  ASSUME TypeOK, StateOK, NEW p \in Payments, CustomerPays(p) \/ MockCapture(p)
  PROVE  StateOK' /\ Steady
<1>1. \A q \in Payments : pay[q] = "captured" => pay'[q] = "captured"
  BY DEF TypeOK, CustomerPays, MockCapture
<1>2. UNCHANGED <<state, agentPay, processed, refundCalls>>
  BY DEF CustomerPays, MockCapture, moneyVars
<1> QED
  BY <1>1, <1>2 DEF StateOK, PaidIsCaptured, ProcessedIsPaid, RefundOK, Steady

\* An event pays a pending order on a captured payment, is held for a failed
\* one, and is only noted for a paid one.
LEMMA WebhookState ==
  ASSUME TypeOK, StateOK, NEW p \in Payments, NEW status \in PayStatus, Webhook(p, status)
  PROVE  StateOK' /\ (state \in PaidStates => state' \in PaidStates)
<1>1. UNCHANGED <<agentPay, pay, refundCalls>> /\ pay[p] = "captured"
  BY DEF Webhook, EventBinds, outsideVars
<1>2. CASE WebhookPays(p)
  <2>1. state \notin AfterRefund /\ state' \in PaidStates
    BY <1>2 DEF WebhookPays, PaidStates, Successful, AfterRefund
  <2> QED
    BY <1>1, <2>1 DEF StateOK, PaidIsCaptured, ProcessedIsPaid, RefundOK
<1>3. CASE WebhookHeld(p)
  BY <1>1, <1>3 DEF WebhookHeld, StateOK, PaidIsCaptured, ProcessedIsPaid, RefundOK
<1>4. CASE WebhookNoted(p)
  BY <1>1, <1>4 DEF WebhookNoted, StateOK, PaidIsCaptured, ProcessedIsPaid, RefundOK, PaidStates
<1> QED
  BY <1>2, <1>3, <1>4 DEF Webhook

\* A verification that comes back pays a pending order, on a payment that is
\* captured now even if the call was answered from an older look at it.
LEMMA ReturnState ==
  ASSUME TypeOK, VerifyOK, StateOK, NEW v \in Verifiers, NEW status \in PayStatus,
         VerifyReturn(v, status)
  PROVE  StateOK' /\ (state \in PaidStates => state' \in PaidStates)
<1> DEFINE good == verifying[v].signed /\ BindingHolds(verifying[v].record, status)
           next == IF good THEN "PAID_VERIFIED" ELSE "PAYMENT_FAILED"
<1>1. UNCHANGED <<agentPay, pay, refundCalls>> /\ state' = StateAfter(state, next)
  BY DEF VerifyReturn
<1>2. good => \E p \in Payments : pay[p] = "captured"
  BY DEF VerifyReturn, VerifyOK, BindingHolds
<1>3. processed' = processed \/ (good /\ Moves(state, next))
  BY DEF VerifyReturn
<1>4. good /\ Moves(state, next) => state' = "PAID_VERIFIED"
  BY <1>1 DEF StateAfter
<1>5. state \in AfterRefund => state' \in AfterRefund
  BY <1>1, RefundMoves
<1>6. state \in PaidStates => state' \in PaidStates
  BY <1>1, PaidMoves
<1>7. state' \in PaidStates => state \in PaidStates \/ good
  <2>1. CASE ~good /\ state \notin PaidStates
    <3>1. next = "PAYMENT_FAILED" /\ "PAYMENT_FAILED" \in OrderStates
      BY <2>1 DEF OrderStates
    <3> QED
      BY <1>1, <2>1, <3>1, UnpaidMoves DEF Unpaid, TypeOK
  <2> QED
    BY <2>1
<1>8. "PAID_VERIFIED" \in PaidStates
  BY DEF PaidStates, Successful
<1> HIDE DEF good, next
<1> QED
  BY <1>1, <1>2, <1>3, <1>4, <1>5, <1>6, <1>7, <1>8
     DEF StateOK, PaidIsCaptured, ProcessedIsPaid, RefundOK

\* Goods are shipped from PAID_VERIFIED, where no refund has been requested;
\* a refund is requested only where the goods have failed to ship.
LEMMA AftermathState ==
  ASSUME TypeOK, StateOK, Aftermath
  PROVE  StateOK' /\ (state \in PaidStates => state' \in PaidStates)
<1>1. UNCHANGED <<agentPay, pay, processed>>
  BY DEF Aftermath, Fulfil, Compensate, Compensated, moneyVars, outsideVars
<1>2. ASSUME NEW fails \in BOOLEAN, Fulfil(fails)
      PROVE  state \in PaidStates /\ state' \in PaidStates /\ RefundOK'
  BY <1>2 DEF Fulfil, StateOK, RefundOK, PaidStates, Successful, AfterRefund, outsideVars
<1>3. ASSUME NEW r \in Refunders, Compensate(r)
      PROVE  state \in PaidStates /\ state' \in PaidStates /\ RefundOK'
  BY <1>3 DEF Compensate, RefundOK, PaidStates, AfterRefund
<1>4. ASSUME NEW r \in Refunders, Compensated(r)
      PROVE  /\ state \in PaidStates <=> state' \in PaidStates
             /\ RefundOK'
  <2> PICK next \in {"REFUNDED", "MANUAL_REVIEW"} : state' = StateAfter(state, next)
    BY <1>4 DEF Compensated
  <2>1. next \in OrderStates /\ next \notin {"PAID_VERIFIED", "FULFILMENT_PENDING", "FULFILLED"}
    BY DEF OrderStates
  <2>2. state \in PaidStates => state' \in PaidStates
    BY PaidMoves
  <2>3. state \in Unpaid => state' \in Unpaid
    BY <2>1, UnpaidMoves
  <2>4. state \in AfterRefund => state' \in AfterRefund
    BY <2>1, RefundMoves
  <2> QED
    BY <1>4, <2>2, <2>3, <2>4 DEF Compensated, StateOK, RefundOK, Unpaid, TypeOK
<1> QED
  BY <1>1, <1>2, <1>3, <1>4 DEF Aftermath, StateOK, PaidIsCaptured, ProcessedIsPaid

\* Every step keeps what is known of the state, and a paid order stays paid.
LEMMA StateStep ==
  ASSUME TypeOK, VerifyOK, StateOK, [Next]_vars
  PROVE  StateOK' /\ (state \in PaidStates => state' \in PaidStates)
<1>1. CASE Conversation \/ (Purchase /\ ~ConfirmX402) \/ VerifyOtherOrder
  BY <1>1, SteadySteps DEF Steady
<1>2. CASE ConfirmX402
  BY <1>2, ConfirmState
<1>3. CASE Razorpay /\ ~VerifyOtherOrder
  <2>1. ASSUME NEW p \in Payments, CustomerPays(p) \/ MockCapture(p)
        PROVE  StateOK' /\ Steady
    BY <2>1, PaymentState
  <2>2. ASSUME NEW v \in Verifiers, VerifyError(v) \/ \E p \in Payments, signed \in BOOLEAN :
                                                             VerifyCall(v, p, signed)
        PROVE  StateOK' /\ Steady
    <3>1. UNCHANGED <<state, agentPay, pay, processed, refundCalls>>
      BY <2>2 DEF VerifyError, VerifyCall, moneyVars
    <3> QED
      BY <3>1, SteadyFrame DEF Steady
  <2> QED
    BY <1>3, <2>1, <2>2, WebhookState, ReturnState DEF Razorpay, Steady
<1>4. CASE Aftermath
  BY <1>4, AftermathState
<1>5. CASE UNCHANGED vars
  BY <1>5, SteadyFrame DEF vars, moneyVars, outsideVars, Steady
<1> QED
  BY <1>1, <1>2, <1>3, <1>4, <1>5 DEF Next, Purchase

---------------------------------------------------------------------------
(* Theorems *)

\* createSession establishes the invariant.
LEMMA OrderInit ==
  ASSUME Init
  PROVE  OrderInv
<1>1. TypeOK
  <2>1. /\ paid \in [verified : BOOLEAN, rail : {None, "razorpay", "x402"}]
        /\ agentPay \in [status : {"none", "pending", "verified"}, envelope : Quotes \cup {None}]
    BY DEF Init, NoPayment, NoAgentPay
  <2>2. /\ pay \in [Payments -> PayStatus]
        /\ verifying \in [Verifiers -> [payment : Payments \cup {None}, record : Quotes \cup {None},
                                        signed : BOOLEAN, since : PayStatus]]
    BY DEF Init, NoVerify, PayStatus
  <2>3. state \in OrderStates /\ refundCalls \in 0..2
    BY DEF Init, OrderStates
  <2> QED
    BY <2>1, <2>2, <2>3 DEF Init, TypeOK
<1>2. MoneyOK
  BY DEF Init, MoneyOK, VerifyOK, OneInitiation, NoneBeforeOrder, OneRail, NoAgentPay
<1>3. StateOK
  BY DEF Init, StateOK, PaidIsCaptured, ProcessedIsPaid, RefundOK, PaidStates, Successful
<1> QED
  BY <1>1, <1>2, <1>3 DEF OrderInv

\* The invariant holds in every reachable state.
THEOREM OrderInvariant == Spec => []OrderInv
<1>1. OrderInv /\ [Next]_vars => OrderInv'
  BY TypeStep, MoneyStep, StateStep DEF OrderInv, MoneyOK
<1> QED
  BY <1>1, OrderInit, PTL DEF Spec

\* Every call of the session's API leaves every field with a value of its type.
THEOREM OrderTypeCorrect == Spec => []TypeOK
<1>1. OrderInv => TypeOK
  BY DEF OrderInv
<1> QED
  BY <1>1, OrderInvariant, PTL

\* An order counts as paid only on a captured payment or on Agent Pay.
THEOREM PaidOnlyIfCaptured == Spec => []PaidIsCaptured
<1>1. OrderInv => PaidIsCaptured
  BY DEF OrderInv, StateOK
<1> QED
  BY <1>1, OrderInvariant, PTL

\* An order settled through Agent Pay has no Razorpay order or payment.
THEOREM RailsExclude == Spec => []OneRail
<1>1. OrderInv => OneRail
  BY DEF OrderInv, MoneyOK
<1> QED
  BY <1>1, OrderInvariant, PTL

\* A capture event is marked as processed only for a paid order.
THEOREM NoEventLost == Spec => []ProcessedIsPaid
<1>1. OrderInv => ProcessedIsPaid
  BY DEF OrderInv, StateOK
<1> QED
  BY <1>1, OrderInvariant, PTL

\* Goods for which a refund has been requested are not shipped.
THEOREM NeverShippedAndRefunded == Spec => []ShippedOrRefunded
<1>1. OrderInv => ShippedOrRefunded
  BY DEF OrderInv, StateOK, RefundOK, AfterRefund, ShippedOrRefunded
<1> QED
  BY <1>1, OrderInvariant, PTL

\* A paid order never returns to an unpaid state.
THEOREM PaidStaysPaid == Spec => PaidNeverUnpaid
<1>1. OrderInv /\ [Next]_vars => [(state \in PaidStates) => (state' \in PaidStates)]_vars
  BY StateStep DEF OrderInv, MoneyOK
<1> QED
  BY <1>1, OrderInvariant, PTL DEF Spec, PaidNeverUnpaid

\* The Razorpay order of a session is created once: an initiation that is
\* under way excludes an order that exists.
THEOREM OneExternalOrder == Spec => ExternalOrderIsStable
<1>1. ASSUME OrderInv, [Next]_vars, extOrder # None
      PROVE  extOrder' = extOrder
  <2> USE DEF moneyVars, quoteVars, outsideVars
  <2>1. initiating = {}
    BY <1>1 DEF OrderInv, MoneyOK, OneInitiation
  <2>2. CASE Conversation
    BY <2>2 DEF Conversation, Restart, Answer, Search, IntentPatch
  <2>3. CASE Purchase
    BY <2>1, <2>3 DEF Purchase, BuildQuote, Tamper, Initiated, Approve, Lapse, Initiate,
                      PrepareX402, ConfirmX402
  <2>4. CASE Razorpay
    BY <2>4 DEF Razorpay, VerifyOtherOrder, CustomerPays, MockCapture, Webhook, VerifyCall,
                VerifyReturn, VerifyError
  <2>5. CASE Aftermath
    BY <2>5 DEF Aftermath, Fulfil, Compensate, Compensated
  <2>6. CASE UNCHANGED vars
    BY <2>6 DEF vars
  <2> QED
    BY <1>1, <2>2, <2>3, <2>4, <2>5, <2>6 DEF Next
<1>2. OrderInv /\ [Next]_vars => [extOrder # None => extOrder' = extOrder]_vars
  BY <1>1
<1> QED
  BY <1>2, OrderInvariant, PTL DEF Spec, ExternalOrderIsStable
=============================================================================
