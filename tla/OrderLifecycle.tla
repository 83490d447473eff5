--------------------------- MODULE OrderLifecycle ---------------------------
(***************************************************************************)
(* One logical order of getServices(): its state machine, its envelope and *)
(* approval, the two payment rails, the Razorpay webhook and the refund.   *)
(*                                                                         *)
(* respond, buildQuote, approve, initiatePayment, the two x402 order calls *)
(* and intentPatch run under the session lock; verifyPayment, fulfil,      *)
(* compensate, tamper and the webhook do not.  JavaScript runs a call to   *)
(* its next await without interruption, so an action is one such stretch.  *)
(* The calls that await Razorpay are split there.                          *)
(*                                                                         *)
(* setState throws on an illegal transition; what a call assigned before   *)
(* stays assigned, and the state stays where it was.                       *)
(*                                                                         *)
(* The requests present no session token: the session lives in the memory  *)
(* of one instance, and importSession does not replace it.                 *)
(***************************************************************************)
EXTENDS Naturals, OrderMachine

CONSTANTS
    Quotes,         \* envelope digests (bound; one out of use is as good as a fresh one)
    AmountOf,       \* the total of each envelope
    Payments,       \* Razorpay payment ids
    Verifiers,      \* concurrent verifyPayment calls
    Refunders,      \* concurrent compensate calls
    Modes,          \* the values of isMock that are looked at
    None

ASSUME ModesAssumption == Modes \subseteq BOOLEAN
ASSUME NoneAssumption == None \notin Quotes \cup Payments \cup {"x402"}

VARIABLES
    isMock,         \* fixed at start-up: mock Razorpay adapter and Agent Pay, or live Razorpay
    state,          \* session.state
    ranked,         \* the current intent yields recommendations
    envelope,       \* digest of the current envelope
    bound,          \* the envelope is bound to the current recommendation and intent
    lapsed,         \* the envelope is past its expiry
    approved,       \* session.approvedDigest (set and cleared with approvalEventId)
    initiating,     \* envelopes of initiatePayment calls awaiting Razorpay
    extOrder,       \* session.externalOrderId, as the envelope it was created for
    paid,           \* [verified, rail] of session.verification
    paymentId,      \* session.externalPaymentId
    agentPay,       \* session.x402OrderPayment
    held,           \* session.heldWebhook
    processed,      \* payments whose capture event is in webhookDedup
    pay,            \* the payments at Razorpay
    verifying,      \* verifyPayment calls awaiting Razorpay
    refunding,      \* compensate calls awaiting Razorpay
    refundCalls     \* refund requests sent to Razorpay, saturating at 2

quoteVars == <<ranked, envelope, bound, lapsed, approved>>
moneyVars == <<initiating, extOrder, paid, paymentId, agentPay, held, processed>>
outsideVars == <<isMock, pay, verifying, refunding, refundCalls>>
vars == <<state, quoteVars, moneyVars, outsideVars>>

PayStatus == {"none", "authorized", "captured"}
NoPayment == [verified |-> FALSE, rail |-> None]
NoAgentPay == [status |-> "none", envelope |-> None]
NoVerify == [payment |-> None, record |-> None, signed |-> FALSE, since |-> "none"]

TypeOK ==
    /\ isMock \in Modes
    /\ state \in OrderStates
    /\ ranked \in BOOLEAN /\ bound \in BOOLEAN /\ lapsed \in BOOLEAN
    /\ envelope \in Quotes \cup {None} /\ approved \in Quotes \cup {None}
    /\ bound => envelope # None
    /\ initiating \subseteq Quotes /\ extOrder \in Quotes \cup {None}
    /\ paid \in [verified : BOOLEAN, rail : {None, "razorpay", "x402"}]
    /\ paymentId \in Payments \cup {"x402", None}
    /\ agentPay \in [status : {"none", "pending", "verified"}, envelope : Quotes \cup {None}]
    /\ held \in Payments \cup {None} /\ processed \subseteq Payments
    /\ pay \in [Payments -> PayStatus]
    /\ verifying \in [Verifiers -> [payment : Payments \cup {None}, record : Quotes \cup {None},
                                    signed : BOOLEAN, since : PayStatus]]
    /\ refunding \subseteq Refunders
    /\ refundCalls \in 0..2

\* createSession.
Init ==
    /\ isMock \in Modes
    /\ state = "DRAFT"
    /\ ranked = FALSE /\ bound = FALSE /\ lapsed = FALSE
    /\ envelope = None /\ approved = None
    /\ initiating = {} /\ extOrder = None
    /\ paid = NoPayment /\ paymentId = None
    /\ agentPay = NoAgentPay
    /\ held = None /\ processed = {}
    /\ pay = [p \in Payments |-> "none"]
    /\ verifying = [v \in Verifiers |-> NoVerify]
    /\ refunding = {}
    /\ refundCalls = 0

\* Mutant: calls do not wait for the session lock.
UnlockedAlways == TRUE

\* withSessionLock: only initiatePayment gives up control while it holds it.
Unlocked == initiating = {}

FreshQuotes ==
    Quotes \ ({envelope, approved, extOrder, agentPay.envelope} \cup initiating
              \cup {verifying[v].record : v \in Verifiers})

---------------------------------------------------------------------------
(* Conversation: respond and intentPatch *)

\* Mutant: the dialogue keeps calling the deleted quote valid.
InvalidateQuoteKept(change) ==
    /\ envelope' = IF change THEN None ELSE envelope
    /\ approved' = IF change THEN None ELSE approved
    /\ UNCHANGED bound

\* A material change drops recommendations, quote, envelope and approval,
\* whatever the state of the order.
InvalidateQuote(change) ==
    /\ envelope' = IF change THEN None ELSE envelope
    /\ approved' = IF change THEN None ELSE approved
    /\ bound' = (bound /\ ~change)

\* restart: the dialogue is new, the state is not.
Restart ==
    /\ Unlocked
    /\ ranked' = FALSE
    /\ InvalidateQuote(TRUE)
    /\ UNCHANGED <<state, lapsed, moneyVars, outsideVars>>

\* compare, explain, select, a repeated message, or a state that takes no
\* more product messages: an answer, after the change has been applied.  A
\* request for something cheaper reopens the quote it has invalidated.
Answer(change, ranks) ==
    /\ Unlocked
    /\ change \/ ranks = ranked
    /\ ranked' = ranks
    /\ InvalidateQuote(change)
    /\ \/ UNCHANGED state
       \/ /\ change /\ envelope # None /\ state = "AWAITING_APPROVAL"
          /\ state' = "QUOTED"
    /\ UNCHANGED <<lapsed, moneyVars, outsideVars>>

\* search and refine: a new recommendation, to which no older quote is bound.
Search(change, ranks) ==
    /\ Unlocked
    /\ change \/ ranks = ranked
    /\ CanRank(state, change)
    /\ ranked' = ranks
    /\ envelope' = IF change THEN None ELSE envelope
    /\ approved' = IF change THEN None ELSE approved
    /\ bound' = FALSE
    /\ state' = IF ~ranks THEN StateAfter(state, "CLARIFYING")
                ELSE IF state = "REAPPROVAL_REQUIRED"
                        \/ (state = "AWAITING_APPROVAL" /\ envelope = None)
                THEN state
                ELSE StateAfter(state, "QUOTED")
    /\ UNCHANGED <<lapsed, moneyVars, outsideVars>>

\* Mutant: an illegal move to QUOTED is skipped instead of thrown.
PatchThrowsNever(change) == FALSE

PatchThrows(change) == ~Moves(state, PatchTarget(state, change))

\* intentPatch sets CLARIFYING directly, past the transition table.
IntentPatch(change, ranks) ==
    /\ Unlocked
    /\ change \/ ranks = ranked
    /\ ranked' = ranks
    /\ \/ /\ PatchThrows(change)
          /\ InvalidateQuote(change)
          /\ UNCHANGED state
       \/ /\ ~PatchThrows(change)
          /\ envelope' = IF change THEN None ELSE envelope
          /\ approved' = IF change THEN None ELSE approved
          /\ bound' = FALSE
          /\ state' = IF ~ranks THEN "CLARIFYING"
                      ELSE IF PatchTarget(state, change) = "CLARIFYING" THEN "QUOTED"
                      ELSE PatchTarget(state, change)
    /\ UNCHANGED <<lapsed, moneyVars, outsideVars>>

---------------------------------------------------------------------------
(* Envelope and approval *)

\* buildQuote stores the new envelope before it moves the state.
BuildQuote(q) ==
    /\ Unlocked
    /\ ranked
    /\ q \in FreshQuotes
    /\ envelope' = q
    /\ bound' = TRUE
    /\ lapsed' = FALSE
    /\ state' = StateAfter(state, "AWAITING_APPROVAL")
    /\ UNCHANGED <<ranked, approved, moneyVars, outsideVars>>

\* approve(orderId, envelope.digest); a digest approved before is answered
\* without a change.
Approve ==
    /\ Unlocked
    /\ envelope # None /\ bound
    /\ approved # envelope
    /\ \/ lapsed /\ state' = StateAfter(state, "EXPIRED") /\ UNCHANGED approved
       \/ ~lapsed /\ state' = StateAfter(state, "APPROVED") /\ approved' = envelope
    /\ UNCHANGED <<ranked, envelope, bound, lapsed, moneyVars, outsideVars>>

\* tamper replaces the envelope by one that differs in price or in variant.
Tamper(q) ==
    /\ envelope # None
    /\ q \in FreshQuotes
    /\ envelope' = q
    /\ approved' = None
    /\ state' = StateAfter(state, "REAPPROVAL_REQUIRED")
    /\ UNCHANGED <<ranked, bound, lapsed, moneyVars, outsideVars>>

Lapse ==
    /\ envelope # None /\ ~lapsed
    /\ lapsed' = TRUE
    /\ UNCHANGED <<state, ranked, envelope, bound, approved, moneyVars, outsideVars>>

\* checkEnvelopeForPayment and the quote checks before it.  Merchant, rail,
\* amount and mandate lifetime hold for every envelope of the catalogue.
PolicyAllows == envelope # None /\ bound /\ approved = envelope /\ ~lapsed

---------------------------------------------------------------------------
(* Razorpay: initiatePayment, verifyPayment and the webhook *)

Initiate ==
    /\ Unlocked
    /\ PolicyAllows
    /\ state \notin Successful
    /\ agentPay.status # "verified"
    /\ \/ /\ extOrder # None
          /\ state' = IF state = "PAYMENT_FAILED" THEN "PAYMENT_PENDING" ELSE state
          /\ UNCHANGED initiating
       \/ /\ extOrder = None
          /\ Moves(state, "PAYMENT_PENDING")
          /\ state' = "PAYMENT_PENDING"
          /\ initiating' = initiating \cup {envelope}
    /\ UNCHANGED <<quoteVars, extOrder, paid, paymentId, agentPay, held, processed, outsideVars>>

\* The order call returns: an order id, or an error.
Initiated(q) ==
    /\ q \in initiating
    /\ initiating' = initiating \ {q}
    /\ \/ extOrder' = q /\ UNCHANGED state
       \/ state' = StateAfter(state, "PAYMENT_FAILED") /\ UNCHANGED extOrder
    /\ UNCHANGED <<quoteVars, paid, paymentId, agentPay, held, processed, outsideVars>>

\* The customer pays the order in the checkout; Razorpay captures one payment.
CustomerPays(p) ==
    /\ ~isMock
    /\ extOrder # None
    /\ \A q \in Payments : pay[q] # "captured"
    /\ pay' = [pay EXCEPT ![p] = IF @ = "none" THEN "authorized" ELSE "captured"]
    /\ UNCHANGED <<state, quoteVars, moneyVars, isMock, verifying, refunding, refundCalls>>

\* mockCapture signs a new payment of the mock order, as often as it is asked.
MockCapture(p) ==
    /\ isMock
    /\ extOrder # None /\ agentPay.status # "verified"
    /\ pay[p] = "none"
    /\ pay' = [pay EXCEPT ![p] = "captured"]
    /\ UNCHANGED <<state, quoteVars, moneyVars, isMock, verifying, refunding, refundCalls>>

\* verifyPayment for an order id that is not the session's.
VerifyOtherOrder ==
    /\ envelope # None /\ ~paid.verified
    /\ state' = StateAfter(state, "PAYMENT_FAILED")
    /\ UNCHANGED <<quoteVars, moneyVars, outsideVars>>

\* verifyPayment up to its await; only Razorpay signs, and only real payments.
VerifyCall(v, p, signed) ==
    /\ verifying[v] = NoVerify
    /\ envelope # None /\ ~paid.verified /\ extOrder # None
    /\ signed => pay[p] # "none"
    /\ verifying' = [verifying EXCEPT ![v] =
           [payment |-> p, record |-> envelope, signed |-> signed, since |-> pay[p]]]
    /\ UNCHANGED <<state, quoteVars, moneyVars, isMock, pay, refunding, refundCalls>>

\* Order, amount, currency and status of the fetched payment against the
\* envelope that was read before the await.  The mock adapter reports the
\* amount it is told to expect.
BindingHolds(record, status) ==
    (isMock \/ AmountOf[extOrder] = AmountOf[record]) /\ status = "captured"

\* After the await: the result is stored, then the state moves or setState
\* throws.  A payment fetched as authorized counts as verified here, and fails
\* the binding.
VerifyReturn(v, status) ==
    LET call == verifying[v]
        good == call.signed /\ BindingHolds(call.record, status)
        next == IF good THEN "PAID_VERIFIED" ELSE "PAYMENT_FAILED"
        reconciled == good /\ Moves(state, next) /\ held # None IN
    /\ call # NoVerify
    /\ status \in {call.since, pay[call.payment]}
    /\ verifying' = [verifying EXCEPT ![v] = NoVerify]
    /\ paid' = [verified |-> call.signed, rail |-> "razorpay"]
    /\ paymentId' = call.payment
    /\ state' = StateAfter(state, next)
    /\ held' = IF reconciled THEN None ELSE held
    /\ processed' = IF reconciled THEN processed \cup {held} ELSE processed
    /\ UNCHANGED <<quoteVars, initiating, extOrder, agentPay, isMock, pay, refunding, refundCalls>>

\* Razorpay does not answer: the exception leaves the session as it is.
VerifyError(v) ==
    /\ verifying[v] # NoVerify
    /\ verifying' = [verifying EXCEPT ![v] = NoVerify]
    /\ UNCHANGED <<state, quoteVars, moneyVars, isMock, pay, refunding, refundCalls>>

\* Mutant: the status of the payment in the event is not looked at.
EventBindsAnyStatus(status) == envelope # None /\ AmountOf[extOrder] = AmountOf[envelope]

\* processRazorpayWebhookRaw compares the event with the current envelope.
EventBinds(status) ==
    envelope # None /\ AmountOf[extOrder] = AmountOf[envelope] /\ status = "captured"

\* markVerifiedFromWebhook.
WebhookPays(p) ==
    /\ state = "PAYMENT_PENDING"
    /\ processed' = processed \cup {p}
    /\ paymentId' = p
    /\ paid' = [verified |-> TRUE, rail |-> "razorpay"]
    /\ state' = "PAID_VERIFIED"
    /\ UNCHANGED held

\* Mutant: a held event is already marked as processed.
WebhookHeldProcessed(p) ==
    /\ state = "PAYMENT_FAILED"
    /\ held' = p
    /\ processed' = processed \cup {p}
    /\ UNCHANGED <<state, paid, paymentId>>

\* holdWebhook.
WebhookHeld(p) ==
    /\ state = "PAYMENT_FAILED"
    /\ held' = p
    /\ UNCHANGED <<state, paid, paymentId, processed>>

WebhookNoted(p) ==
    /\ state \in Successful
    /\ processed' = processed \cup {p}
    /\ UNCHANGED <<state, paid, paymentId, held>>

\* An event for payment p, delivered late, again or out of order; an event in
\* any other state, or one that does not bind, is refused without a change.
Webhook(p, status) ==
    /\ pay[p] # "none" /\ status \in {"authorized", pay[p]}
    /\ p \notin processed
    /\ EventBinds(status)
    /\ WebhookPays(p) \/ WebhookHeld(p) \/ WebhookNoted(p)
    /\ UNCHANGED <<quoteVars, initiating, extOrder, agentPay, outsideVars>>

---------------------------------------------------------------------------
(* Agent Pay: the mock x402 order rail *)

\* Mutant: a Razorpay order that exists but is not verified is overlooked.
RailTakenVerified == paid.verified \/ state \in Successful

\* Another rail has started or succeeded.
RailTaken == paid.verified \/ extOrder # None \/ state \in Successful

PrepareX402 ==
    /\ Unlocked /\ isMock
    /\ ~RailTaken /\ agentPay.status # "verified"
    /\ PolicyAllows
    /\ agentPay.envelope # envelope
    /\ agentPay' = [status |-> "pending", envelope |-> envelope]
    /\ UNCHANGED <<state, quoteVars, initiating, extOrder, paid, paymentId, held, processed,
                   outsideVars>>

\* confirmX402OrderPayment does not look at the expiry again.
ConfirmX402 ==
    /\ Unlocked
    /\ agentPay.status = "pending"
    /\ envelope = agentPay.envelope /\ approved = envelope /\ bound
    /\ ~RailTaken
    /\ agentPay' = [agentPay EXCEPT !.status = "verified"]
    /\ paid' = [verified |-> TRUE, rail |-> "x402"]
    /\ paymentId' = "x402"
    /\ state' = IF Moves(state, "PAYMENT_PENDING") THEN "PAID_VERIFIED" ELSE state
    /\ UNCHANGED <<quoteVars, initiating, extOrder, held, processed, outsideVars>>

---------------------------------------------------------------------------
(* Fulfilment and compensation *)

\* Mutant: fulfil leaves the check of the state to the transition table.
FulfilAnyState(fails) ==
    /\ Moves(state, "FULFILMENT_PENDING")
    /\ state' = IF fails THEN "FULFILMENT_FAILED" ELSE "FULFILLED"
    /\ UNCHANGED <<quoteVars, moneyVars, outsideVars>>

Fulfil(fails) ==
    /\ state = "PAID_VERIFIED"
    /\ state' = IF fails THEN "FULFILMENT_FAILED" ELSE "FULFILLED"
    /\ UNCHANGED <<quoteVars, moneyVars, outsideVars>>

\* compensate up to its await; the mock rail has none.
Compensate(r) ==
    /\ r \notin refunding
    /\ state \in {"FULFILMENT_FAILED", "COMPENSATION_PENDING"}
    /\ envelope # None /\ paymentId # None
    /\ \/ /\ paid.rail = "x402"
          /\ state' = "REFUNDED"
          /\ UNCHANGED <<refunding, refundCalls>>
       \/ /\ paid.rail # "x402"
          /\ state' = "COMPENSATION_PENDING"
          /\ refunding' = refunding \cup {r}
          /\ refundCalls' = IF refundCalls = 2 THEN 2 ELSE refundCalls + 1
    /\ UNCHANGED <<quoteVars, moneyVars, isMock, pay, verifying>>

Compensated(r) ==
    /\ r \in refunding
    /\ refunding' = refunding \ {r}
    /\ \E next \in {"REFUNDED", "MANUAL_REVIEW"} : state' = StateAfter(state, next)
    /\ UNCHANGED <<quoteVars, moneyVars, isMock, pay, verifying, refundCalls>>

---------------------------------------------------------------------------

Conversation ==
    \/ Restart
    \/ \E change, ranks \in BOOLEAN :
          Answer(change, ranks) \/ Search(change, ranks) \/ IntentPatch(change, ranks)

Purchase ==
    \/ \E q \in Quotes : BuildQuote(q) \/ Tamper(q) \/ Initiated(q)
    \/ Approve \/ Lapse \/ Initiate
    \/ PrepareX402 \/ ConfirmX402

Razorpay ==
    \/ VerifyOtherOrder
    \/ \E p \in Payments : CustomerPays(p) \/ MockCapture(p)
    \/ \E p \in Payments, status \in PayStatus : Webhook(p, status)
    \/ \E v \in Verifiers :
          \/ \E p \in Payments, signed \in BOOLEAN : VerifyCall(v, p, signed)
          \/ \E status \in PayStatus : VerifyReturn(v, status)
          \/ VerifyError(v)

Aftermath ==
    \/ \E fails \in BOOLEAN : Fulfil(fails)
    \/ \E r \in Refunders : Compensate(r) \/ Compensated(r)

Next == Conversation \/ Purchase \/ Razorpay \/ Aftermath

Spec == Init /\ [][Next]_vars

---------------------------------------------------------------------------
(* Properties *)

\* An order that has been paid never returns to an unpaid state, although
\* messages, intent patches, late verifications and events of other payments
\* still reach it.
PaidNeverUnpaid == [][(state \in PaidStates) => (state' \in PaidStates)]_vars

\* An order counts as paid only on a captured Razorpay payment or on a
\* verified Agent Pay payment, never on an authorization.
PaidIsCaptured ==
    state \in PaidStates =>
        agentPay.status = "verified" \/ \E p \in Payments : pay[p] = "captured"

\* At most one rail succeeds: an order settled through Agent Pay has no
\* captured Razorpay payment, and cannot get one.
OneRail ==
    agentPay.status = "verified" =>
        extOrder = None /\ initiating = {} /\ \A p \in Payments : pay[p] = "none"

\* A capture event is deduplicated only once its payment has made the order
\* paid: no delivery is acknowledged as processed and lost.
ProcessedIsPaid == processed # {} => state \in PaidStates

\* The Razorpay order of a session is created once: repeated and concurrent
\* initiations return it.
ExternalOrderIsStable == [][extOrder # None => extOrder' = extOrder]_vars

\* Goods for which a refund has been requested are never shipped.
ShippedOrRefunded == refundCalls > 0 => state # "FULFILLED"

\* A fulfilment failure starts one refund request.
RefundedOnce == refundCalls <= 1

\* The envelope on which an order becomes paid is the one the customer has
\* approved.
ChargeIsApproved ==
    [][state # "PAID_VERIFIED" /\ state' = "PAID_VERIFIED" =>
          envelope' # None /\ approved' = envelope']_vars
=============================================================================
