# agentready-commerce in TLA+

agentready-commerce is a shopping agent: a conversation leads to a quote (the
*envelope*), the customer approves the envelope's digest, and the order is paid
through Razorpay Checkout or through *Agent Pay*, a mock x402 rail. On the way the
agent itself buys a "fit score" from a paid HTTP resource that settles with x402 on
Solana devnet. The hard part is money moving through systems that answer late, twice
or never, while several serverless instances, webhooks and an operator work on the
same records. That is what these modules model.

## 1. Inventory

| Component | State it keeps | Operations | Interacts with |
|---|---|---|---|
| **x402 settlement store** (`packages/payments/src/x402-settlement-store.ts`, `migrations/`) | table `x402_settlement_attempts`: status, payload, payer, hash, lease, fence, release | resolveOrCreate, claimForSettle, revalidateForSettle, transition, claimRowForTakeover, releaseAttempt | every instance of the paid resource and the operator CLI, as database roles `x402_app` / `x402_operator` |
| **x402 paid resource** (`packages/payments/src/devnet-machine.ts`) | none of its own: all state is in the store | accept, stagePreparedAttempt, joinStoredRow, completeSettlement, inspectTransaction | store, facilitator (verify, settle), Solana RPC |
| **operator CLI** (`packages/payments/operator-cli.mjs`, `operator.ts`) | none | release, reconcile-settled | store, Solana RPC |
| **order lifecycle** (`apps/web/lib/services.ts`, `packages/domain`) | per session: state, intent, dialogue, envelope, approval, external order, verification, held webhook | createSession, respond, intentPatch, buildQuote, approve, tamper, initiatePayment, verifyPayment, mockCapture, prepare/confirmX402OrderPayment, fulfil, compensate | Razorpay adapter (awaits), webhook, LLM |
| **Razorpay webhook** (`apps/web/lib/webhook.ts`) | the deduplication map, the held event of a session | processRazorpayWebhookRaw | order lifecycle |
| **session snapshot tokens** (`apps/web/lib/session-token.ts`) | a sealed copy of the session at the client | exportSession, importSession | order lifecycle, audit ledger, webhook deduplication |
| **shopping page** (`apps/web/app/page.tsx`) | order id, token, busy flag, order state, checkout ids | one handler per button, refreshTimeline after most of them | the routes, on whichever instance answers |
| **machine spend** (`apps/web/lib/machine.ts`, `runFitScoreSpend`) | session.machineSpend, session.machineSpendAttempt | prepare, stage, post, mirror the reply | paid resource, settlement store |
| **catalogue, ranking and selection** (`packages/catalog`, `services.ts`) | none | rankProducts, validateCurrentSelection | dialogue |
| **interpreter and dialogue** (`apps/web/lib/interpreter`, `dialogue.ts`, `intent.ts`) | intent and its version, recommendation, its version and action token, quote validity | respond, intentPatch, buildQuote, approve | ranking, LLM, order lifecycle |
| operation coordinator, LLM budget, audit ledger, canonical JSON, conformance and demo routes, prototype pages | counters, lists, or none | see `PROJECT.json` | order lifecycle |

What is hard, and where:

* *Reads that are stale when used.* resolveOrCreate reads in four statements and then
  inserts; the operator's `release` asks the chain two questions in a row; verifyPayment
  reads the envelope before its await and binds the payment to it afterwards.
* *Crashes between two writes.* An instance dies after the settle request was sent and
  before its outcome is recorded; another instance must take over without paying again.
* *Late writers.* A worker paused past its lease resumes. Fences must stop it.
* *Unlocked calls.* verifyPayment, compensate, fulfil, tamper and the webhook do not take
  the session lock that respond, buildQuote, approve and initiatePayment take.
* *Delivery.* Webhooks come twice, late and out of order; clients retry.
* *Copies.* Each instance keeps its own copy of an order and the page carries a sealed one.
  The presented token wins; refreshes that nobody waits for replace the page's token; an
  instance that missed a change still holds the envelope that the change withdrew.
* *Version numbers that start again.* A restarted conversation counts its intents and
  recommendations from zero, while late selections and unfinished payments carry the old numbers.

What makes each part correct: a paid resource is served only for a settled attempt,
settled means a matching transaction on chain, no attempt is sent twice, a sent attempt
blocks its slot, resolved attempts stay resolved, calls end, and abandoned slots recover;
an order counts as paid only on a capture, stays paid, is paid on one rail, is charged on
the approved envelope, loses no event, and is shipped or refunded, once; a page that has
seen its order paid keeps seeing it paid, and a withdrawn quote stays withdrawn; the agent's
own spend is charged once per intent version and its result is shown only when paid; what is
quoted was shown, for the intent it was shown for, and still fits when it can be approved.

`PROJECT.json` lists the hazards one by one, with the line where each bites and the
property that would notice.

## 2. Modules

    PaymentAttempt <-implements- X402Accept --extends--> SettlementStore
                                     ^
                                     +-- MachineSpend (its client)
    OrderMachine <-- OrderLifecycle (one instance, awaits and locks)
                 <-- SessionTokens  (several instances, tokens, page)
                 <-- Conversation   (dialogue) --extends--> Ranking

### SettlementStore

The table and the statements that run against it. A *slot* is the pair (order, intent
version); the digest of a request is a function of the slot and of configuration. An
operation id is the slot with the authorisation revision (`Ops`). A *payload* is one
exact payment header; its digest, its identifier, its transaction and that transaction's
hash are functions of it, so the payload stands for each. Owner and fence are minted
together, so the fence stands for both.

| Code | Definition |
|---|---|
| `AttemptStatus`, `TERMINAL_RESOLVED`, table columns | `AttemptStatus`, `TerminalResolved`, `Row` |
| finders, the read half of resolveOrCreate | `FindBy...`, `ResolveCandidates`, `ReleaseRequired`, `NewAuth` |
| unique indexes of migrations 001 and 002 | `InsertConflict`, `SettledTwice` |
| insert and its conflict path | `NewRow`, `ConflictWinner` |
| claimForSettle, claimRowForTakeover | `CanClaim`/`ClaimedRow`, `CanTakeOver`/`TakenRow` |
| transition: WHERE clause, role trigger, effect | `HoldsLease`, `RoleAllows`, `TransitionResult`, `AfterTransition` |
| releaseAttempt | `ReleasedRow` |

`RoleGuarded` says whether the connection is one of the two roles the trigger of
migration 005 looks at. `apps/web/lib/machine.ts` requires `x402_app` for the deployed
store, so TRUE is the deployed system; FALSE is a connection as the table's owner. The
fence and lease of a row that is no longer in flight are dropped (`Kept`): no statement
reads them again.

### X402Accept

Workers (one `accept` or `stagePreparedAttempt` call each), the facilitator, the chain and
the operator over that table. `pc` names the await a worker stands at, `job` its local
variables, `reply` the response sent by the last step. Each action is the code between two
awaits that touch shared state:

| Code in `devnet-machine.ts` | Action |
|---|---|
| accept up to the reads of resolveOrCreate; the insert | `Call`, `Insert` |
| stagePreparedAttempt after resolveOrCreate | `Stage` |
| joinStoredRow: answer, takeover, reopening, reconciliation | `JoinStoredRow`, `TakeOver`, `Reopen`, `Reconcile` |
| claim; the claimed row carries another payload; blockhash; the two revalidations | `Claim`, `Abandon`, `Blockhash`, `Revalidate` |
| facilitator verify refused / accepted | `VerifyInvalid`, `VerifyValid` |
| facilitator settle sent; each way it can end | `Submit`, `SettleFails`, `SettleSucceeds` |
| completeSettlement: inspect and write, lost write, fail closed | `Complete`, `LostWrite`, `LostFailClosed` |
| operator-cli release | `ReleaseCheck`, `Release` |
| operator-cli reconcile-settled, persistReconciledSettlement | `ReconcileCheck`, `ReconcileClaim`, `ReconcileSettled` |
| outside the code | `Land`, `ExpireBlockhash`, `LapseLease`, `Crash` |

Choices a reader should know:

* The reads of resolveOrCreate are one step and its insert another: what happens between
  the reads is also possible between them and the insert, which checks the indexes again.
* The answer of an RPC call or of the facilitator and the write that follows are one step;
  the answer itself is local to the worker.
* A database outage in the middle of a call is a `Crash`: the exception leaves the row as
  the last write left it. A role-trigger exception is answered 500.
* The facilitator may name any hash in `Reported[p]`, and its verify and its settle may or may not name
  the payer (devnet-machine.ts:698, 783). A transfer that is compared with no payer is a mismatch
  (devnet-machine.ts:888). A landed transaction need not be `Conforming`.
* claimForReconcile and sweepCandidates have no caller outside tests; InMemorySettlementStore
  is the tests' double. Neither is modelled. Header validation and the kill switch return
  before any state is touched.

### PaymentAttempt

The abstract specification of an attempt: a request has one attempt under way; the payment of
an attempt is sent once, and from then on the attempt can only be settled, found mismatched or
left to an operator; a request is settled once; what is resolved stays resolved. Where an operator reconciles (`Adopts`) an
attempt may also be settled by a payment found on chain before its own has been handed over: the operator takes the row over and
writes `settled` without a settle request (`Adopt`). X402Accept
implements it (`ImplementsAttempts`) under the mapping `AbstractState`: a row with status pending,
settling or awaiting_evidence is `open` until its payment has been handed to the facilitator and `sent` afterwards; the
other statuses keep their names. Crashes, leases, fences and takeovers disappear in the mapping.
The abstract specification says nothing of the chain: two attempts of a request may both be sent, one
after the other, which is what `x402_charged_twice` makes use of.

### MachineSpend

The client of X402Accept: the fit-score spend that respond makes for a session. Its calls are
serialised by the session lock; the calls of the route run on X402Accept's workers and outlive a
client that gave up.

| Code | Action |
|---|---|
| respond, with the spend policy; the mock rail | `RespondMessage`, `ShouldSpend`, `MockSpend` |
| a restarted dialogue | `Restart` |
| runFitScoreSpend: findActiveAttempt | `FindAttempt` |
| prepareDevnetMachineSpend: sign, stagePreparedAttempt | `SignAndStage` |
| runDevnetMachineSpend: post, outcome, mirror | `Post`, `RouteStep`, `Outcomes`, `Mirror` |
| exception or death of the route, broken connection, death of the client | `RouteFails`, `TransportFails`, `ClientDies` |

One respond() runs at a time: withSessionLock serializes those of an instance. A respond() that the browser
gave up on and that still runs on one instance while a retry runs on another is not modelled; a *route* call
that goes on behind the client's back is.

A client that dies comes back with the session of the last token the browser got (`saved`). A slot is a
pair of order and intent version; `Versions` lists them, and `Restart` returns to the first.
The network answers of the route are modelled by the status it sends and by the step that sends it
(`Outcomes`): only the call that writes `settled` adds the PAYMENT-RESPONSE header, so a replayed 200 is no success for the client.

### OrderMachine

The sixteen states, `ALLOWED_TRANSITIONS`, setState's test (`Moves`, `StateAfter`) and the state guards of
respond and intentPatch (`CanRank`, `PatchTarget`), shared by the three modules below.

### OrderLifecycle

One order of `getServices()` in one warm instance. JavaScript runs a call to its next await
undisturbed, so an action is one such stretch. Of the calls under the session lock only
initiatePayment awaits after it has changed state; it is split into `Initiate` and
`Initiated`, and `Unlocked` is the lock. (respond awaits the LLM before it reads the
envelope and the state.) verifyPayment and compensate are split at their Razorpay calls
(`VerifyCall`/`VerifyReturn`/`VerifyError`, `Compensate`/`Compensated`).

| Data in the code | In the model |
|---|---|
| intent, dialogue, last ranking | `ranked` (the intent yields recommendations) and `bound` (the envelope belongs to the current recommendation) |
| envelope, its digest, its total | a member of `Quotes`, `AmountOf` |
| expiry | `lapsed`, set by the environment |
| approvedDigest and approvalEventId, always set and cleared together | `approved` |
| externalOrderId | the envelope the order was created for |
| webhookDedup, including the mark of markVerifiedFromWebhook | `processed` |
| isMock, fixed when the services are built | `isMock` |

setState throws on an illegal transition, and everything assigned before the throw stays
(`StateAfter`, `PatchThrows`). The mandate, merchant, rail and amount checks of
checkEnvelopeForPayment hold for every envelope the catalogue can produce and are not
distinguished. The requests present no session token (SessionTokens has them) and no operation
id (the routes pass none). Sequences that change nothing (a refused
webhook, a repeated approval) are stuttering steps. A live Razorpay order captures one
payment; the mock adapter captures as many as it is asked for.

### SessionTokens

Several instances without shared memory, and the page. A request is served in the step that sends
it (`Request`: restoreSession, the handler, tokenFor), by any instance; its reply is a step of its own
(`Deliver`, `DeliverStart`, `DeliverRestart`) or is lost (`LoseReply`). The page is busy in between.

After most replies it calls refreshTimeline without waiting (page.tsx:333 and eight more places), and it is no longer busy. A
refresh leaves with the token of that moment (`Ask`), is served by any instance at any later time
(`ServeRefresh`), and its answer arrives at any time after that and replaces the page's token, whichever is
newer (`RefreshArrives`): before, between or after the page's other requests, and behind a reload of the order. A refresh that
is not sent, or whose answer never arrives, stands for one that is lost.

| Code | Definition |
|---|---|
| importSession: the token wins, an absent envelope leaves the local one | `Restored` |
| importSession: every event id of the audit trail counts as processed | `Store` |
| exportSession | `Seal` |
| the handlers behind the routes | `Message`, `Patch`, `Restart`, `BuildQuote`, `Approve`, `Initiate`, `Verify`, `Settle`, `Fulfil`, `Compensate` |
| how a route answers: with a token, with a state only, with neither, or by throwing | `how` of `Result` |
| page.tsx, one request per handler | `Load`, `Send...` |
| void refreshTimeline, the audit route, its answer | `Ask`, `ServeRefresh`, `RefreshArrives` |
| webhook on the copy of the instance it reaches | `Webhook` |
| pruneSessionCache, a new process | `Evict`, `ColdStart` |

The handlers are those of OrderLifecycle without the awaits, prices, expiry and authorized payments: the
two modules share OrderMachine and split the rest of the question. The page may send any of its requests in any
state; page.tsx:1059-1077 hides one rail when the other has begun, so the model's page can do more than the real one. A handler
whose route throws leaves the page busy until it is loaded again, as in the code.

`rolledBack` is a history variable: it becomes true when the answer of a refresh that a request has overtaken (`late`) puts
another session, or another order, in the place of the page's token. `session-token.ts:97` takes for granted that this does not happen
("Callers are single-client UI flows that always present the newest token they hold"); the page does it. No action reads the
variable. Properties that end at a rolled-back token say so in their formula (section 3).

### Ranking and Conversation

`Ranking` is the six products of the catalogue with their prices, stock, lead times and ratings, eligibility, the
score of `evaluate` with its weights and its rounding, and the stable sort and cut of rankProducts. `Conversation` is the dialogue over it:
the parser's findings and the LLM's proposal are validated, merged and applied (`deterministicInterpretation`, `Valid`, `mergeInterpretation`,
`applyInterpretation`, `Enriched`); a material change withdraws recommendation, quote and approval (`WithIntent`, `Withdrawn`);
`Respond`, `IntentPatch`, `BuildQuote` and `Approve` are the four calls, each one step because the session lock is held; `NextDay` lets
the calendar move. A client may answer late with any binding a reply has given it (`given`), or with none. `issued` records every
recommendation made, so that the properties can ask what an action token stood for. A message is what the parser finds in it; the regular
expressions that find it are not modelled.

`HighestBudget` is the largest budget a chip can set and the ceiling of an intent without one.

### Proof modules

`X402AcceptProofs`, with `X402OnceProofs`, `X402AnswerProofs` and `X402EvidenceProofs` on top of it; `MachineSpendProofs` on top of
those; `OrderProofs`, `SessionProofs` and `ConversationProofs`. Each extends the module it is about (section 4).

### MC modules

The MC modules give the constants their values and define the symmetries. Workers, minted revisions, payments, verifiers and refunders are only ever
compared for equality. Payloads of one slot may be swapped together with their identifiers;
envelopes may be swapped when they have one price; so may the instances of SessionTokens. Orders, quotes and
checkouts of SessionTokens are handed out by CHOOSE and are not swapped. The liveness runs and the conversation use no symmetry.

## 3. Runs

| Run | Instance | Result | States |
|---|---|---|---|
| `x402_guarded` | 2 workers that accept and stage, 1 slot, 2 payments with 2 identifiers, roles enforced | TypeOK, ServedIsSettled, SettleCalledOnce, SentStaysBlocking, ResolvedIsFinal, ImplementsAttempts hold | 277,151 |
| `x402_operator` | 1 worker and the operator, 2 payments of which one does not conform, any hash reported | SettledIsPaid, MismatchIsUnpaid, SentStaysBlocking, ResolvedIsFinal, ReleasedNeverPays, ImplementsAttempts hold | 532,436 |
| `x402_recovery` | 2 workers, 1 payment, owner connection, fairness | CallsFinish, EvidenceSettles, SlotRecovers hold | 102,462 |
| `x402_charged_twice` | as x402_guarded, workers that accept | ChargedOnce is violated | |
| `x402_stuck` | as x402_recovery with 1 worker and the roles enforced | SlotRecovers is violated | |
| `machine_spend` | 2 workers of the route, 1 intent version, 2 payments under 2 identifiers, roles enforced, devnet and mock | SpendTypeOK, ScoresArePaid, PostedIsRetained, ClientChargedOnce hold | 1,407,484 |
| `order_lifecycle` | 3 envelopes of 2 prices, 2 payments, 1 verification and 2 refunds in flight, mock and live | TypeOK, PaidIsCaptured, OneRail, ProcessedIsPaid, ShippedOrRefunded, PaidNeverUnpaid, ExternalOrderIsStable hold | 514,896 |
| `order_refund_twice` | 2 envelopes, 1 payment, 2 refunds in flight | RefundedOnce is violated | |
| `order_charge_approved` | 2 envelopes of 1 price, 1 payment | ChargeIsApproved is violated | |
| `session` | 2 instances, 2 orders, 2 rankings, 1 quote, 2 checkouts; 6 requests, 1 refresh under way | SessionTypeOK, PaidIsPaid, OneCharge, WithdrawnIsDead, PaidUntilRolledBack hold | 2,009,929 |
| `session_rollback` | the same | PaidStaysPaid is violated | |
| `conversation` | 2 recommendations, 2 intent versions, 2 quotes, 2 days; 6 messages, 2 proposals, 3 edits | ConversationTypeOK, CurrentIsOfIntent, QuotedAsShown, ApprovableFitsIntent, ShortlistIsBest hold | 119,287 |

What some of them do not say.

* `ReleasedNeverPays`: once an attempt is released, its payment does not land; a payment
  that lands between the two questions of `release` is not noticed, and is released although it paid.
* `MismatchIsUnpaid` and `EvidenceSettles` are about rows that name a payer. The code calls a transfer that it can compare with no payer a mismatch,
  paid or not; `x402_operator` and `x402_recovery` reach such rows.
* `ClientChargedOnce` allows a second charge where one of the two attempts was *misjudged*: given up as a mismatch for want of a payer, or on another hash than
  its own. It says that there is no other way. It is per intent version: a client whose settled attempt is replayed without its header counts it as rejected and may
  pay again for the next version.
* `ApprovableFitsIntent` compares the budget with the price of the product, as the code does; the quote adds
  a shipping fee. It and `QuotedAsShown` do not cover a tampered envelope (section 6).
* `OneCharge`, `WithdrawnIsDead` and `PaidUntilRolledBack` end when a late refresh rolls the page's token back; `PaidIsPaid` does not.
  All of them hold of the page as it is, with its refreshes in flight: most refreshes bring no older token, and the properties go on through
  them. What follows a rolled-back token is the finding of `session_rollback`: `PaidStaysPaid` is `PaidUntilRolledBack` without its first conjunct, under the same constants.

**Bounds.** `Fences` is the number of claims that can be remembered at once: a token held by
no row, worker or operator is as good as a new one, so five tokens cover two workers, an
operator and two rows with room to spare. `Mints` bounds the attempts of a slot opened
without a cited approval; an attempt blocks its slot until it is resolved, so a second mint
already shows what follows a resolved attempt. Two payments and two workers give every
race of the store's statements, which involve one row and at most one rival each. `settleCalls`
and `refundCalls` saturate at 2, the first value that is wrong. `Quotes` is the number of envelopes remembered at
once (current, approved, ordered, read by a verification); three, of two prices, give an
old, a current and a differently priced one. Two payments give a stale and a good one.

In `machine_spend` the version can be paid under either of two identifiers: the one as a first attempt and its retries, the other as a
fresh start after an attempt that was given up. `Restart` returns to that version, as a conversation that counts its versions from the beginning again does.
In `session` all ids belong to the first order (`IdsOf`) and the second is what a restart or a reload begins: one quote
that can be withdrawn and left behind, two rankings so that an envelope can belong to the older one, two checkouts so that a second
one can be created by mistake. A payment takes three requests (quote, approve, initiate or settle), a
verification a fourth; `MaxRequests = 6` leaves at least two for a change of the intent, a retry, the other rail or a restart. `MaxRefreshes = 1` bounds the refreshes under way at
once: one is enough to be overtaken, and the next may leave as soon as it has arrived. In `conversation` two recommendations give a late answer and a current one, and one night passes, which is
what a delivery date that the LLM proposes just allows. The utterances are chosen for their effect: complete
the intent in a colour only one shoe has, remove a hard constraint, ask for less money, restart, explain, say nothing new; the proposals are
a selection with a deadline and a removal, and a budget out of range. A state at the bound of recommendations has no further ranking, and `Fresh` ids run out likewise.

**Deadlock** is checked in the x402, machine_spend, session and conversation runs. An order may end (`FULFILLED`, `REFUNDED`,
`EXPIRED`), so the three order runs do not check it.

**Fairness** (`X402Accept!Fairness`). A call that has started takes its next step: every
external call has a timeout (30 s for the facilitator, 15 s for RPC). A lease that nobody
renews lapses. Clients repeat a request that was answered with `retryable`, as
`apps/web/lib/machine.ts` does with the payload it has staged; the strong fairness of `Call`
says they do not give up. The RPC node is not unavailable for ever (strong fairness of a
`Reconcile` that gets an answer). `SlotRecovers` and `EvidenceSettles` further assume `Calm`: from some time on no
process dies, and a lease lapses only when nobody works under it, which is what a lease of
5 minutes against calls of 30 seconds is for. `CallsFinish` assumes only the first half.

**Mutants.** Each property of a passing run is broken by a variant of one definition that a plausible slip in the code would produce
(named `...Trusting`, `...AnyStatus`, `...Unfenced` and so on, defined just before the definition it varies).

### What the violated runs show

* **x402_charged_twice.** Worker A finds neither an active nor a settled attempt and is about
  to insert. B creates, sends and settles its own payment for the same request. A's insert meets no
  index (settled rows do not occupy the active slot, and the identifiers differ), and A's payment is
  sent too. Only A's write of `settled` is refused, after the second transfer.
  `migrations/002_x402_integrity.sql:20` promises a replay of the cached result instead.
* **x402_stuck.** A worker dies between its claim and its settle request. The takeover is
  allowed by migration 005, the write settling→pending that follows is not, so each retry
  takes the row over and fails. A refused verification meets the same wall (settling→rejected).
  With the owner's connection the same property holds (`x402_recovery`). The trade-off is
  visible in the mutants: `RoleAllowsAll` breaks `SettleCalledOnce`, because a row whose worker died
  *after* sending looks the same and would be reopened as well.
* **order_refund_twice.** compensate accepts `COMPENSATION_PENDING`, is not under the lock, and
  sends no idempotency key.
* **order_charge_approved.** buildQuote in `PAYMENT_PENDING` replaces the envelope and then throws;
  the webhook compares amounts only, so the order becomes paid on an envelope that was not approved.
* **session_rollback.** approve refreshes the timeline without waiting, and the customer pays with Agent Pay at once. The
  refresh was served before the settlement and arrives after its reply; it replaces the page's token by that of the `APPROVED` order.
  The next request presents it, importSession lets it win over the paid copy, and the page shows the order unpaid.

## 4. Proofs

TLAPS checks the following for all values of the constants: any number of workers, payments, instances, orders, messages and so on.

| Module | Theorem | Statement | Under |
|---|---|---|---|
| X402AcceptProofs | `TypeCorrect` | `Spec => []TypeOK` | |
| | `EvidenceBehindSettled` | `Spec => []SettledIsPaid` | |
| | `ResolvedRowsAreFinal` | `Spec => ResolvedIsFinal` | |
| | `ReleasedPaymentsAreDead` | `Spec => ReleasedNeverPays` | |
| X402OnceProofs | `SettlesOnce` | `Spec => []SettleCalledOnce` | `RoleGuarded` |
| | `SentBlocks` | `Spec => []SentStaysBlocking` | `RoleGuarded` |
| X402AnswerProofs | `ServedOnlySettled` | `Spec => []ServedIsSettled` | |
| X402EvidenceProofs | `MismatchesAreUnpaid` | `Spec => []MismatchIsUnpaid` | `RoleGuarded` |
| | `AttemptsImplemented` | `Spec => ImplementsAttempts` | `RoleGuarded` |
| MachineSpendProofs | `ClientIsAnEnvironment` | `SpendSpec => Spec` | `RoleGuarded` |
| | `SpendTypeCorrect` | `SpendSpec => []SpendTypeOK` | `RoleGuarded` |
| | `ShownScoresArePaid` | `SpendSpec => []ScoresArePaid` | `RoleGuarded` |
| | `PostsOnlyTheRetained` | `SpendSpec => []PostedIsRetained` | `RoleGuarded` |
| | `ChargedOncePerVersion` | `SpendSpec => []ClientChargedOnce` | `RoleGuarded` |
| OrderProofs | `OrderInvariant` | `Spec => []OrderInv` | |
| | `OrderTypeCorrect`, `PaidOnlyIfCaptured`, `RailsExclude`, `NoEventLost`, `NeverShippedAndRefunded` | `[]` of `TypeOK`, `PaidIsCaptured`, `OneRail`, `ProcessedIsPaid`, `ShippedOrRefunded` | |
| | `PaidStaysPaid`, `OneExternalOrder` | `PaidNeverUnpaid`, `ExternalOrderIsStable` | |
| SessionProofs | `SessionInvariant` | `Spec => []SessionInv` | |
| | `SessionTypeCorrect`, `CountedPaidIsPaid`, `ChargedOnce`, `WithdrawnStaysDead` | `[]` of `SessionTypeOK`, `PaidIsPaid`, `OneCharge`, `WithdrawnIsDead` | |
| | `PaidIsShownPaid` | `Spec => PaidUntilRolledBack` | |
| ConversationProofs | `ConversationInvariant` | `Spec => []ConversationInv` | |
| | `RecommendationIsCurrent`, `QuotesAreAsShown`, `ApprovalFitsIntent`, `ShortlistIsOfTheBest` | `[]` of `CurrentIsOfIntent`, `QuotedAsShown`, `ApprovableFitsIntent`, `ShortlistIsBest` | |
| | `ConversationTypeCorrect` | `Spec => []ConversationTypeOK` | `InputsTyped` |

So every safety property and every action property of a passing run is proved, and so is the refinement of PaymentAttempt.

### Assumptions

The named `ASSUME`s of the modules give the constants their types, and say that `None` is none of the values it stands beside and that there
is an order to begin with (`Orders`) and an intent version (`Versions`). The conditions of the last column are these:

* `RoleGuarded`: the connection is the role `x402_app`, as `apps/web/lib/machine.ts` demands of the deployed store.
* `InputsTyped`: what is found in a message is of its field's type, and so is what a chip edit sends for the four fields whose range intentPatch does not check.

### The arguments

*X402Accept: types and evidence.* `TypeOK` is not inductive: a running call dereferences its operation and
payload, and a busy operator its operation. `IndType` adds that (`Busy`, `OperOK`). For
`SettledIsPaid` a worker that writes `settled` has inspected the transaction in the same
step, but the operator checks the chain two steps before it writes; `OperPaid` carries its
finding across, and holds on because `landed` only grows. Each action has a lemma
`...Step` showing that it preserves `IndType` and `OperPaid`, and that each row is left
alone or makes a step allowed by `RowStep`: a resolved row is unchanged, and a row becomes settled only
on a paid transaction. The two invariants and the action properties follow from that one lemma per action.

*Once.* Under the role trigger a claimed row never becomes pending again, so an operation is
claimed at most once. `OnceInv` says so from the workers' side: a worker between its claim and its settle request
(`PreSubmit`) is the only one for its operation (`OneClaimer`), has not sent yet (`ClaimerUnsent`) and
carries the row's payload (`ClaimerOwnsPayload`); no row is ever rejected (`NoneRejected`). Most
actions are `Quiet`: they neither send nor start a claim. Only `Claim` and `Submit`
need an argument of their own.

*Answers.* A step sends no response, or sends one in the very step that reads or writes the row it is about (`Honoured`).

*Mismatches and the refinement.* After the one settle request there is at most one worker, the *settler*, that may say what became of it; any
other worker that writes the row has read it as awaiting evidence (*witness*) and holds the hash and the payer that the row still has. `EvidenceInv` is
that. Without it the prover can let a worker that read the row long ago give up a
row that somebody has settled, or judge it by a hash of another time. A step of X402Accept is then, row by row, a step of PaymentAttempt or none. The proof
attempt found one the abstract specification did not have: an operator who takes over a claimed row settles it before its worker has sent
anything. That is now `Adopt`, allowed only where an operator reconciles (`Adopts`), and `x402_operator` checks it.

*MachineSpend.* Each step of the client is a step of X402Accept or leaves it alone, so the theorems above hold behind
respond. `SpendInv` adds what the client brings: rows are inserted only by the staging call the client waits for, and only into a slot whose attempts are
all given up (`Staging`, `OneOpen`); a call past its intake works on the row bound to its payment (`Accepting`); what is posted is bound to a row (`Posting`);
scores in the session and in the saved token come from a settled row (`Scored`). One charge per version is then: an attempt that is not given up is the only one, and one
that is given up is unpaid (`MismatchesAreUnpaid`), unless it named no payer or another hash (`Misjudged`).

*OrderLifecycle.* `OrderInv` strengthens the properties by what the calls in flight carry across their awaits: a verification that saw a captured payment
is right to (`VerifyOK`), at most one initiation is under way and none once there is a Razorpay order (`OneInitiation`), nobody pays before there is one
(`NoneBeforeOrder`), and a requested refund keeps the order in the refund states (`RefundOK`).

*SessionTokens.* Each handler meets one contract, whatever case it works on: ids are the case's or new ones, no payment is forgotten, only approve approves and
only the quote of the current recommendation, only settle records an agent's payment (`Contract`; one lemma per handler). `SessionInv` has two parts, because a
rolled-back token destroys one and leaves the other.
`FactsInv` holds always. Ids are handed out once and belong to one order; every session, wherever it is kept or carried, is `Good` for its order: what it says of a
payment is true of `charged` and `spent`, which only grow (`Recorded` for a token, `RefreshInv` for refreshes). `PaidIsPaid` is a part of it, and holds for old tokens because true facts stay true.
`CourseInv` holds until `rolledBack`. Every token of the page's order that the page holds or will take in time is *live* (`Live`): it knows the Razorpay order and the paid state that the page has
seen, holds no withdrawn quote, and no instance or late refresh holds a withdrawn quote of its recommendation, which is why the envelope that importSession leaves
behind does no harm. `AgentInv` says where the knowledge of an agent's payment is while its reply travels, `ChargeInv` that the page's Razorpay order is the one to be
paid, and `AdriftInv` that a page which presents the token of an order it has left has done nothing for its new one that a payment would need.
The case of weight is `RefreshArrives`: an answer that is in time is live; a late one is live all the same, or another session takes the token's place and `rolledBack` is set. Webhooks, evictions and
new processes make steps that no token sees (`ServerStep`). TLC checked `SessionInv` on the `session` instance before it was proved.

*Ranking and Conversation.* The ranking lemmas: scores order the catalogue strictly once ties go to the earlier product, so the k-th place is taken by
exactly one product, and the three taken are eligible and no product left out is better. `ConversationInv` ties the action token to the recommendation it was issued with: a token
held by the session is that of the last one, made for the session's intent, and the envelope names a product it showed (`Held`, `HistoryOK`). A late binding
can only be accepted while its token is the session's, which is what makes version numbers that start again harmless.

### Only model-checked

* `CallsFinish`, `EvidenceSettles`, `SlotRecovers`: liveness under fairness is out of this prover's reach.
* What the violated runs say: a counterexample needs no proof.

## 5. Plan

Done: SettlementStore, X402Accept and its abstract specification, MachineSpend, OrderLifecycle, SessionTokens, Ranking,
Conversation, their runs, and the theorems of section 4. What is left:

1. **SessionTokens after a rolled-back token**: give the page the guards of its payment panel (a rail is offered only while the other has not begun) and
   find out with TLC which of `OneCharge` and `WithdrawnIsDead` survive a late refresh.
2. **The two sides of an order**: OrderLifecycle has the awaits, SessionTokens the copies. A common abstract specification (an order is charged once, stays
   paid, is shipped or refunded) that both are shown to implement would say what the two have in common.
3. **Hazards without a property** (`PROJECT.json`): the events that importSession counts as processed, and the refund that a message after payment makes impossible.

## 6. Not modelled

* *Operation coordinator.* The services accept an operation id, and neither the routes nor the page pass one: no behaviour of the
  running system goes through begin and complete.
* *LLM budget and provider.* A counter around I/O. Its exhaustion, like a failing or disabled LLM, is the `None` proposal of `Respond`.
* *Texts*: the regular expressions of the parser, explanations, roles of the matches, dialogue wording. Nothing reads them back.
* *Canonical form, hashing, signing, sealing*: a digest is an identity, and a token is what it seals. Token expiry (a day) is not reached.
* *Composition of awaits and imports.* An import may replace the session object while initiatePayment awaits Razorpay. OrderLifecycle has
  the awaits and SessionTokens the imports; their product is beyond TLC at bounds where both happen.
* *Two respond() calls at once*: each instance has its own session lock, so a respond() given up by the browser may run beside its retry on another instance.
  MachineSpend has one client at a time; two independent callers of the route are what `x402_charged_twice` shows.
* *A tampered quote in the dialogue*: `tamper` (services.ts:1505-1553) rewrites price or variant of an envelope and keeps its recommendation and intent digest. It is
  a step of OrderLifecycle (another envelope of another price); Conversation's envelope carries no size, and what it shows of approvals is shown of quotes that were not tampered with.
* *Reset and scripts*: `reset`, `resetDemo`, the conformance, scenario and demo routes work on sessions of their own.
* *Prototype pages, rendering, discovery documents, HTTP plumbing, the migration runner*: presentation and deployment.
