---------------------------- MODULE SessionTokens ----------------------------
(***************************************************************************)
(* An order that is spread over serverless instances and one page.  The    *)
(* instances share no memory: each reply carries the order sealed into a   *)
(* token, each request presents the page's token, and importSession lets   *)
(* it replace the instance's own copy (session-token.ts, page.tsx and the  *)
(* routes).                                                                *)
(*                                                                         *)
(* A request is served in the step that sends it, at any instance; its     *)
(* reply is a step of its own.  The page is busy until the reply is there. *)
(* It then refreshes the timeline without waiting: a refresh is served,    *)
(* and its reply arrives, at any time after, before or after the requests  *)
(* that the page has sent meanwhile.  Webhooks bring no token and change   *)
(* the copy of the instance they reach.                                    *)
(*                                                                         *)
(* The order's operations are those of OrderLifecycle without its awaits,  *)
(* price changes, quote expiry and authorized payments.  The intent stays  *)
(* complete, and no token gets a day old.                                  *)
(***************************************************************************)
EXTENDS Naturals, FiniteSets, OrderMachine

CONSTANTS
    Instances,
    Orders,         \* logical order ids
    Ranks,          \* recommendation action tokens
    Quotes,         \* envelope digests
    Checkouts,      \* Razorpay orders; each has one payment and one event
    IdsOf,          \* bound: the ids that each order can use up
    MaxRequests,    \* bound: the requests that the page sends, refreshes aside
    MaxRefreshes,   \* bound: the refreshes under way at once
    None

ASSUME OrdersAssumption == Orders # {}

\* newId never repeats: the ids of an order are its own.
ASSUME IdsAssumption == \A o, p \in Orders : o # p => IdsOf[o] \cap IdsOf[p] = {}

VARIABLES
    copy,           \* sessions of each instance
    env,            \* envelopes of each instance
    trail,          \* webhook events in the audit store of each instance
    dedup,          \* webhookDedup of each instance
    used,           \* ids given out
    charged,        \* the logical order for which a Razorpay order was paid
    spent,          \* the logical orders that Agent Pay has paid
    sent,           \* page: requests so far
    order,          \* page: orderId
    token,          \* page: tokenRef
    shown,          \* page: orderState
    checkout,       \* page: paymentIds.orderId
    reply,          \* page: the reply it waits for
    refreshes,      \* page: calls of refreshTimeline under way
    withdrawn,      \* quotes older than the last change the page has seen accepted
    rolledBack      \* history: a late refresh has put another session in the newest token's place

serverVars == <<copy, env, trail, dedup>>
pageVars == <<sent, order, token, shown, checkout, reply, refreshes, withdrawn, rolledBack>>
vars == <<serverVars, used, charged, spent, pageVars>>

Session ==
    [state : OrderStates, rank : Ranks \cup {None}, quoteValid : BOOLEAN,
     approved : Quotes \cup {None}, checkout : Checkouts \cup {None},
     verified : BOOLEAN, agentPaid : BOOLEAN, held : Checkouts \cup {None}]

\* createSession.
NewSession ==
    [state |-> "DRAFT", rank |-> None, quoteValid |-> FALSE, approved |-> None,
     checkout |-> None, verified |-> FALSE, agentPaid |-> FALSE, held |-> None]

Envelope == [digest : Quotes, rank : Ranks]
Token == [order : Orders, s : Session, e : Envelope \cup {None}, events : SUBSET Checkouts]

\* A reply on its way to the page; after is the order that a restart leaves.
Kinds == {"start", "message", "restart", "quote", "approve", "initiate", "verify", "settle",
          "fulfil", "compensate"}
Reply ==
    [kind : Kinds, order : Orders, after : Orders \cup {None}, change : BOOLEAN,
     token : Token \cup {None}, state : OrderStates \cup {None},
     how : {"sealed", "plain", "bare", "crash"}]

\* A refresh on its way: the token it presents or, once served, the token it
\* brings back; late when the page has sent a request since.
Refresh ==
    [order : Orders, token : Token \cup {None}, served : BOOLEAN, late : BOOLEAN]

ASSUME NoneAssumption ==
    /\ None \notin Orders \cup Ranks \cup Quotes \cup Checkouts \cup OrderStates
    /\ None \notin Session /\ None \notin Envelope /\ None \notin Token /\ None \notin Reply

SessionTypeOK ==
    /\ copy \in [Instances -> [Orders -> Session \cup {None}]]
    /\ env \in [Instances -> [Orders -> Envelope \cup {None}]]
    /\ trail \in [Instances -> [Orders -> SUBSET Checkouts]]
    /\ dedup \in [Instances -> SUBSET Checkouts]
    /\ charged \in [Checkouts -> Orders \cup {None}] /\ spent \subseteq Orders
    /\ sent \in Nat /\ order \in Orders /\ token \in Token \cup {None}
    /\ shown \in OrderStates /\ checkout \in (Checkouts \cap used) \cup {None}
    /\ withdrawn \subseteq Quotes /\ refreshes \subseteq Refresh
    /\ reply \in Reply \cup {None} /\ rolledBack \in BOOLEAN
    /\ \A i \in Instances, o \in Orders : env[i][o] # None => copy[i][o] # None

OneOf(S) == IF S = {} THEN {} ELSE {CHOOSE x \in S : TRUE}

\* newId: an id of a kind that the page's order has not had.
Fresh(kind) == OneOf((kind \cap IdsOf[order]) \ used)

\* The page has been loaded and has its first session, from instance i.
FirstSession(i) ==
    /\ order = CHOOSE o \in Orders : TRUE
    /\ copy = [j \in Instances |-> [o \in Orders |-> IF j = i /\ o = order THEN NewSession ELSE None]]
    /\ token = [order |-> order, s |-> NewSession, e |-> None, events |-> {}]
    /\ used = {order}

Init ==
    /\ \E i \in Instances : FirstSession(i)
    /\ env = [i \in Instances |-> [o \in Orders |-> None]]
    /\ trail = [i \in Instances |-> [o \in Orders |-> {}]]
    /\ dedup = [i \in Instances |-> {}]
    /\ charged = [c \in Checkouts |-> None] /\ spent = {}
    /\ sent = 0 /\ shown = "DRAFT" /\ checkout = None
    /\ reply = None /\ refreshes = {} /\ withdrawn = {} /\ rolledBack = FALSE

---------------------------------------------------------------------------
(* importSession and exportSession *)

\* Mutant: an instance that knows the order keeps its own copy.
RestoredUnlessKnown(i, o, t) ==
    IF t = None \/ t.order # o \/ copy[i][o] # None
    THEN [s |-> copy[i][o], e |-> env[i][o], events |-> {}]
    ELSE [s |-> t.s, e |-> t.e, events |-> t.events]

\* A token for this order wins; without an envelope it leaves the instance's
\* own envelope where it is.
Restored(i, o, t) ==
    IF t = None \/ t.order # o
    THEN [s |-> copy[i][o], e |-> env[i][o], events |-> {}]
    ELSE [s |-> t.s, e |-> IF t.e = None THEN env[i][o] ELSE t.e, events |-> t.events]

\* What the handler leaves in the instance; every event of the snapshot's
\* audit trail counts as processed.
Store(i, o, s, e, seen, done) ==
    /\ copy' = [copy EXCEPT ![i][o] = s]
    /\ env' = [env EXCEPT ![i][o] = e]
    /\ trail' = [trail EXCEPT ![i][o] = @ \cup seen]
    /\ dedup' = [dedup EXCEPT ![i] = @ \cup done]

Seal(i, o) ==
    IF copy'[i][o] = None THEN None
    ELSE [order |-> o, s |-> copy'[i][o], e |-> env'[i][o], events |-> trail'[i][o]]

---------------------------------------------------------------------------
(* The handlers, on the restored order c.  A reply carries a token and the *)
(* state ("sealed"), the state ("plain"), neither ("bare"), or the route   *)
(* throws and the page stays busy ("crash").                               *)

Result(s, e, ids, how) == [s |-> s, e |-> e, ids |-> ids, done |-> {}, how |-> how]
Refuse(c) == {Result(c.s, c.e, {}, "sealed")}

Move(s, next) == [s EXCEPT !.state = StateAfter(@, next)]

\* A move that setState refuses is thrown after the assignments before it.
Moved(s, e, ids, next, thrown) ==
    {Result(Move(s, next), e, ids, IF Moves(s.state, next) THEN "sealed" ELSE thrown)}

\* A material change withdraws recommendations, quote and approval.
Dropped(s, change) ==
    [s EXCEPT !.quoteValid = @ /\ ~change,
              !.approved = IF change THEN None ELSE @,
              !.rank = IF change THEN None ELSE @]

\* respond, with or without a material change of the intent.
Message(c, change) ==
    LET s == Dropped(c.s, change)
        e == IF change THEN None ELSE c.e
        stays == s.state = "REAPPROVAL_REQUIRED" \/ (s.state = "AWAITING_APPROVAL" /\ c.e = None)
    IN IF ~CanRank(s.state, change) \/ (~change /\ s.rank # None) THEN {Result(s, e, {}, "sealed")}
       ELSE {Result([Move(s, IF stays THEN s.state ELSE "QUOTED") EXCEPT !.rank = k],
                    e, {k}, "sealed") : k \in Fresh(Ranks)}

\* intentPatch; one for another intent version is refused and changes nothing.
Patch(c, change) ==
    LET s == Dropped(c.s, change)
        e == IF change THEN None ELSE c.e
        target == PatchTarget(s.state, change)
        next == IF target = "CLARIFYING" THEN "QUOTED" ELSE target
    IN (IF change THEN {} ELSE Refuse(c)) \cup
       IF ~Moves(s.state, target) THEN {Result(s, e, {}, "bare")}
       ELSE {Result([s EXCEPT !.state = next, !.rank = k], e, {k}, "sealed") : k \in Fresh(Ranks)}

\* respond(restart): a new dialogue in the same order.
Restart(c) == {Result(Dropped(c.s, TRUE), None, {}, "sealed")}

\* buildQuote ranks again when there is no current recommendation; whether it
\* takes the selection is left open here.
BuildQuote(c) ==
    LET ranks == IF c.s.rank = None THEN Fresh(Ranks) ELSE {c.s.rank}
        ranked(k) == [c.s EXCEPT !.rank = k] IN
    {Result(ranked(k), c.e, {k}, "sealed") : k \in ranks}
    \cup UNION {UNION {Moved([ranked(k) EXCEPT !.quoteValid = TRUE], [digest |-> q, rank |-> k],
                             {k, q}, "AWAITING_APPROVAL", "bare") : q \in Fresh(Quotes)} : k \in ranks}

\* Mutant: only the digest is compared, not the recommendation of the envelope.
BoundByDigest(c) == c.e # None

\* The envelope belongs to the current recommendation.
Bound(c) == c.e # None /\ c.s.quoteValid /\ c.s.rank # None /\ c.e.rank = c.s.rank

Approve(c, d) ==
    IF ~Bound(c) \/ c.s.approved = d \/ c.e.digest # d THEN Refuse(c)
    ELSE Moved([c.s EXCEPT !.approved = d], c.e, {}, "APPROVED", "crash")

Payable(c) == Bound(c) /\ c.s.approved = c.e.digest /\ c.s.state \notin Successful

\* Mutant: every initiation creates a Razorpay order.
InitiateAnew(c) ==
    IF ~Payable(c) \/ c.s.agentPaid THEN Refuse(c)
    ELSE {Result([Move(c.s, "PAYMENT_PENDING") EXCEPT !.checkout = k], c.e, {k}, "sealed") :
             k \in Fresh(Checkouts)}

\* initiatePayment creates one Razorpay order and answers with it from then
\* on.  An error of Razorpay is answered without a token.
Initiate(c) ==
    CASE ~Payable(c) \/ c.s.agentPaid -> Refuse(c)
      [] Payable(c) /\ ~c.s.agentPaid /\ c.s.checkout # None ->
            {Result(IF c.s.state = "PAYMENT_FAILED" THEN Move(c.s, "PAYMENT_PENDING") ELSE c.s,
                    c.e, {}, "sealed")}
      [] OTHER ->
            IF ~Moves(c.s.state, "PAYMENT_PENDING") THEN {Result(c.s, c.e, {}, "crash")}
            ELSE {Result([Move(c.s, "PAYMENT_PENDING") EXCEPT !.checkout = k], c.e, {k}, "sealed") :
                     k \in Fresh(Checkouts)}
                 \cup {Result(Move(Move(c.s, "PAYMENT_PENDING"), "PAYMENT_FAILED"), c.e, {}, "plain")}

\* verifyPayment for Razorpay order k; a success releases a held event.
Verify(c, k, signed) ==
    IF c.e = None \/ c.s.verified THEN Refuse(c)
    ELSE IF c.s.checkout # k \/ ~signed THEN Moved(c.s, c.e, {}, "PAYMENT_FAILED", "crash")
    ELSE LET s == [c.s EXCEPT !.verified = TRUE]
             releases == c.s.held # None /\ Moves(s.state, "PAID_VERIFIED") IN
         {[r EXCEPT !.s.held = IF releases THEN None ELSE @,
                    !.done = IF releases THEN {c.s.held} ELSE {}] :
             r \in Moved(s, c.e, {}, "PAID_VERIFIED", "crash")}

\* The settle route: prepareX402OrderPayment and confirmX402OrderPayment.  A
\* move that is refused after the payment is answered by an error alone.
Settle(c) ==
    LET s == [c.s EXCEPT !.verified = TRUE, !.agentPaid = TRUE] IN
    IF ~Payable(c) \/ c.s.verified \/ c.s.checkout # None THEN Refuse(c)
    ELSE IF ~Moves(s.state, "PAYMENT_PENDING") THEN {Result(s, c.e, {}, "bare")}
    ELSE {Result([s EXCEPT !.state = "PAID_VERIFIED"], c.e, {}, "sealed")}

Fulfil(c, fails) ==
    IF c.s.state # "PAID_VERIFIED" THEN Refuse(c)
    ELSE {Result([c.s EXCEPT !.state = IF fails THEN "FULFILMENT_FAILED" ELSE "FULFILLED"],
                 c.e, {}, "sealed")}

Compensate(c) ==
    IF c.s.state \notin {"FULFILMENT_FAILED", "COMPENSATION_PENDING"} \/ c.e = None
    THEN Refuse(c)
    ELSE {Result([c.s EXCEPT !.state = next], c.e, {}, "sealed") :
             next \in IF c.s.agentPaid THEN {"REFUNDED"} ELSE {"REFUNDED", "MANUAL_REVIEW"}}

---------------------------------------------------------------------------
(* The page *)

\* Not busy: the page does not wait for its refreshes.
Idle == reply = None

\* A request leaves the page; the refreshes under way are late from then on.
Post ==
    /\ sent < MaxRequests /\ sent' = sent + 1
    /\ refreshes' = {[r EXCEPT !.late = TRUE] : r \in refreshes}

\* restoreSession with the page's token.
Presented(i) == Restored(i, order, token)

\* apiPost and the route it reaches: restoreSession, the handler with its
\* possible results, tokenFor.
Request(i, kind, change, results) ==
    LET c == Presented(i) IN
    /\ Idle /\ Post
    /\ \/ /\ c.s = None
          /\ reply' = [kind |-> kind, order |-> order, after |-> None, change |-> FALSE,
                       token |-> None, state |-> "DRAFT", how |-> "plain"]
          /\ UNCHANGED <<serverVars, used, spent>>
       \/ /\ c.s # None
          /\ \E r \in results :
                /\ Store(i, order, r.s, r.e, c.events, c.events \cup r.done)
                /\ used' = used \cup r.ids
                /\ spent' = spent \cup (IF r.s.agentPaid /\ ~c.s.agentPaid THEN {order} ELSE {})
                /\ reply' = [kind |-> kind, order |-> order, after |-> None, change |-> change,
                             token |-> IF r.how = "sealed" THEN Seal(i, order) ELSE None,
                             state |-> IF r.how = "bare" THEN None ELSE r.s.state,
                             how |-> r.how]
    /\ UNCHANGED <<charged, order, token, shown, checkout, withdrawn, rolledBack>>

\* createSession at instance i, for the page or after a restart of order old.
Create(i, old) ==
    \E o \in OneOf(Orders \ used) :
        /\ used' = used \cup {o}
        /\ Store(i, o, NewSession, None, {}, {})
        /\ reply' = [kind |-> "start", order |-> o, after |-> old, change |-> FALSE,
                     token |-> Seal(i, o), state |-> "DRAFT", how |-> "sealed"]

\* The page is loaded (again): it knows no token, and drops what is under way.
Load(i) ==
    /\ Create(i, None)
    /\ sent < MaxRequests /\ sent' = sent + 1
    /\ token' = None /\ refreshes' = {}
    /\ UNCHANGED <<charged, spent, order, shown, checkout, withdrawn, rolledBack>>

SendMessage(i, change) == Request(i, "message", change, Message(Presented(i), change))
SendPatch(i, change) == Request(i, "message", change, Patch(Presented(i), change))
SendRestart(i) == Request(i, "restart", TRUE, Restart(Presented(i)))
SendQuote(i) == Request(i, "quote", FALSE, BuildQuote(Presented(i)))
SendApprove(i, d) == d \in used /\ Request(i, "approve", FALSE, Approve(Presented(i), d))
SendInitiate(i) == Request(i, "initiate", FALSE, Initiate(Presented(i)))
SendSettle(i) == Request(i, "settle", FALSE, Settle(Presented(i)))
SendFulfil(i, fails) == Request(i, "fulfil", FALSE, Fulfil(Presented(i), fails))
SendCompensate(i) == Request(i, "compensate", FALSE, Compensate(Presented(i)))

\* Only Razorpay signs, and only a payment it has captured.
SendVerify(i, signed) ==
    /\ checkout # None /\ (signed => charged[checkout] # None)
    /\ Request(i, "verify", FALSE, Verify(Presented(i), checkout, signed))

CustomerPays ==
    /\ checkout # None /\ charged[checkout] = None
    /\ charged' = [charged EXCEPT ![checkout] = order]
    /\ UNCHANGED <<serverVars, used, spent, pageVars>>

\* void refreshTimeline(o) with token t.
Ask(o, t) ==
    /\ Cardinality(refreshes) < MaxRefreshes
    /\ refreshes' = refreshes \cup {[order |-> o, token |-> t, served |-> FALSE, late |-> FALSE]}

\* The reply brings a Razorpay order: an initiation that is refused leaves the
\* order as it was, and so again not payable.
Initiated ==
    /\ reply.kind = "initiate" /\ reply.how = "sealed"
    /\ Payable(reply.token) /\ ~reply.token.s.agentPaid

\* The reply arrives; most handlers then refresh the timeline with the token
\* they have just received.  One that is not sent stands for one that is lost.
Deliver ==
    LET t == IF reply.token = None THEN token ELSE reply.token IN
    /\ reply # None
    /\ reply.kind \notin {"start", "restart"} /\ reply.how # "crash"
    /\ reply' = None
    /\ token' = t
    /\ shown' = IF reply.state = None THEN shown ELSE reply.state
    /\ checkout' = IF Initiated THEN reply.token.s.checkout ELSE checkout
    /\ withdrawn' = IF reply.change /\ reply.how = "sealed"
                    THEN withdrawn \cup (Quotes \cap used) ELSE withdrawn
    /\ UNCHANGED refreshes \/ Ask(order, t)
    /\ UNCHANGED <<serverVars, used, charged, spent, sent, order, rolledBack>>

\* send() goes on to startSession() after a restart.
DeliverRestart(j) ==
    /\ reply # None /\ reply.kind = "restart"
    /\ token' = IF reply.token = None THEN token ELSE reply.token
    /\ Create(j, order) /\ Post
    /\ UNCHANGED <<charged, spent, order, shown, checkout, withdrawn, rolledBack>>

\* After a restart, send() still refreshes the timeline of the order it left.
DeliverStart ==
    /\ reply # None /\ reply.kind = "start"
    /\ reply' = None
    /\ order' = reply.order /\ token' = reply.token
    /\ shown' = "DRAFT" /\ checkout' = None /\ withdrawn' = {}
    /\ \/ UNCHANGED refreshes
       \/ reply.after # None /\ Ask(reply.after, reply.token)
    /\ UNCHANGED <<serverVars, used, charged, spent, sent, rolledBack>>

\* send() and the chip handlers survive a lost reply; any other handler
\* leaves the page busy, as if the reply never came.
LoseReply ==
    /\ reply # None /\ reply.kind \in {"message", "restart"}
    /\ reply' = None
    /\ UNCHANGED <<serverVars, used, charged, spent, sent, order, token, shown, checkout, refreshes,
                   withdrawn, rolledBack>>

\* The audit route serves a refresh at instance j; one of an order that the
\* instance does not know brings no token.
ServeRefresh(j, r) ==
    LET c == Restored(j, r.order, r.token) IN
    /\ r \in refreshes /\ ~r.served
    /\ Store(j, r.order, c.s, c.e, c.events, c.events)
    /\ refreshes' = (refreshes \ {r}) \cup
                    (IF c.s = None THEN {}
                     ELSE {[r EXCEPT !.token = Seal(j, r.order), !.served = TRUE]})
    /\ UNCHANGED <<used, charged, spent, sent, order, token, shown, checkout, reply, withdrawn, rolledBack>>

\* The token of the refresh replaces the page's, whichever is newer.
RefreshArrives(r) ==
    /\ r \in refreshes /\ r.served
    /\ refreshes' = refreshes \ {r}
    /\ token' = r.token
    /\ rolledBack' = (rolledBack \/ (r.late /\ (r.order # token.order \/ r.token.s # token.s)))
    /\ UNCHANGED <<serverVars, used, charged, spent, sent, order, shown, checkout, reply, withdrawn>>

---------------------------------------------------------------------------
(* Webhooks and instances *)

\* Mutant: the payment's own note of the logical order decides.
FindsSessionByNote(i, o, k) == copy[i][o] # None /\ charged[k] = o

\* findSessionByExternalOrderId.
FindsSession(i, o, k) == copy[i][o] # None /\ copy[i][o].checkout = k

\* The capture event of Razorpay order k reaches instance i, once or again.
Webhook(i, k) ==
    /\ charged[k] # None /\ k \notin dedup[i]
    /\ \E o \in Orders :
        /\ FindsSession(i, o, k)
        /\ LET s == copy[i][o] IN
           \/ /\ env[i][o] # None /\ s.state = "PAYMENT_PENDING"
              /\ Store(i, o, [s EXCEPT !.verified = TRUE, !.state = "PAID_VERIFIED"], env[i][o],
                       {k}, {k})
           \/ /\ env[i][o] # None /\ s.state = "PAYMENT_FAILED"
              /\ Store(i, o, [s EXCEPT !.held = k], env[i][o], {k}, {})
           \/ /\ env[i][o] # None /\ s.state \in Successful
              /\ Store(i, o, s, env[i][o], {k}, {k})
           \/ /\ env[i][o] = None \/ s.state \notin Successful \cup {"PAYMENT_PENDING", "PAYMENT_FAILED"}
              /\ Store(i, o, s, env[i][o], {k}, {})
    /\ UNCHANGED <<used, charged, spent, pageVars>>

\* Mutant: the envelope of a forgotten order stays.
EvictSession(i, o) ==
    /\ copy[i][o] # None
    /\ copy' = [copy EXCEPT ![i][o] = None]
    /\ UNCHANGED <<env, trail, dedup, used, charged, spent, pageVars>>

\* pruneSessionCache forgets the oldest order.
Evict(i, o) ==
    /\ copy[i][o] # None
    /\ copy' = [copy EXCEPT ![i][o] = None]
    /\ env' = [env EXCEPT ![i][o] = None]
    /\ UNCHANGED <<trail, dedup, used, charged, spent, pageVars>>

\* A new process takes the instance's place.
ColdStart(i) ==
    /\ copy' = [copy EXCEPT ![i] = [o \in Orders |-> None]]
    /\ env' = [env EXCEPT ![i] = [o \in Orders |-> None]]
    /\ trail' = [trail EXCEPT ![i] = [o \in Orders |-> {}]]
    /\ dedup' = [dedup EXCEPT ![i] = {}]
    /\ UNCHANGED <<used, charged, spent, pageVars>>

---------------------------------------------------------------------------

Shop(i) ==
    \/ Load(i) \/ SendRestart(i)
    \/ \E change \in BOOLEAN : SendMessage(i, change) \/ SendPatch(i, change)
    \/ SendQuote(i)
    \/ \E d \in Quotes : SendApprove(i, d)

Buy(i) ==
    \/ SendInitiate(i) \/ SendSettle(i) \/ SendCompensate(i)
    \/ \E yes \in BOOLEAN : SendVerify(i, yes) \/ SendFulfil(i, yes)

Replies ==
    \/ Deliver \/ DeliverStart \/ LoseReply
    \/ \E j \in Instances : DeliverRestart(j)

Refreshing ==
    \E r \in refreshes : RefreshArrives(r) \/ \E j \in Instances : ServeRefresh(j, r)

Servers ==
    \E i \in Instances :
        \/ \E k \in Checkouts : Webhook(i, k)
        \/ \E o \in Orders : Evict(i, o)
        \/ ColdStart(i)

Next ==
    \/ \E i \in Instances : Shop(i) \/ Buy(i)
    \/ CustomerPays
    \/ Replies
    \/ Refreshing
    \/ Servers

Spec == Init /\ [][Next]_vars

---------------------------------------------------------------------------
(* Properties *)

\* Session s of order o rests on a payment of that order.
PaidFor(s, o) ==
    \/ s.agentPaid /\ o \in spent
    \/ s.checkout # None /\ charged[s.checkout] = o

\* No instance and no token counts an order as paid that nobody has paid,
\* although late refreshes put back old tokens, the page may present the token
\* of an order it has left, and an order may get a second Razorpay order.
PaidIsPaid ==
    /\ \A i \in Instances, o \in Orders :
          copy[i][o] # None /\ copy[i][o].state \in PaidStates => PaidFor(copy[i][o], o)
    /\ token # None /\ token.s.state \in PaidStates => PaidFor(token.s, token.order)

\* Once the page has shown its order as paid, no later reply of any instance
\* shows it as unpaid (restoreSession).
PaidStaysPaid ==
    [][order' = order /\ shown \in PaidStates => shown' \in PaidStates]_vars

\* That holds until the reply to a refresh overtaken by a request replaces a
\* newer token: it outlives restarts, evictions and copies left behind
\* elsewhere, and the refreshes served or lost meanwhile.
PaidUntilRolledBack ==
    [][~rolledBack /\ order' = order /\ shown \in PaidStates => shown' \in PaidStates]_vars

\* Until then a logical order is paid at most once, over both rails, whichever
\* instances initiated, settled and verified it.
OneCharge ==
    \A o \in Orders :
        LET razorpay == {k \in Checkouts : charged[k] = o} IN
        rolledBack \/ Cardinality(razorpay) + (IF o \in spent THEN 1 ELSE 0) <= 1

\* Until then a quote that a change of the intent has withdrawn, in a reply the
\* page has received, is never approved again, although other instances still
\* hold its envelope and importSession leaves it there.
WithdrawnIsDead == token # None => rolledBack \/ token.s.approved \notin withdrawn
=============================================================================
