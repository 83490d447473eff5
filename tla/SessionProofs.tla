--------------------------- MODULE SessionProofs ---------------------------
(***************************************************************************)
(* Proofs about SessionTokens, for any number of instances, orders and     *)
(* Razorpay orders.                                                        *)
(*                                                                         *)
(* The argument has two parts.  FactsInv holds whatever the page does with  *)
(* its refreshes: ids are given out once, so what any copy or token of an  *)
(* order says of a payment is true.  CourseInv holds until a late refresh  *)
(* replaces a newer token: what an instance serves is then decided by the  *)
(* token that the page presents, except after a restart, when it may be    *)
(* the token of the order that the page has left.  The new order has then  *)
(* been neither approved nor paid for, so it does not matter which copy of *)
(* it is served.  From then on each token that the page takes knows of     *)
(* every charge, and of no quote that was withdrawn.                       *)
(***************************************************************************)
EXTENDS SessionTokens, FiniteSetTheorems, TLAPS

---------------------------------------------------------------------------
(* The transition table *)

\* States from which a payment can start.
PayFrom == {"APPROVED", "PAYMENT_PENDING", "PAYMENT_FAILED"}
\* Targets of the moves that shop, pay or fail.
Unpaid == {"QUOTED", "AWAITING_APPROVAL", "APPROVED", "PAYMENT_PENDING", "PAYMENT_FAILED"}

\* setState has no way back from a paid state.
LEMMA NoWayBack ==
  ASSUME NEW s \in PaidStates, NEW next \in Unpaid
  PROVE  ~Moves(s, next) /\ StateAfter(s, next) = s /\ s \notin Unpaid
  BY DEF Moves, StateAfter, ALLOWED_TRANSITIONS, PaidStates, Successful, Unpaid

\* From a state in which a payment can start, setState goes on to pay and not
\* back to a new ranking or quote.
LEMMA PayFromMoves ==
  ASSUME NEW s \in PayFrom
  PROVE  /\ Moves(s, "PAYMENT_PENDING")
         /\ ~Moves(s, "QUOTED") /\ ~Moves(s, "AWAITING_APPROVAL")
  BY DEF Moves, ALLOWED_TRANSITIONS, PayFrom

\* setState reaches a state of the machine.
LEMMA MoveType ==
  ASSUME NEW s \in OrderStates, NEW next \in OrderStates
  PROVE  StateAfter(s, next) \in {s, next} /\ StateAfter(s, next) \in OrderStates
  BY DEF StateAfter

\* The targets of the moves are states of the machine.
LEMMA TargetTypes ==
  /\ Unpaid \subseteq OrderStates /\ PaidStates \subseteq OrderStates
  /\ PaidStates \cap Unpaid = {}
  BY DEF Unpaid, OrderStates, PaidStates, Successful

---------------------------------------------------------------------------
(* Sessions *)

\* An order is paid over one rail, and a paid one is verified.
Consistent(s) ==
    /\ s.agentPaid => s.checkout = None
    /\ s.state \in PaidStates => s.verified

\* An approval is held only in states from which a payment can start or has.
Steady(s) == s.approved # None => s.state \in PayFrom \cup PaidStates

\* The case a handler works on: the restored session, envelope and events.
Case == [s : Session, e : Envelope \cup {None}, events : SUBSET Checkouts]
\* The ways in which a route answers.
Hows == {"sealed", "plain", "bare", "crash"}

\* What a handler returns is typed.
Shaped(r) ==
    /\ r.s \in Session /\ r.e \in Envelope \cup {None}
    /\ r.done \subseteq Checkouts /\ r.how \in Hows

\* The ids in a result are those of the case or new ones, and the Razorpay
\* order of a session is never replaced.
Carries(c, r) ==
    /\ r.s.rank \in {c.s.rank, None} \cup (r.ids \ used)
    /\ r.s.checkout \in {c.s.checkout} \cup (r.ids \cap IdsOf[order])
    /\ c.s.checkout # None => r.s.checkout = c.s.checkout
    /\ \/ r.e \in {c.e, None}
       \/ r.e.digest \in r.ids \ used /\ r.e.rank = r.s.rank

\* No handler forgets a payment; one that makes an order paid knows of a
\* payment, and only the settle route records one of the agent.
Pays(c, r, kind) ==
    /\ Consistent(c.s) => Consistent(r.s)
    /\ Steady(c.s) /\ r.how = "sealed" => Steady(r.s)
    /\ c.s.state \in PaidStates => r.s.state \in PaidStates
    /\ r.s.state \in PaidStates =>
          \/ c.s.state \in PaidStates \/ r.s.agentPaid
          \/ c.s.checkout # None /\ charged[c.s.checkout] # None
    /\ r.how = "plain" => r.s.state \notin PaidStates
    /\ c.s.agentPaid => r.s.agentPaid
    /\ Steady(c.s) /\ Consistent(c.s) /\ r.s.agentPaid =>
          c.s.agentPaid \/ (kind = "settle" /\ r.how = "sealed")

\* Only approve approves, and only the quote of the current recommendation; a
\* change that is accepted leaves neither approval nor quote.
Approves(c, r, kind, change) ==
    /\ \/ r.s.approved \in {c.s.approved, None}
       \/ kind = "approve" /\ r.how \in {"sealed", "crash"} /\ Bound(c) /\ r.s.approved = c.e.digest
    /\ change /\ r.how = "sealed" =>
          r.s.approved = None /\ r.e = None /\ r.s.rank \in {None} \cup (r.ids \ used)
    /\ c.s.approved = None /\ c.s.checkout = None =>
          r.s.checkout = None /\ (r.s.agentPaid => c.s.agentPaid)

\* What every handler keeps to, whatever case it works on.
Contract(c, r, kind, change) ==
    Shaped(r) /\ Carries(c, r) /\ Pays(c, r, kind) /\ Approves(c, r, kind, change)

\* A material change drops recommendation, quote and approval only.
LEMMA DroppedFields ==
  ASSUME NEW s \in Session, NEW change \in BOOLEAN
  PROVE  /\ Dropped(s, change) \in Session
         /\ Dropped(s, change).state = s.state
         /\ Dropped(s, change).checkout = s.checkout
         /\ Dropped(s, change).verified = s.verified
         /\ Dropped(s, change).agentPaid = s.agentPaid
         /\ Dropped(s, change).rank = IF change THEN None ELSE s.rank
         /\ Dropped(s, change).approved = IF change THEN None ELSE s.approved
  BY DEF Dropped, Session

\* setState changes the state only.
LEMMA MoveFields ==
  ASSUME NEW s \in Session, NEW next \in OrderStates
  PROVE  /\ Move(s, next) \in Session
         /\ Move(s, next).state = StateAfter(s.state, next)
         /\ Move(s, next).rank = s.rank /\ Move(s, next).quoteValid = s.quoteValid
         /\ Move(s, next).approved = s.approved /\ Move(s, next).checkout = s.checkout
         /\ Move(s, next).verified = s.verified /\ Move(s, next).agentPaid = s.agentPaid
         /\ Move(s, next).held = s.held
  BY MoveType DEF Move, Session

\* A new id is one of its kind that was not in use.
LEMMA FreshIsNew ==
  ASSUME NEW kind, NEW k \in Fresh(kind)
  PROVE  k \in kind /\ k \in IdsOf[order] /\ k \notin used
  BY DEF Fresh, OneOf

\* The fields of a result.
LEMMA ResultFields ==
  ASSUME NEW s, NEW e, NEW ids, NEW how
  PROVE  /\ Result(s, e, ids, how).s = s /\ Result(s, e, ids, how).e = e
         /\ Result(s, e, ids, how).ids = ids /\ Result(s, e, ids, how).how = how
         /\ Result(s, e, ids, how).done = {}
  BY DEF Result

\* A result with the case's own session meets the contract of any handler that
\* does not claim a change.
LEMMA SameContract ==
  ASSUME NEW c \in Case, NEW kind, NEW how \in Hows, how = "plain" => c.s.state \notin PaidStates,
         NEW r, r = Result(c.s, c.e, {}, how)
  PROVE  Contract(c, r, kind, FALSE)
<1>1. r.s = c.s /\ r.e = c.e /\ r.ids = {} /\ r.how = how /\ r.done = {}
  BY ResultFields
<1>2. c.s \in Session /\ c.e \in Envelope \cup {None}
  BY DEF Case
<1>3. Shaped(r)
  BY <1>1, <1>2 DEF Shaped
<1>4. Carries(c, r)
  BY <1>1 DEF Carries
<1>5. Pays(c, r, kind)
  BY <1>1 DEF Pays
<1>6. Approves(c, r, kind, FALSE)
  BY <1>1 DEF Approves
<1> QED
  BY <1>3, <1>4, <1>5, <1>6 DEF Contract

\* respond meets the contract.
LEMMA MessageContract ==
  ASSUME NEW c \in Case, NEW change \in BOOLEAN, NEW r \in Message(c, change)
  PROVE  Contract(c, r, "message", change)
<1> DEFINE d == Dropped(c.s, change)
           e == IF change THEN None ELSE c.e
           stays == d.state = "REAPPROVAL_REQUIRED" \/ (d.state = "AWAITING_APPROVAL" /\ c.e = None)
           moved(k) == [Move(d, IF stays THEN d.state ELSE "QUOTED") EXCEPT !.rank = k]
<1>0. c.s \in Session /\ c.e \in Envelope \cup {None} /\ c.s.state \in OrderStates
  BY DEF Case, Session
<1>1. /\ d \in Session /\ d.state = c.s.state /\ d.checkout = c.s.checkout
      /\ d.verified = c.s.verified /\ d.agentPaid = c.s.agentPaid
      /\ d.rank = (IF change THEN None ELSE c.s.rank)
      /\ d.approved = (IF change THEN None ELSE c.s.approved)
  BY <1>0, DroppedFields
<1> HIDE DEF d
<1>2. \/ r = Result(d, e, {}, "sealed")
      \/ /\ CanRank(c.s.state, change)
         /\ \E k \in Fresh(Ranks) : r = Result(moved(k), e, {k}, "sealed")
  <2>1. Message(c, change) =
            IF ~CanRank(d.state, change) \/ (~change /\ d.rank # None)
            THEN {Result(d, e, {}, "sealed")}
            ELSE {Result(moved(k), e, {k}, "sealed") : k \in Fresh(Ranks)}
    BY Zenon DEF Message, d
  <2> QED
    BY <1>1, <2>1
<1>3. CASE r = Result(d, e, {}, "sealed")
  <2>1. r.s = d /\ r.e = e /\ r.ids = {} /\ r.how = "sealed" /\ r.done = {}
    BY <1>3, ResultFields
  <2> QED
    BY <1>0, <1>1, <2>1
    DEF Contract, Shaped, Carries, Pays, Approves, Consistent, Steady, Hows
<1>4. ASSUME CanRank(c.s.state, change), NEW k \in Fresh(Ranks), r = Result(moved(k), e, {k}, "sealed")
      PROVE  Contract(c, r, "message", change)
  <2>1. r.s = moved(k) /\ r.e = e /\ r.ids = {k} /\ r.how = "sealed" /\ r.done = {}
    BY <1>4, ResultFields
  <2>2. k \in Ranks /\ k \notin used
    BY FreshIsNew
  <2>3. c.s.state \notin PayFrom \cup PaidStates
    BY <1>4 DEF CanRank, PayFrom, PaidStates, Successful
  <2>4. StateAfter(d.state, IF stays THEN d.state ELSE "QUOTED") \in {d.state, "QUOTED"}
    BY DEF StateAfter
  <2>5. /\ moved(k) \in Session /\ moved(k).state \in {d.state, "QUOTED"}
        /\ moved(k).checkout = d.checkout /\ moved(k).verified = d.verified
        /\ moved(k).agentPaid = d.agentPaid /\ moved(k).rank = k /\ moved(k).approved = d.approved
    BY ZenonT(60), <1>0, <1>1, <2>2, <2>4, TargetTypes DEF Move, Session, Unpaid
  <2>6. "QUOTED" \notin PaidStates
    BY DEF PaidStates, Successful
  <2> HIDE DEF moved
  <2>7. r.s.state \notin PaidStates
    BY <1>1, <2>1, <2>3, <2>5, <2>6
  <2> QED
    BY <1>0, <1>1, <2>1, <2>2, <2>3, <2>5, <2>7
    DEF Contract, Shaped, Carries, Pays, Approves, Consistent, Steady, Hows
<1> QED
  BY <1>2, <1>3, <1>4

\* Where intentPatch can go, it neither pays nor is paid, and an approval that
\* it leaves still lets a payment start.
LEMMA PatchMoves ==
  ASSUME NEW s \in OrderStates, NEW change \in BOOLEAN, NEW next,
         next = IF PatchTarget(s, change) = "CLARIFYING" THEN "QUOTED" ELSE PatchTarget(s, change),
         Moves(s, PatchTarget(s, change))
  PROVE  /\ s \notin PaidStates /\ next \in OrderStates \ PaidStates
         /\ s \in PayFrom /\ ~change => next \in PayFrom
  BY DEF PatchTarget, Moves, ALLOWED_TRANSITIONS, OrderStates, PaidStates, Successful, PayFrom

\* intentPatch meets the contract.
LEMMA PatchContract ==
  ASSUME NEW c \in Case, NEW change \in BOOLEAN, NEW r \in Patch(c, change)
  PROVE  Contract(c, r, "message", change)
<1> DEFINE d == Dropped(c.s, change)
           e == IF change THEN None ELSE c.e
           target == PatchTarget(d.state, change)
           next == IF target = "CLARIFYING" THEN "QUOTED" ELSE target
           moved(k) == [d EXCEPT !.state = next, !.rank = k]
<1>0. c.s \in Session /\ c.e \in Envelope \cup {None} /\ c.s.state \in OrderStates
  BY DEF Case, Session
<1>1. /\ d \in Session /\ d.state = c.s.state /\ d.checkout = c.s.checkout
      /\ d.verified = c.s.verified /\ d.agentPaid = c.s.agentPaid
      /\ d.rank = (IF change THEN None ELSE c.s.rank)
      /\ d.approved = (IF change THEN None ELSE c.s.approved)
  BY <1>0, DroppedFields
<1>2. \/ ~change /\ r \in Refuse(c)
      \/ r = Result(d, e, {}, "bare")
      \/ Moves(d.state, target) /\ \E k \in Fresh(Ranks) : r = Result(moved(k), e, {k}, "sealed")
  BY DEF Patch
<1> HIDE DEF d
<1>3. CASE ~change /\ r \in Refuse(c)
  BY <1>3, SameContract DEF Refuse, Hows
<1>4. CASE r = Result(d, e, {}, "bare")
  <2>1. r.s = d /\ r.e = e /\ r.ids = {} /\ r.how = "bare" /\ r.done = {}
    BY <1>4, ResultFields
  <2> QED
    BY <1>0, <1>1, <2>1
    DEF Contract, Shaped, Carries, Pays, Approves, Consistent, Steady, Hows
<1>5. ASSUME Moves(d.state, target), NEW k \in Fresh(Ranks), r = Result(moved(k), e, {k}, "sealed")
      PROVE  Contract(c, r, "message", change)
  <2>1. r.s = moved(k) /\ r.e = e /\ r.ids = {k} /\ r.how = "sealed" /\ r.done = {}
    BY <1>5, ResultFields
  <2>2. k \in Ranks /\ k \notin used
    BY FreshIsNew
  <2>3. /\ c.s.state \notin PaidStates /\ next \in OrderStates \ PaidStates
        /\ c.s.state \in PayFrom /\ ~change => next \in PayFrom
    BY <1>0, <1>1, <1>5, PatchMoves
  <2> HIDE DEF next
  <2>4. /\ moved(k) \in Session /\ moved(k).state = next
        /\ moved(k).checkout = d.checkout /\ moved(k).verified = d.verified
        /\ moved(k).agentPaid = d.agentPaid /\ moved(k).rank = k /\ moved(k).approved = d.approved
    BY <1>1, <2>2, <2>3 DEF Session
  <2> HIDE DEF moved
  <2> QED
    BY <1>0, <1>1, <2>1, <2>2, <2>3, <2>4
    DEF Contract, Shaped, Carries, Pays, Approves, Consistent, Steady, Hows
<1> QED
  BY <1>2, <1>3, <1>4, <1>5

\* A restart of the dialogue meets the contract.
LEMMA RestartContract ==
  ASSUME NEW c \in Case, NEW r \in Restart(c)
  PROVE  Contract(c, r, "restart", TRUE)
<1> DEFINE d == Dropped(c.s, TRUE)
<1>0. c.s \in Session
  BY DEF Case
<1>1. /\ d \in Session /\ d.state = c.s.state /\ d.checkout = c.s.checkout
      /\ d.verified = c.s.verified /\ d.agentPaid = c.s.agentPaid
      /\ d.rank = None /\ d.approved = None
  BY <1>0, DroppedFields
<1>2. r = Result(d, None, {}, "sealed")
  BY DEF Restart
<1> HIDE DEF d
<1>3. r.s = d /\ r.e = None /\ r.ids = {} /\ r.how = "sealed" /\ r.done = {}
  BY <1>2, ResultFields
<1> QED
  BY <1>1, <1>3 DEF Contract, Shaped, Carries, Pays, Approves, Consistent, Steady, Hows

\* buildQuote meets the contract.
LEMMA QuoteContract ==
  ASSUME NEW c \in Case, NEW r \in BuildQuote(c)
  PROVE  Contract(c, r, "quote", FALSE)
<1> DEFINE ranks == IF c.s.rank = None THEN Fresh(Ranks) ELSE {c.s.rank}
           ranked(k) == [c.s EXCEPT !.rank = k]
           quoted(k) == [ranked(k) EXCEPT !.quoteValid = TRUE]
           envelope(q, k) == [digest |-> q, rank |-> k]
<1>0. c.s \in Session /\ c.e \in Envelope \cup {None}
  BY DEF Case
<1>1. PICK k \in ranks :
          \/ r = Result(ranked(k), c.e, {k}, "sealed")
          \/ \E q \in Fresh(Quotes) :
                r \in Moved(quoted(k), envelope(q, k), {k, q}, "AWAITING_APPROVAL", "bare")
  <2> DEFINE quotes(k) == UNION {Moved(quoted(k), envelope(q, k), {k, q}, "AWAITING_APPROVAL", "bare") :
                                   q \in Fresh(Quotes)}
  <2>1. \/ r \in {Result(ranked(k), c.e, {k}, "sealed") : k \in ranks}
        \/ r \in UNION {quotes(k) : k \in ranks}
    BY DEF BuildQuote
  <2> HIDE DEF ranks, ranked, quoted, envelope
  <2>2. CASE r \in {Result(ranked(k), c.e, {k}, "sealed") : k \in ranks}
    BY <2>2
  <2>3. ASSUME NEW k \in ranks, r \in quotes(k)
        PROVE  \E q \in Fresh(Quotes) :
                  r \in Moved(quoted(k), envelope(q, k), {k, q}, "AWAITING_APPROVAL", "bare")
    BY <2>3
  <2> HIDE DEF quotes
  <2> QED
    BY <2>1, <2>2, <2>3
<1>2. k \in Ranks /\ k # None /\ (k = c.s.rank \/ k \notin used)
  BY <1>0, NoneAssumption, FreshIsNew DEF Session
<1> HIDE DEF ranks
<1>3. /\ ranked(k) \in Session /\ quoted(k) \in Session
      /\ \A s \in {ranked(k), quoted(k)} :
            /\ s.state = c.s.state /\ s.rank = k /\ s.approved = c.s.approved
            /\ s.checkout = c.s.checkout /\ s.verified = c.s.verified /\ s.agentPaid = c.s.agentPaid
  BY <1>0, <1>2 DEF Session
<1> HIDE DEF ranked, quoted
<1>4. CASE r = Result(ranked(k), c.e, {k}, "sealed")
  <2>1. r.s = ranked(k) /\ r.e = c.e /\ r.ids = {k} /\ r.how = "sealed" /\ r.done = {}
    BY <1>4, ResultFields
  <2> QED
    BY <1>0, <1>2, <1>3, <2>1
    DEF Contract, Shaped, Carries, Pays, Approves, Consistent, Steady, Hows
<1>5. ASSUME NEW q \in Fresh(Quotes),
             r \in Moved(quoted(k), envelope(q, k), {k, q}, "AWAITING_APPROVAL", "bare")
      PROVE  Contract(c, r, "quote", FALSE)
  <2> DEFINE s == Move(quoted(k), "AWAITING_APPROVAL")
             how == IF Moves(c.s.state, "AWAITING_APPROVAL") THEN "sealed" ELSE "bare"
  <2>1. q \in Quotes /\ q \notin used
    BY FreshIsNew
  <2>2. r = Result(s, envelope(q, k), {k, q}, how)
    BY <1>3, <1>5 DEF Moved
  <2>3. r.s = s /\ r.e = envelope(q, k) /\ r.ids = {k, q} /\ r.how = how /\ r.done = {}
    BY <2>2, ResultFields
  <2>4. /\ "AWAITING_APPROVAL" \in OrderStates /\ "AWAITING_APPROVAL" \in Unpaid
        /\ "AWAITING_APPROVAL" \notin PaidStates
    BY DEF OrderStates, Unpaid, PaidStates, Successful
  <2>5. /\ s \in Session /\ s.state = StateAfter(c.s.state, "AWAITING_APPROVAL")
        /\ s.rank = k /\ s.approved = c.s.approved
        /\ s.checkout = c.s.checkout /\ s.verified = c.s.verified /\ s.agentPaid = c.s.agentPaid
    BY <1>3, <2>4, MoveFields
  <2> HIDE DEF s
  <2>6. c.s.state \in PaidStates => s.state = c.s.state
    BY <2>4, <2>5, NoWayBack
  <2>7. /\ s.state \in {c.s.state, "AWAITING_APPROVAL"} /\ how \in {"sealed", "bare"}
        /\ how = "sealed" => c.s.state \notin PayFrom \cup PaidStates
    BY <2>4, <2>5, NoWayBack, PayFromMoves DEF StateAfter
  <2> HIDE DEF how
  <2>8. /\ envelope(q, k) \in Envelope /\ envelope(q, k).digest = q /\ envelope(q, k).rank = k
    BY <1>2, <2>1 DEF Envelope
  <2> HIDE DEF envelope
  <2> QED
    BY <1>0, <1>2, <2>1, <2>3, <2>4, <2>5, <2>6, <2>7, <2>8
    DEF Contract, Shaped, Carries, Pays, Approves, Consistent, Steady, Hows
<1> QED
  BY <1>1, <1>4, <1>5

\* approve meets the contract.
LEMMA ApproveContract ==
  ASSUME NEW c \in Case, NEW d \in Quotes, NEW r \in Approve(c, d)
  PROVE  Contract(c, r, "approve", FALSE)
<1> DEFINE s == [c.s EXCEPT !.approved = d]
           how == IF Moves(s.state, "APPROVED") THEN "sealed" ELSE "crash"
<1>0. c.s \in Session /\ c.e \in Envelope \cup {None}
  BY DEF Case
<1>1. CASE r \in Refuse(c)
  BY <1>1, SameContract DEF Refuse, Hows
<1>2. CASE Bound(c) /\ c.e.digest = d /\ r = Result(Move(s, "APPROVED"), c.e, {}, how)
  <2>1. r.s = Move(s, "APPROVED") /\ r.e = c.e /\ r.ids = {} /\ r.how = how /\ r.done = {}
    BY <1>2, ResultFields
  <2>2. /\ s \in Session /\ s.state = c.s.state /\ s.rank = c.s.rank /\ s.approved = d
        /\ s.checkout = c.s.checkout /\ s.verified = c.s.verified /\ s.agentPaid = c.s.agentPaid
    BY <1>0 DEF Session
  <2> HIDE DEF s
  <2>3. "APPROVED" \in OrderStates /\ "APPROVED" \in PayFrom /\ "APPROVED" \notin PaidStates
    BY DEF OrderStates, PayFrom, PaidStates, Successful
  <2>4. /\ r.s \in Session /\ r.s.state = StateAfter(c.s.state, "APPROVED") /\ r.s.rank = c.s.rank
        /\ r.s.approved = d /\ r.s.checkout = c.s.checkout /\ r.s.verified = c.s.verified
        /\ r.s.agentPaid = c.s.agentPaid
    BY <2>1, <2>2, <2>3, MoveFields
  <2>5. c.s.state \in PaidStates => r.s.state = c.s.state
    BY <2>4, NoWayBack DEF Unpaid
  <2>6. r.s.state \in {c.s.state, "APPROVED"}
    BY <2>4 DEF StateAfter
  <2>7. r.how \in {"sealed", "crash"} /\ (r.how = "sealed" => r.s.state = "APPROVED")
    BY <2>1, <2>2, <2>4 DEF StateAfter
  <2> QED
    BY <1>0, <1>2, <2>1, <2>3, <2>4, <2>5, <2>6, <2>7
    DEF Contract, Shaped, Carries, Pays, Approves, Consistent, Steady, Hows
<1> QED
  BY <1>1, <1>2 DEF Approve, Moved

\* An order that can be paid for has an approval.
LEMMA PayableIsApproved ==
  ASSUME NEW c \in Case, Payable(c)
  PROVE  c.s.approved # None
  BY NoneAssumption DEF Payable, Bound, Case, Envelope

\* initiatePayment meets the contract.
LEMMA InitiateContract ==
  ASSUME NEW c \in Case, NEW r \in Initiate(c)
  PROVE  Contract(c, r, "initiate", FALSE)
<1> DEFINE pending == Move(c.s, "PAYMENT_PENDING")
           failed == Move(pending, "PAYMENT_FAILED")
<1>0. c.s \in Session /\ c.e \in Envelope \cup {None} /\ c.s.state \in OrderStates
  BY DEF Case, Session
<1>a. /\ {"PAYMENT_PENDING", "PAYMENT_FAILED"} \subseteq (OrderStates \cap Unpaid \cap PayFrom) \ PaidStates
  BY DEF OrderStates, Unpaid, PayFrom, PaidStates, Successful
<1>b. /\ pending \in Session /\ pending.state = StateAfter(c.s.state, "PAYMENT_PENDING")
      /\ pending.rank = c.s.rank /\ pending.approved = c.s.approved /\ pending.checkout = c.s.checkout
      /\ pending.verified = c.s.verified /\ pending.agentPaid = c.s.agentPaid
  BY <1>0, <1>a, MoveFields
<1>c. /\ failed \in Session /\ failed.state = StateAfter(pending.state, "PAYMENT_FAILED")
      /\ failed.rank = c.s.rank /\ failed.approved = c.s.approved /\ failed.checkout = c.s.checkout
      /\ failed.verified = c.s.verified /\ failed.agentPaid = c.s.agentPaid
  <2> HIDE DEF pending
  <2> QED
    BY <1>a, <1>b, MoveFields
<1>1. CASE r \in Refuse(c)
  BY <1>1, SameContract DEF Refuse, Hows
<1>2. CASE r = Result(IF c.s.state = "PAYMENT_FAILED" THEN pending ELSE c.s, c.e, {}, "sealed")
  <2>1. /\ r.s = (IF c.s.state = "PAYMENT_FAILED" THEN pending ELSE c.s)
        /\ r.e = c.e /\ r.ids = {} /\ r.how = "sealed" /\ r.done = {}
    BY <1>2, ResultFields
  <2>2. c.s.state = "PAYMENT_FAILED" => pending.state = "PAYMENT_PENDING"
    BY <1>b, PayFromMoves DEF StateAfter, PayFrom
  <2> HIDE DEF pending
  <2> QED
    BY <1>0, <1>a, <1>b, <2>1, <2>2
    DEF Contract, Shaped, Carries, Pays, Approves, Consistent, Steady, Hows
<1>3. CASE r = Result(c.s, c.e, {}, "crash")
  BY <1>3, SameContract DEF Hows
<1>4. CASE /\ Moves(c.s.state, "PAYMENT_PENDING") /\ Payable(c) /\ ~c.s.agentPaid /\ c.s.checkout = None
           /\ \E k \in Fresh(Checkouts) : r = Result([pending EXCEPT !.checkout = k], c.e, {k}, "sealed")
  <2>1. PICK k \in Fresh(Checkouts) : r = Result([pending EXCEPT !.checkout = k], c.e, {k}, "sealed")
    BY <1>4
  <2>2. k \in Checkouts /\ k \in IdsOf[order] /\ k \notin used
    BY FreshIsNew
  <2>3. c.s.state \notin PaidStates /\ pending.state = "PAYMENT_PENDING"
    BY <1>4, <1>a, <1>b, NoWayBack DEF StateAfter
  <2>4. /\ r.s = [pending EXCEPT !.checkout = k]
        /\ r.e = c.e /\ r.ids = {k} /\ r.how = "sealed" /\ r.done = {}
    BY <2>1, ResultFields
  <2> HIDE DEF pending
  <2>5. /\ r.s \in Session /\ r.s.state = "PAYMENT_PENDING"
        /\ r.s.rank = c.s.rank /\ r.s.approved = c.s.approved /\ r.s.checkout = k
        /\ r.s.verified = c.s.verified /\ r.s.agentPaid = c.s.agentPaid
    BY <1>b, <2>2, <2>3, <2>4 DEF Session
  <2>6. c.s.approved # None
    BY <1>4, PayableIsApproved
  <2> QED
    BY <1>0, <1>4, <1>a, <2>2, <2>3, <2>4, <2>5, <2>6
    DEF Contract, Shaped, Carries, Pays, Approves, Consistent, Steady, Hows
<1>5. CASE Moves(c.s.state, "PAYMENT_PENDING") /\ r = Result(failed, c.e, {}, "plain")
  <2>1. r.s = failed /\ r.e = c.e /\ r.ids = {} /\ r.how = "plain" /\ r.done = {}
    BY <1>5, ResultFields
  <2>2. c.s.state \notin PaidStates /\ pending.state = "PAYMENT_PENDING"
    BY <1>5, <1>a, <1>b, NoWayBack DEF StateAfter
  <2> HIDE DEF pending
  <2>3. failed.state \in {"PAYMENT_PENDING", "PAYMENT_FAILED"}
    BY <1>c, <2>2 DEF StateAfter
  <2> HIDE DEF failed
  <2> QED
    BY <1>0, <1>a, <1>c, <2>1, <2>2, <2>3
    DEF Contract, Shaped, Carries, Pays, Approves, Consistent, Steady, Hows
<1> QED
  BY <1>1, <1>2, <1>3, <1>4, <1>5 DEF Initiate

\* verifyPayment meets the contract.
LEMMA VerifyContract ==
  ASSUME NEW c \in Case, NEW k, k # None, NEW signed \in BOOLEAN, signed => charged[k] # None,
         NEW r \in Verify(c, k, signed)
  PROVE  Contract(c, r, "verify", FALSE)
<1> DEFINE s == [c.s EXCEPT !.verified = TRUE]
           releases == c.s.held # None /\ Moves(s.state, "PAID_VERIFIED")
           paid == Result(Move(s, "PAID_VERIFIED"), c.e, {},
                          IF Moves(s.state, "PAID_VERIFIED") THEN "sealed" ELSE "crash")
           failed == Move(c.s, "PAYMENT_FAILED")
<1>0. c.s \in Session /\ c.e \in Envelope \cup {None}
  BY DEF Case
<1>1. \/ r \in Refuse(c)
      \/ r = Result(failed, c.e, {}, IF Moves(c.s.state, "PAYMENT_FAILED") THEN "sealed" ELSE "crash")
      \/ /\ c.s.checkout # None /\ charged[c.s.checkout] # None
         /\ r = [paid EXCEPT !.s.held = IF releases THEN None ELSE @,
                             !.done = IF releases THEN {c.s.held} ELSE {}]
  BY DEF Verify, Moved
<1>2. CASE r \in Refuse(c)
  BY <1>2, SameContract DEF Refuse, Hows
<1>3. CASE r = Result(failed, c.e, {}, IF Moves(c.s.state, "PAYMENT_FAILED") THEN "sealed" ELSE "crash")
  <2>1. /\ "PAYMENT_FAILED" \in OrderStates /\ "PAYMENT_FAILED" \in Unpaid
        /\ "PAYMENT_FAILED" \in PayFrom /\ "PAYMENT_FAILED" \notin PaidStates
    BY DEF OrderStates, Unpaid, PayFrom, PaidStates, Successful
  <2>2. /\ failed \in Session /\ failed.state = StateAfter(c.s.state, "PAYMENT_FAILED")
        /\ failed.rank = c.s.rank /\ failed.approved = c.s.approved /\ failed.checkout = c.s.checkout
        /\ failed.verified = c.s.verified /\ failed.agentPaid = c.s.agentPaid
    BY <1>0, <2>1, MoveFields
  <2> HIDE DEF failed
  <2>3. /\ r.s = failed /\ r.e = c.e /\ r.ids = {} /\ r.done = {}
        /\ r.how = IF Moves(c.s.state, "PAYMENT_FAILED") THEN "sealed" ELSE "crash"
    BY <1>3, ResultFields
  <2>4. /\ r.how \in {"sealed", "crash"} /\ (r.how = "sealed" => failed.state = "PAYMENT_FAILED")
        /\ failed.state \in {c.s.state, "PAYMENT_FAILED"}
        /\ c.s.state \in PaidStates => failed.state = c.s.state
    BY <2>1, <2>2, <2>3, NoWayBack DEF StateAfter
  <2> QED
    BY <1>0, <2>1, <2>2, <2>3, <2>4
    DEF Contract, Shaped, Carries, Pays, Approves, Consistent, Steady, Hows
<1>4. CASE /\ c.s.checkout # None /\ charged[c.s.checkout] # None
           /\ r = [paid EXCEPT !.s.held = IF releases THEN None ELSE @,
                               !.done = IF releases THEN {c.s.held} ELSE {}]
  <2> DEFINE how == IF Moves(c.s.state, "PAID_VERIFIED") THEN "sealed" ELSE "crash"
             m == Move(s, "PAID_VERIFIED")
  <2>1. /\ s \in Session /\ s.state = c.s.state /\ s.rank = c.s.rank /\ s.approved = c.s.approved
        /\ s.checkout = c.s.checkout /\ s.verified = TRUE /\ s.agentPaid = c.s.agentPaid
        /\ s.held = c.s.held
    BY <1>0 DEF Session
  <2>2. paid = [s |-> m, e |-> c.e, ids |-> {}, done |-> {}, how |-> how]
    BY <2>1 DEF Result
  <2> HIDE DEF s
  <2>3. "PAID_VERIFIED" \in OrderStates /\ "PAID_VERIFIED" \in PaidStates
    BY DEF OrderStates, PaidStates, Successful
  <2>4. /\ m \in Session /\ m.state = StateAfter(c.s.state, "PAID_VERIFIED") /\ m.rank = c.s.rank
        /\ m.approved = c.s.approved /\ m.checkout = c.s.checkout /\ m.verified = TRUE
        /\ m.agentPaid = c.s.agentPaid /\ m.held = c.s.held
    BY <2>1, <2>3, MoveFields
  <2> HIDE DEF m, paid, releases
  <2>5. /\ r.s = [m EXCEPT !.held = IF releases THEN None ELSE m.held]
        /\ r.e = c.e /\ r.ids = {} /\ r.how = how
        /\ r.done = IF releases THEN {c.s.held} ELSE {}
    BY <1>4, <2>2
  <2>6. /\ r.s \in Session /\ r.s.state = m.state /\ r.s.rank = c.s.rank
        /\ r.s.approved = c.s.approved /\ r.s.checkout = c.s.checkout /\ r.s.verified = TRUE
        /\ r.s.agentPaid = c.s.agentPaid
    BY <2>4, <2>5 DEF Session
  <2>7. r.done \subseteq Checkouts
    <3>1. releases => c.s.held # None
      BY DEF releases
    <3> QED
      BY <1>0, <2>5, <3>1 DEF Session
  <2>8. /\ r.how \in {"sealed", "crash"} /\ (r.how = "sealed" => r.s.state \in PaidStates)
        /\ r.s.state \in {c.s.state, "PAID_VERIFIED"}
    BY <2>3, <2>4, <2>5, <2>6 DEF StateAfter
  <2> HIDE DEF how
  <2> QED
    BY <1>0, <1>4, <2>3, <2>5, <2>6, <2>7, <2>8
    DEF Contract, Shaped, Carries, Pays, Approves, Consistent, Steady, Hows
<1> QED
  BY <1>1, <1>2, <1>3, <1>4

\* The settle route meets the contract: it never pays without being able to
\* record the payment, since an approved order can go on to PAYMENT_PENDING.
LEMMA SettleContract ==
  ASSUME NEW c \in Case, NEW r \in Settle(c)
  PROVE  Contract(c, r, "settle", FALSE)
<1> DEFINE s == [c.s EXCEPT !.verified = TRUE, !.agentPaid = TRUE]
<1>0. c.s \in Session /\ c.e \in Envelope \cup {None}
  BY DEF Case
<1>1. /\ s \in Session /\ s.state = c.s.state /\ s.rank = c.s.rank /\ s.approved = c.s.approved
      /\ s.checkout = c.s.checkout /\ s.verified = TRUE /\ s.agentPaid = TRUE
  BY <1>0 DEF Session
<1>a. Payable(c) => c.s.approved # None
  BY PayableIsApproved
<1>2. \/ r \in Refuse(c)
      \/ /\ Payable(c) /\ ~c.s.verified /\ c.s.checkout = None
         /\ \/ ~Moves(s.state, "PAYMENT_PENDING") /\ r = Result(s, c.e, {}, "bare")
            \/ r = Result([s EXCEPT !.state = "PAID_VERIFIED"], c.e, {}, "sealed")
  BY DEF Settle
<1> HIDE DEF s
<1>3. CASE r \in Refuse(c)
  BY <1>3, SameContract DEF Refuse, Hows
<1>4. CASE /\ Payable(c) /\ ~c.s.verified /\ c.s.checkout = None
           /\ ~Moves(s.state, "PAYMENT_PENDING") /\ r = Result(s, c.e, {}, "bare")
  <2>1. r.s = s /\ r.e = c.e /\ r.ids = {} /\ r.how = "bare" /\ r.done = {}
    BY <1>4, ResultFields
  <2>2. ~(Steady(c.s) /\ Consistent(c.s))
    BY <1>1, <1>4, PayableIsApproved, PayFromMoves DEF Steady, Consistent
  <2> QED
    BY <1>0, <1>1, <1>a, <1>4, <2>1, <2>2
    DEF Contract, Shaped, Carries, Pays, Approves, Consistent, Steady, Hows
<1>5. CASE /\ Payable(c) /\ ~c.s.verified /\ c.s.checkout = None
           /\ r = Result([s EXCEPT !.state = "PAID_VERIFIED"], c.e, {}, "sealed")
  <2>1. /\ r.s = [s EXCEPT !.state = "PAID_VERIFIED"]
        /\ r.e = c.e /\ r.ids = {} /\ r.how = "sealed" /\ r.done = {}
    BY <1>5, ResultFields
  <2>2. "PAID_VERIFIED" \in OrderStates /\ "PAID_VERIFIED" \in PaidStates
    BY DEF OrderStates, PaidStates, Successful
  <2>3. /\ r.s \in Session /\ r.s.state = "PAID_VERIFIED" /\ r.s.rank = c.s.rank
        /\ r.s.approved = c.s.approved /\ r.s.checkout = c.s.checkout /\ r.s.verified = TRUE
        /\ r.s.agentPaid = TRUE
    BY <1>1, <2>1, <2>2 DEF Session
  <2> QED
    BY <1>0, <1>a, <1>5, <2>1, <2>2, <2>3
    DEF Contract, Shaped, Carries, Pays, Approves, Consistent, Steady, Hows
<1> QED
  BY <1>2, <1>3, <1>4, <1>5

\* A step within the paid states meets the contract of any handler.
LEMMA PaidContract ==
  ASSUME NEW c \in Case, NEW kind, NEW next \in PaidStates, c.s.state \in PaidStates,
         NEW r, r = Result([c.s EXCEPT !.state = next], c.e, {}, "sealed")
  PROVE  Contract(c, r, kind, FALSE)
<1>0. c.s \in Session /\ c.e \in Envelope \cup {None}
  BY DEF Case
<1>1. /\ r.s = [c.s EXCEPT !.state = next]
      /\ r.e = c.e /\ r.ids = {} /\ r.how = "sealed" /\ r.done = {}
  BY ResultFields
<1>2. /\ r.s \in Session /\ r.s.state = next /\ r.s.rank = c.s.rank
      /\ r.s.approved = c.s.approved /\ r.s.checkout = c.s.checkout /\ r.s.verified = c.s.verified
      /\ r.s.agentPaid = c.s.agentPaid
  BY <1>0, <1>1, TargetTypes DEF Session
<1> QED
  BY <1>0, <1>1, <1>2
  DEF Contract, Shaped, Carries, Pays, Approves, Consistent, Steady, Hows

\* fulfil and compensate meet the contract.
LEMMA FulfilContract ==
  ASSUME NEW c \in Case, NEW fails \in BOOLEAN, NEW kind,
         NEW r \in Fulfil(c, fails) \cup Compensate(c)
  PROVE  Contract(c, r, kind, FALSE)
<1>1. CASE r \in Refuse(c)
  BY <1>1, SameContract DEF Refuse, Hows
<1>2. ASSUME NEW next \in {"FULFILMENT_FAILED", "FULFILLED", "REFUNDED", "MANUAL_REVIEW"},
             c.s.state \in {"PAID_VERIFIED", "FULFILMENT_FAILED", "COMPENSATION_PENDING"},
             r = Result([c.s EXCEPT !.state = next], c.e, {}, "sealed")
      PROVE  Contract(c, r, kind, FALSE)
  <2>1. next \in PaidStates /\ c.s.state \in PaidStates
    BY <1>2 DEF PaidStates, Successful
  <2> QED
    BY <1>2, <2>1, PaidContract
<1>3. CASE r \in Fulfil(c, fails)
  BY <1>1, <1>2, <1>3 DEF Fulfil
<1>4. CASE r \in Compensate(c)
  BY <1>1, <1>2, <1>4 DEF Compensate
<1> QED
  BY <1>3, <1>4

---------------------------------------------------------------------------
(* The inductive invariant: what holds whatever the refreshes do *)

\* A session and an envelope name ids that have been given out.
UsedIn(s) == s.rank \in used \cup {None} /\ s.checkout \in used \cup {None}
UsedBy(e) == e # None => e.digest \in used /\ e.rank \in used

\* What a session of order o says of payments is true.
Sound(s, o) ==
    /\ s.checkout \in IdsOf[o] \cup {None}
    /\ s.agentPaid => o \in spent
    /\ s.state \in PaidStates => PaidFor(s, o)

Good(s, o) == o \in used /\ Consistent(s) /\ UsedIn(s) /\ Sound(s, o)
Recorded(t) == Good(t.s, t.order) /\ UsedBy(t.e)

\* The reply under way answers a request, or brings a new order.
Answering == reply # None /\ reply.kind # "start"
Starting == reply # None /\ reply.kind = "start"
Sealed == Answering /\ reply.how = "sealed"

\* Whatever an instance, the page or a token holds was given out before, to the
\* order that it belongs to.
KnownInv ==
    /\ order \in used
    /\ \A i \in Instances, o \in Orders :
          (copy[i][o] # None => Good(copy[i][o], o)) /\ UsedBy(env[i][o])
    /\ token # None => Recorded(token)
    /\ reply # None /\ reply.token # None => Recorded(reply.token)
    /\ withdrawn \subseteq used

\* A refresh carries a token; once served, it is one of the order asked for.
RefreshInv ==
    \A r \in refreshes :
        /\ r.order \in used /\ r.token # None /\ Recorded(r.token)
        /\ r.served => r.token.order = r.order
        /\ reply # None => r.late

\* What was paid for are orders that were given out, each with a Razorpay order
\* of its own.
PaidInv ==
    /\ checkout \in IdsOf[order] \cup {None}
    /\ \A k \in Checkouts : charged[k] # None => k \in IdsOf[charged[k]] /\ charged[k] \in used
    /\ spent \subseteq used

\* The page sends one request at a time, and no reply contradicts its token.
PageInv ==
    /\ token = None => Starting /\ refreshes = {}
    /\ Answering =>
          /\ reply.order = order
          /\ (reply.how = "sealed") <=> (reply.token # None)
          /\ reply.how = "bare" => reply.state = None
          /\ reply.how = "plain" => reply.state \notin PaidStates
    /\ Sealed => reply.token.order = order /\ reply.state = reply.token.s.state

\* An order that the page does not know yet is untouched.
StartInv ==
    Starting =>
        /\ reply.order \in used /\ reply.order # order /\ reply.after \in {None, order}
        /\ reply.token # None /\ reply.token.order = reply.order
        /\ reply.token.s = NewSession /\ reply.token.e = None
        /\ \A i \in Instances : /\ copy[i][reply.order] \in {None, NewSession}
                                /\ env[i][reply.order] = None
        /\ reply.order \notin spent /\ \A k \in Checkouts : charged[k] # reply.order
        /\ \A r \in refreshes : r.order # reply.order /\ r.token.order # reply.order

FactsInv == SessionTypeOK /\ KnownInv /\ RefreshInv /\ PaidInv /\ PageInv /\ StartInv

---------------------------------------------------------------------------
(* The inductive invariant: what holds until a token is rolled back *)

\* The refreshes whose tokens are of order o, and those that are not late.
RefreshesOf(o) == {r \in refreshes : r.token.order = o}
InTime == {r \in refreshes : ~r.late}

\* The sessions and envelopes of an order that instances and refreshes hold.
Sessions(o) == {copy[i][o] : i \in Instances} \cup {r.token.s : r \in RefreshesOf(o)}
Envelopes(o) == {env[i][o] : i \in Instances} \cup {r.token.e : r \in RefreshesOf(o)}

\* The envelope of a withdrawn quote belongs to another recommendation.
Clear(e, s) == e # None /\ e.digest \in withdrawn => e.rank # s.rank

\* A token of the page's order knows what the page has seen.
Live(t) ==
    /\ Steady(t.s)
    /\ checkout # None => t.s.checkout = checkout
    /\ shown \in PaidStates => t.s.state \in PaidStates
    /\ t.s.approved \notin withdrawn
    /\ Clear(t.e, t.s)
    /\ \A e \in Envelopes(order) : Clear(e, t.s)

\* A change that has been accepted left no quote of the new recommendation.
Withdrawing ==
    /\ reply.token.s.approved = None /\ reply.token.e = None
    /\ \A e \in Envelopes(order) : e # None => e.rank # reply.token.s.rank

\* Every token that the page takes for its order is live.
LiveInv ==
    /\ token # None /\ token.order = order => Live(token)
    /\ \A r \in InTime : r.token.order = order => Live(r.token)
    /\ Sealed => Live(reply.token)
    /\ Sealed /\ reply.change => Withdrawing

\* A token of the page's order that records the agent's payment.
Knows(t) == t.order = order /\ t.s.agentPaid

\* An agent's payment is known to the tokens that the page will present.
AgentInv ==
    /\ order \in spent =>
          /\ checkout = None
          /\ \/ token = None
             \/ Knows(token) /\ \A r \in InTime : Knows(r.token)
             \/ Sealed /\ reply.kind = "settle" /\ Knows(reply.token)
    /\ Sealed /\ token # None /\ Knows(token) => Knows(reply.token)

\* The page presents, or may come to, the token of an order that it left.
Adrift ==
    \/ token # None /\ token.order # order
    \/ \E r \in InTime : r.order # order \/ r.token.order # order

\* Then nothing of consequence has happened to the new order.
AdriftInv ==
    Adrift =>
        /\ withdrawn = {} /\ checkout = None /\ shown \notin PaidStates
        /\ order \notin spent /\ \A k \in Checkouts : charged[k] # order
        /\ \A s \in Sessions(order) : s # None =>
              /\ s.checkout = None /\ ~s.agentPaid
              /\ \/ s.approved = None
                 \/ Answering /\ reply.kind = "approve" /\ reply.how \in {"sealed", "crash"}

\* OneCharge, and that the page's Razorpay order is the one to be paid.
ChargeInv ==
    /\ \A k, l \in Checkouts : charged[k] # None /\ charged[k] = charged[l] => k = l
    /\ \A o \in spent, k \in Checkouts : charged[k] # o
    /\ \A k \in Checkouts : charged[k] = order => checkout = k

\* A reply that brings a state alone finds the order unpaid.
PlainInv == Answering /\ reply.how = "plain" => shown \notin PaidStates

CourseInv == LiveInv /\ AgentInv /\ AdriftInv /\ ChargeInv /\ PlainInv

\* The inductive invariant.
SessionInv == FactsInv /\ (rolledBack \/ CourseInv)

---------------------------------------------------------------------------
(* What steps have in common *)

\* The types of what the instances hold.
ServerType ==
    /\ copy \in [Instances -> [Orders -> Session \cup {None}]]
    /\ env \in [Instances -> [Orders -> Envelope \cup {None}]]
    /\ trail \in [Instances -> [Orders -> SUBSET Checkouts]]
    /\ dedup \in [Instances -> SUBSET Checkouts]
    /\ \A i \in Instances, o \in Orders : env[i][o] # None => copy[i][o] # None

\* The types of what the page holds.
PageType ==
    /\ sent \in Nat /\ order \in Orders /\ token \in Token \cup {None}
    /\ shown \in OrderStates /\ checkout \in (Checkouts \cap used) \cup {None}
    /\ withdrawn \subseteq Quotes /\ refreshes \subseteq Refresh
    /\ reply \in Reply \cup {None} /\ rolledBack \in BOOLEAN

\* The types of what has been paid.
PaidType == charged \in [Checkouts -> Orders \cup {None}] /\ spent \subseteq Orders

\* The type invariant has these parts.
LEMMA TypeParts ==
  SessionTypeOK <=> ServerType /\ PageType /\ PaidType
  BY DEF SessionTypeOK, ServerType, PageType, PaidType

\* Ids stay given out, and payments stay made.
Grows ==
    /\ used \subseteq used' /\ spent \subseteq spent'
    /\ \A k \in Checkouts : charged[k] # None => charged'[k] = charged[k]

\* So what is recorded stays true.
LEMMA GoodStays ==
  ASSUME Grows
  PROVE  /\ \A s \in Session, o \in Orders : Good(s, o) => Good(s, o)'
         /\ \A e : UsedBy(e) => UsedBy(e)'
         /\ \A t \in Token : Recorded(t) => Recorded(t)'
<1>1. ASSUME NEW s \in Session, NEW o \in Orders, Good(s, o)
      PROVE  Good(s, o)'
  <2>1. o # None /\ s.checkout \in Checkouts \cup {None}
    BY NoneAssumption DEF Session
  <2>2. PaidFor(s, o) => PaidFor(s, o)'
    BY <2>1 DEF Grows, PaidFor
  <2> QED
    BY <1>1, <2>2 DEF Grows, Good, UsedIn, Sound
<1>2. ASSUME NEW e, UsedBy(e)
      PROVE  UsedBy(e)'
  BY <1>2 DEF Grows, UsedBy
<1>3. ASSUME NEW t \in Token, Recorded(t)
      PROVE  Recorded(t)'
  <2>1. t.s \in Session /\ t.order \in Orders
    BY DEF Token
  <2> QED
    BY <1>1, <1>2, <1>3, <2>1 DEF Recorded
<1> QED
  BY <1>1, <1>2, <1>3

\* The fields of a refresh.
LEMMA RefreshType ==
  ASSUME NEW r \in Refresh
  PROVE  /\ r.order \in Orders /\ r.token \in Token \cup {None}
         /\ r.served \in BOOLEAN /\ r.late \in BOOLEAN
  BY DEF Refresh

\* Every refresh is one that was there, or a later form of it.
Carried ==
    \A q \in refreshes' :
        /\ q \in Refresh
        /\ \E r \in refreshes : /\ q.order = r.order /\ q.token = r.token
                                /\ q.served = r.served /\ (r.late => q.late)

\* The refreshes under way are marked late, and are the same otherwise.
LEMMA PostIs ==
  ASSUME refreshes \subseteq Refresh, Post
  PROVE  Carried /\ (\A q \in refreshes' : q.late) /\ InTime' = {}
<1>1. ASSUME NEW q \in refreshes'
      PROVE  /\ q \in Refresh /\ q.late
             /\ \E r \in refreshes : /\ q.order = r.order /\ q.token = r.token
                                     /\ q.served = r.served /\ (r.late => q.late)
  <2>1. PICK r \in refreshes : q = [r EXCEPT !.late = TRUE]
    BY DEF Post
  <2>2. r \in Refresh
    OBVIOUS
  <2>3. /\ q \in Refresh /\ q.late /\ q.order = r.order /\ q.token = r.token
        /\ q.served = r.served
    BY <2>1, <2>2 DEF Refresh
  <2> QED
    BY <2>3
<1> QED
  BY <1>1 DEF Carried, InTime

\* Such refreshes hold what they held.
LEMMA CarriedHold ==
  ASSUME Carried
  PROVE  /\ refreshes' \subseteq Refresh
         /\ \A o : \A s \in Sessions(o)' : s \in Sessions(o) \/ \E i \in Instances : s = copy'[i][o]
         /\ \A o : \A e \in Envelopes(o)' : e \in Envelopes(o) \/ \E i \in Instances : e = env'[i][o]
         /\ \A q \in InTime' : \E r \in InTime : q.order = r.order /\ q.token = r.token
<1>1. refreshes' \subseteq Refresh
  BY DEF Carried
<1>2. ASSUME NEW o, NEW s \in Sessions(o)'
      PROVE  s \in Sessions(o) \/ \E i \in Instances : s = copy'[i][o]
  BY <1>2 DEF Carried, Sessions, RefreshesOf
<1>3. ASSUME NEW o, NEW e \in Envelopes(o)'
      PROVE  e \in Envelopes(o) \/ \E i \in Instances : e = env'[i][o]
  BY <1>3 DEF Carried, Envelopes, RefreshesOf
<1>4. ASSUME NEW q \in InTime'
      PROVE  \E r \in InTime : q.order = r.order /\ q.token = r.token
  BY <1>4 DEF Carried, InTime
<1> QED
  BY <1>1, <1>2, <1>3, <1>4

\* And they stay recorded.
LEMMA CarriedRecorded ==
  ASSUME FactsInv, Carried, Grows, reply' # None => \A q \in refreshes' : q.late
  PROVE  RefreshInv'
<1>1. SUFFICES ASSUME NEW q \in refreshes'
               PROVE  /\ q.order \in used' /\ q.token # None /\ Recorded(q.token)'
                      /\ q.served => q.token.order = q.order
  BY DEF RefreshInv
<1>2. PICK r \in refreshes : q.order = r.order /\ q.token = r.token /\ q.served = r.served
  BY DEF Carried
<1>3. r.order \in used /\ r.token # None /\ Recorded(r.token) /\ (r.served => r.token.order = r.order)
  BY DEF FactsInv, RefreshInv
<1>4. r.token \in Token
  BY <1>3, RefreshType DEF FactsInv, SessionTypeOK
<1>5. Recorded(q.token)'
  BY <1>2, <1>3, <1>4, GoodStays
<1> QED
  BY <1>2, <1>3, <1>5 DEF Grows

\* A token stays live when no new envelope contradicts it.
LEMMA LiveStays ==
  ASSUME UNCHANGED <<order, checkout, shown, withdrawn>>, NEW x,
         \A e \in Envelopes(order)' : e \in Envelopes(order) \cup {None, x}
  PROVE  \A t : Live(t) /\ Clear(x, t.s) => Live(t)'
<1>1. SUFFICES ASSUME NEW t, Live(t), Clear(x, t.s)
               PROVE  Live(t)'
  OBVIOUS
<1>2. ASSUME NEW e \in Envelopes(order)'
      PROVE  Clear(e, t.s)'
  BY <1>1, <1>2 DEF Live, Clear
<1>3. \A e \in Envelopes(order)' : Clear(e, t.s)'
  BY <1>2
<1>4. (\A e \in Envelopes(order) : Clear(e, t.s))'
  BY <1>3
<1> QED
  BY <1>1, <1>4 DEF Live, Clear

---------------------------------------------------------------------------
(* Steps of the servers *)

\* What a webhook may do to a session of order o: a payment of the order
\* becomes known, or is held.
Noted(s, next, o) ==
    /\ s # None /\ next # None /\ s.checkout # None
    /\ next.rank = s.rank /\ next.approved = s.approved
    /\ next.checkout = s.checkout /\ next.agentPaid = s.agentPaid
    /\ Consistent(s) => Consistent(next)
    /\ Good(s, o) => Good(next, o)

\* The servers forget orders or hear of payments, unseen by the page.
ServerStep ==
    /\ ServerType'
    /\ \A i \in Instances, o \in Orders :
          /\ copy'[i][o] \in {copy[i][o], None} \/ Noted(copy[i][o], copy'[i][o], o)
          /\ env'[i][o] \in {env[i][o], None}
    /\ UNCHANGED <<used, charged, spent, pageVars>>

\* Such a step keeps what holds always.
LEMMA ServerStepFacts ==
  ASSUME FactsInv, ServerStep
  PROVE  FactsInv'
<1> USE DEF ServerStep, pageVars
<1>0. /\ order \in Orders /\ (reply # None => reply.order \in Orders) /\ token \in Token \cup {None}
      /\ reply # None /\ reply.token # None => reply.token \in Token
      /\ refreshes \subseteq Refresh
  BY DEF FactsInv, SessionTypeOK, Reply
<1>a. Grows
  BY DEF Grows
<1>1. SessionTypeOK'
  BY DEF FactsInv, SessionTypeOK, ServerType
<1>2. KnownInv'
  <2>1. ASSUME NEW i \in Instances, NEW o \in Orders
        PROVE  (copy'[i][o] # None => Good(copy[i][o], o)') /\ UsedBy(env[i][o])'
    <3>1. (copy[i][o] # None => Good(copy[i][o], o)) /\ UsedBy(env[i][o])
      BY DEF FactsInv, KnownInv
    <3>2. copy'[i][o] # None => copy'[i][o] \in Session /\ Good(copy'[i][o], o)
      BY <3>1 DEF ServerType, Noted
    <3>3. UsedBy(env'[i][o])
      BY <3>1 DEF UsedBy
    <3>4. copy'[i][o] # None => Good(copy[i][o], o)'
      BY <1>a, <3>2, GoodStays
    <3>5. UsedBy(env[i][o])'
      BY <1>a, <3>3, GoodStays
    <3> QED
      BY <3>4, <3>5
  <2>2. token # None => Recorded(token)'
    BY <1>0, <1>a, GoodStays DEF FactsInv, KnownInv
  <2>3. reply # None /\ reply.token # None => Recorded(reply.token)'
    BY <1>0, <1>a, GoodStays DEF FactsInv, KnownInv
  <2> QED
    BY <2>1, <2>2, <2>3 DEF FactsInv, KnownInv
<1>3. RefreshInv'
  <2>1. Carried
    BY <1>0 DEF Carried
  <2>2. reply' # None => \A q \in refreshes' : q.late
    BY DEF FactsInv, RefreshInv
  <2> QED
    BY <1>a, <2>1, <2>2, CarriedRecorded
<1>4. PaidInv' /\ PageInv'
  BY DEF FactsInv, PaidInv, PageInv, Answering, Starting, Sealed
<1>5. StartInv'
  <2>1. NewSession.checkout = None
    BY DEF NewSession
  <2> QED
    BY <1>0, <2>1 DEF FactsInv, StartInv, Starting, Noted
<1> QED
  BY <1>1, <1>2, <1>3, <1>4, <1>5 DEF FactsInv

\* And what holds until a token is rolled back.
LEMMA ServerStepCourse ==
  ASSUME FactsInv, CourseInv, ServerStep
  PROVE  CourseInv'
<1> USE DEF ServerStep, pageVars
<1>0. order \in Orders
  BY DEF FactsInv, SessionTypeOK
<1>1. \A e \in Envelopes(order)' : e \in Envelopes(order) \cup {None}
  BY <1>0 DEF Envelopes, RefreshesOf
<1>2. ASSUME NEW s \in Sessions(order)', s # None
      PROVE  \E r \in Sessions(order) :
                r # None /\ (s = r \/ (r.checkout # None /\ s.checkout = r.checkout))
  BY <1>0, <1>2 DEF Sessions, RefreshesOf, Noted
<1>3. \A t : Live(t) => Live(t)'
  BY <1>1, LiveStays DEF Clear
<1>4. InTime' = InTime
  BY DEF InTime
<1>5. LiveInv'
  <2>1. (Sealed <=> Sealed') /\ (Withdrawing => Withdrawing')
    BY <1>1 DEF Sealed, Answering, Withdrawing
  <2> QED
    BY <1>3, <1>4, <2>1 DEF CourseInv, LiveInv
<1>6. AgentInv' /\ PlainInv'
  BY <1>4 DEF CourseInv, AgentInv, PlainInv, Knows, Sealed, Answering
<1>7. AdriftInv'
  BY <1>2, <1>4 DEF CourseInv, AdriftInv, Adrift, Answering
<1>8. ChargeInv'
  BY DEF CourseInv, ChargeInv
<1> QED
  BY <1>5, <1>6, <1>7, <1>8 DEF CourseInv

\* g holds x at instance i for order o, and is f elsewhere.
PutAt(g, f, i, o, x) ==
    \A j \in Instances, p \in Orders : g[j][p] = IF j = i /\ p = o THEN x ELSE f[j][p]

\* Two-dimensional updates, pointwise.
LEMMA Updated ==
  ASSUME NEW S, NEW f \in [Instances -> [Orders -> S]], NEW i \in Instances, NEW o \in Orders,
         NEW x \in S, NEW g, g = [f EXCEPT ![i][o] = x]
  PROVE  /\ g \in [Instances -> [Orders -> S]]
         /\ PutAt(g, f, i, o, x)
  BY DEF PutAt

\* What a handler stores is what its instance then holds, and nothing else
\* changes.
LEMMA Stored ==
  ASSUME ServerType, NEW i \in Instances, NEW o \in Orders,
         NEW s \in Session \cup {None}, NEW e \in Envelope \cup {None}, e # None => s # None,
         NEW seen, seen \subseteq Checkouts, NEW done, done \subseteq Checkouts,
         Store(i, o, s, e, seen, done)
  PROVE  /\ ServerType'
         /\ PutAt(copy', copy, i, o, s)
         /\ PutAt(env', env, i, o, e)
<1>1. /\ copy' \in [Instances -> [Orders -> Session \cup {None}]]
      /\ PutAt(copy', copy, i, o, s)
  BY Updated DEF ServerType, Store, PutAt
<1>2. /\ env' \in [Instances -> [Orders -> Envelope \cup {None}]]
      /\ PutAt(env', env, i, o, e)
  BY Updated DEF ServerType, Store, PutAt
<1>3. trail' \in [Instances -> [Orders -> SUBSET Checkouts]]
  <2>1. trail[i][o] \cup seen \in SUBSET Checkouts
    BY DEF ServerType
  <2>2. trail' = [trail EXCEPT ![i][o] = trail[i][o] \cup seen]
    BY DEF Store, ServerType
  <2> QED
    BY <2>1, <2>2, Updated DEF ServerType
<1>4. dedup' \in [Instances -> SUBSET Checkouts]
  BY DEF ServerType, Store
<1>5. ServerType'
  BY <1>1, <1>2, <1>3, <1>4 DEF ServerType, PutAt
<1> QED
  BY <1>1, <1>2, <1>5

\* A webhook is a step of the servers.
LEMMA WebhookIsServerStep ==
  ASSUME FactsInv, NEW i \in Instances, NEW k \in Checkouts, Webhook(i, k)
  PROVE  ServerStep
<1>0. ServerType
  BY TypeParts DEF FactsInv
<1>1. PICK o \in Orders :
        /\ copy[i][o] # None /\ copy[i][o].checkout = k /\ charged[k] # None
        /\ \/ \E done \in {{}, {k}} : Store(i, o, copy[i][o], env[i][o], {k}, done)
           \/ \E done \in {{}, {k}} :
                Store(i, o, [copy[i][o] EXCEPT !.held = k], env[i][o], {k}, done)
           \/ \E done \in {{}, {k}} :
                Store(i, o, [copy[i][o] EXCEPT !.verified = TRUE, !.state = "PAID_VERIFIED"],
                      env[i][o], {k}, done)
  BY DEF Webhook, FindsSession
<1> DEFINE old == copy[i][o]
           hold == [old EXCEPT !.held = k]
           paid == [old EXCEPT !.verified = TRUE, !.state = "PAID_VERIFIED"]
<1>2. old \in Session /\ env[i][o] \in Envelope \cup {None} /\ old.checkout # None
  BY <1>0, <1>1, NoneAssumption DEF ServerType
<1>3. ASSUME NEW s, s = old \/ s = hold \/ s = paid
      PROVE  s \in Session /\ Noted(old, s, o)
  <2> HIDE DEF old
  <2>1. "PAID_VERIFIED" \in OrderStates
    BY DEF OrderStates
  <2>2. /\ s \in Session /\ s.rank = old.rank /\ s.approved = old.approved
        /\ s.checkout = old.checkout /\ s.agentPaid = old.agentPaid
        /\ Consistent(old) => Consistent(s)
    BY <1>2, <1>3, <2>1 DEF Session, Consistent
  <2>3. Good(old, o) => charged[k] = o
    <3>1. k \in IdsOf[charged[k]] /\ charged[k] \in Orders
      BY <1>1 DEF FactsInv, PaidInv, SessionTypeOK
    <3>2. Good(old, o) => k \in IdsOf[o]
      BY <1>1, <1>2 DEF Good, Sound, old
    <3> QED
      BY <3>1, <3>2, IdsAssumption
  <2>4. old.checkout = k
    BY <1>1 DEF old
  <2>5. s.state = old.state \/ s = paid
    BY <1>2, <1>3 DEF Session
  <2>6. Good(old, o) => Good(s, o)
    <3>1. Good(old, o) => PaidFor(s, o)
      BY <1>2, <2>2, <2>3, <2>4 DEF PaidFor
    <3> QED
      BY <2>2, <3>1 DEF Good, UsedIn, Sound
  <2> QED
    BY <1>2, <2>2, <2>6, NoneAssumption DEF Noted
<1>4. PICK s, done : /\ s \in Session /\ Noted(old, s, o) /\ done \in {{}, {k}}
                     /\ Store(i, o, s, env[i][o], {k}, done)
  <2>1. \E s : (s = old \/ s = hold \/ s = paid)
                /\ \E done \in {{}, {k}} : Store(i, o, s, env[i][o], {k}, done)
    BY <1>1
  <2> HIDE DEF old, hold, paid
  <2> QED
    BY <2>1, <1>3
<1> HIDE DEF hold, paid
<1>9. ServerType' /\ PutAt(copy', copy, i, o, s) /\ PutAt(env', env, i, o, env[i][o])
  <2>1. PICK seen, e : seen \subseteq Checkouts /\ e \in Envelope \cup {None} /\ seen = {k} /\ e = env[i][o]
    BY <1>2
  <2>2. /\ done \subseteq Checkouts /\ s \in Session \cup {None} /\ (e # None => s # None)
        /\ Store(i, o, s, e, seen, done)
    BY <1>4, <2>1, NoneAssumption
  <2>3. ServerType'
    BY <1>0, <2>1, <2>2, Stored
  <2>4. PutAt(copy', copy, i, o, s)
    BY <1>0, <2>1, <2>2, Stored
  <2>5. PutAt(env', env, i, o, e)
    BY <1>0, <2>1, <2>2, Stored
  <2> QED
    BY <2>1, <2>3, <2>4, <2>5
<1>10. UNCHANGED <<used, charged, spent, pageVars>>
  BY DEF Webhook
<1> QED
  BY <1>4, <1>9, <1>10 DEF ServerStep, PutAt

\* An instance that forgets an order, or everything, is a step of the servers.
LEMMA ForgettingIsServerStep ==
  ASSUME FactsInv, NEW i \in Instances,
         (\E o \in Orders : Evict(i, o)) \/ ColdStart(i)
  PROVE  ServerStep
<1>0. ServerType
  BY TypeParts DEF FactsInv
<1>1. ASSUME NEW o \in Orders, Evict(i, o)
      PROVE  ServerStep
  <2>1. /\ copy' \in [Instances -> [Orders -> Session \cup {None}]]
        /\ PutAt(copy', copy, i, o, None)
    BY <1>0, <1>1, Updated DEF ServerType, Evict, PutAt
  <2>2. /\ env' \in [Instances -> [Orders -> Envelope \cup {None}]]
        /\ PutAt(env', env, i, o, None)
    BY <1>0, <1>1, Updated DEF ServerType, Evict, PutAt
  <2> QED
    BY <1>0, <1>1, <2>1, <2>2 DEF ServerType, ServerStep, Evict, PutAt
<1>2. CASE ColdStart(i)
  <2>1. /\ copy' \in [Instances -> [Orders -> Session \cup {None}]]
        /\ \A j \in Instances, p \in Orders : copy'[j][p] = IF j = i THEN None ELSE copy[j][p]
    BY <1>0, <1>2 DEF ServerType, ColdStart
  <2>2. /\ env' \in [Instances -> [Orders -> Envelope \cup {None}]]
        /\ \A j \in Instances, p \in Orders : env'[j][p] = IF j = i THEN None ELSE env[j][p]
    BY <1>0, <1>2 DEF ServerType, ColdStart
  <2>3. /\ trail' \in [Instances -> [Orders -> SUBSET Checkouts]]
        /\ dedup' \in [Instances -> SUBSET Checkouts]
    BY <1>0, <1>2 DEF ServerType, ColdStart
  <2> QED
    BY <1>0, <1>2, <2>1, <2>2, <2>3 DEF ServerType, ServerStep, ColdStart
<1> QED
  BY <1>1, <1>2

---------------------------------------------------------------------------
(* Steps of the page alone *)

\* What the instances and the page hold stays recorded when only the page's
\* token changes, to a recorded one.
LEMMA KnownStays ==
  ASSUME FactsInv, Grows, UNCHANGED <<copy, env, order, withdrawn>>, reply' \in {reply, None},
         token' # None => token' \in Token /\ Recorded(token')
  PROVE  KnownInv'
<1>1. ASSUME NEW i \in Instances, NEW o \in Orders
      PROVE  (copy'[i][o] # None => Good(copy[i][o], o)') /\ UsedBy(env[i][o])'
  <2>1. (copy[i][o] # None => copy[i][o] \in Session /\ Good(copy[i][o], o)) /\ UsedBy(env[i][o])
    BY DEF FactsInv, KnownInv, SessionTypeOK
  <2>2. copy[i][o] # None => Good(copy[i][o], o)'
    BY <2>1, GoodStays
  <2>3. UsedBy(env[i][o])'
    BY <2>1, GoodStays
  <2> QED
    BY <2>2, <2>3
<1>2. token' # None => Recorded(token)'
  BY GoodStays
<1>3. reply' # None /\ reply'.token # None => Recorded(reply.token)'
  <2>1. reply # None /\ reply.token # None => reply.token \in Token /\ Recorded(reply.token)
    BY DEF FactsInv, SessionTypeOK, KnownInv, Reply
  <2> QED
    BY <2>1, GoodStays
<1> QED
  BY <1>1, <1>2, <1>3 DEF FactsInv, KnownInv, Grows

\* The customer pays the Razorpay order that the page knows.
LEMMA CustomerPaysFacts ==
  ASSUME FactsInv, CustomerPays
  PROVE  FactsInv' /\ \A k \in Checkouts : charged'[k] = IF k = checkout THEN order ELSE charged[k]
<1> USE DEF CustomerPays, serverVars, pageVars
<1>0. /\ order \in Orders /\ checkout \in Checkouts /\ order # None
      /\ charged \in [Checkouts -> Orders \cup {None}] /\ charged[checkout] = None
      /\ charged' = [charged EXCEPT ![checkout] = order] /\ refreshes \subseteq Refresh
  BY NoneAssumption DEF FactsInv, SessionTypeOK
<1>1. \A k \in Checkouts : charged'[k] = IF k = checkout THEN order ELSE charged[k]
  BY <1>0
<1>a. Grows
  BY <1>0, <1>1 DEF Grows
<1>2. SessionTypeOK'
  BY <1>0 DEF FactsInv, SessionTypeOK
<1>3. KnownInv'
  <2>1. token' # None => token' \in Token /\ Recorded(token')
    BY DEF FactsInv, SessionTypeOK, KnownInv
  <2> QED
    BY <1>a, <2>1, KnownStays
<1>4. RefreshInv'
  <2>1. Carried
    BY <1>0 DEF Carried
  <2>2. reply' # None => \A q \in refreshes' : q.late
    BY DEF FactsInv, RefreshInv
  <2> QED
    BY <1>a, <2>1, <2>2, CarriedRecorded
<1>5. PaidInv'
  BY <1>0, <1>1 DEF FactsInv, PaidInv, KnownInv
<1>6. PageInv'
  BY DEF FactsInv, PageInv, Answering, Starting, Sealed
<1>7. StartInv'
  BY <1>1 DEF FactsInv, StartInv, Starting
<1> QED
  BY <1>1, <1>2, <1>3, <1>4, <1>5, <1>6, <1>7 DEF FactsInv

\* No other Razorpay order was paid, and the agent has not.
LEMMA CustomerPaysCourse ==
  ASSUME FactsInv, CourseInv, CustomerPays
  PROVE  CourseInv'
<1> USE DEF CustomerPays, serverVars, pageVars
<1>0. /\ order \in Orders /\ checkout # None /\ order # None
      /\ \A k \in Checkouts : charged'[k] = IF k = checkout THEN order ELSE charged[k]
  BY CustomerPaysFacts, NoneAssumption DEF FactsInv, SessionTypeOK
<1>1. /\ Envelopes(order)' = Envelopes(order) /\ Sessions(order)' = Sessions(order)
      /\ InTime' = InTime
  BY DEF Envelopes, Sessions, RefreshesOf, InTime
<1>2. LiveInv'
  BY <1>1 DEF CourseInv, LiveInv, Live, Clear, Sealed, Answering, Withdrawing
<1>3. AgentInv' /\ PlainInv'
  BY <1>1 DEF CourseInv, AgentInv, PlainInv, Knows, Sealed, Answering
<1>4. ~Adrift /\ (Adrift' <=> Adrift)
  BY <1>0, <1>1 DEF CourseInv, AdriftInv, Adrift
<1>5. AdriftInv'
  BY <1>4 DEF AdriftInv
<1>6. ChargeInv'
  <2>1. \A k \in Checkouts : charged[k] # order
    BY <1>0 DEF CourseInv, ChargeInv
  <2>2. order \notin spent
    BY <1>0 DEF CourseInv, AgentInv
  <2> QED
    BY <1>0, <2>1, <2>2 DEF CourseInv, ChargeInv
<1> QED
  BY <1>2, <1>3, <1>5, <1>6 DEF CourseInv

\* A reply to a message is lost; the page keeps its token.
LEMMA LoseReplyFacts ==
  ASSUME FactsInv, LoseReply
  PROVE  FactsInv'
<1> USE DEF LoseReply, serverVars
<1>0. /\ Answering /\ ~Starting /\ token # None /\ refreshes \subseteq Refresh
      /\ ~Answering' /\ ~Starting' /\ ~Sealed'
  BY DEF Answering, Starting, Sealed, FactsInv, SessionTypeOK, PageInv
<1>a. Grows
  BY DEF Grows
<1>1. SessionTypeOK'
  BY DEF FactsInv, SessionTypeOK
<1>2. KnownInv'
  <2>1. token' # None => token' \in Token /\ Recorded(token')
    BY DEF FactsInv, SessionTypeOK, KnownInv
  <2> QED
    BY <1>a, <2>1, KnownStays
<1>3. RefreshInv'
  <2>1. Carried
    BY <1>0 DEF Carried
  <2> QED
    BY <1>a, <2>1, CarriedRecorded
<1>4. PaidInv' /\ PageInv' /\ StartInv'
  BY <1>0 DEF FactsInv, PaidInv, PageInv, StartInv
<1> QED
  BY <1>1, <1>2, <1>3, <1>4 DEF FactsInv

\* The tokens that the page may get are those that it could get before.
LEMMA LoseReplyCourse ==
  ASSUME FactsInv, CourseInv, LoseReply
  PROVE  CourseInv'
<1> USE DEF LoseReply, serverVars
<1>0. /\ Answering /\ reply.kind # "settle" /\ reply.kind # "approve" /\ token # None
      /\ ~Answering' /\ ~Starting' /\ ~Sealed'
  BY DEF Answering, Starting, Sealed, FactsInv, PageInv
<1>1. /\ Envelopes(order)' = Envelopes(order) /\ Sessions(order)' = Sessions(order)
      /\ InTime' = InTime
  BY DEF Envelopes, Sessions, RefreshesOf, InTime
<1>2. LiveInv'
  BY <1>0, <1>1 DEF CourseInv, LiveInv, Live, Clear
<1>3. AgentInv' /\ PlainInv'
  BY <1>0, <1>1 DEF CourseInv, AgentInv, PlainInv, Knows
<1>4. AdriftInv'
  BY <1>0, <1>1 DEF CourseInv, AdriftInv, Adrift
<1>5. ChargeInv'
  BY DEF CourseInv, ChargeInv
<1> QED
  BY <1>2, <1>3, <1>4, <1>5 DEF CourseInv

\* A refresh that was served brings its token.
LEMMA RefreshArrivesFacts ==
  ASSUME FactsInv, NEW r \in refreshes, RefreshArrives(r)
  PROVE  FactsInv'
<1> USE DEF RefreshArrives, serverVars
<1>0. /\ r \in Refresh /\ r.token \in Token /\ r.token # None /\ Recorded(r.token)
      /\ refreshes \subseteq Refresh /\ token # None
      /\ rolledBack' \in BOOLEAN
  BY RefreshType DEF FactsInv, SessionTypeOK, RefreshInv, PageInv
<1>a. Grows
  BY DEF Grows
<1>1. SessionTypeOK'
  BY <1>0 DEF FactsInv, SessionTypeOK
<1>2. KnownInv'
  BY <1>0, <1>a, KnownStays
<1>3. Carried
  BY <1>0 DEF Carried
<1>4. RefreshInv'
  <2>1. reply' # None => \A q \in refreshes' : q.late
    BY DEF FactsInv, RefreshInv
  <2> QED
    BY <1>a, <1>3, <2>1, CarriedRecorded
<1>5. PaidInv' /\ PageInv' /\ StartInv'
  BY <1>0 DEF FactsInv, PaidInv, PageInv, StartInv, Answering, Starting, Sealed
<1> QED
  BY <1>1, <1>2, <1>4, <1>5 DEF FactsInv

\* Unless the token is rolled back, a late refresh brings the session that the
\* page's token holds already, and one in time a live one.
LEMMA RefreshArrivesCourse ==
  ASSUME FactsInv, CourseInv, NEW r \in refreshes, RefreshArrives(r), ~rolledBack'
  PROVE  CourseInv'
<1> USE DEF RefreshArrives, serverVars
<1>0. /\ r.token # None /\ r.token.order = r.order /\ token # None /\ (reply # None => r.late)
      /\ r \in Refresh /\ r.late \in BOOLEAN
  BY RefreshType DEF FactsInv, SessionTypeOK, RefreshInv, PageInv
<1>1. /\ Envelopes(order)' \subseteq Envelopes(order) /\ Sessions(order)' \subseteq Sessions(order)
      /\ InTime' \subseteq InTime
  BY DEF Envelopes, Sessions, RefreshesOf, InTime
<1>2. \/ r \in InTime /\ reply = None
      \/ r.order = token.order /\ r.token.s = token.s
  BY <1>0 DEF InTime
<1>3. \A t : Live(t) => Live(t)'
  BY <1>1, LiveStays DEF Clear
<1>4. token'.order = order => Live(token)'
  <2>1. SUFFICES ASSUME r.token.order = order
                 PROVE  Live(token)'
    OBVIOUS
  <2>2. CASE r \in InTime
    BY <1>3, <2>1, <2>2 DEF CourseInv, LiveInv
  <2>3. CASE r.order = token.order /\ r.token.s = token.s
    <3>1. Live(token) /\ r.token.e \in Envelopes(order)
      BY <1>0, <2>1, <2>3 DEF CourseInv, LiveInv, Envelopes, RefreshesOf
    <3>2. Live(r.token)
      BY <2>3, <3>1 DEF Live, Clear
    <3> QED
      BY <1>3, <3>2
  <2> QED
    BY <1>2, <2>2, <2>3
<1>5. (Sealed <=> Sealed') /\ (Answering <=> Answering')
  BY DEF Sealed, Answering
<1>6. LiveInv'
  <2>1. Withdrawing => Withdrawing'
    BY <1>1 DEF Withdrawing
  <2>2. Sealed' => Live(reply.token)'
    BY <1>3, <1>5 DEF CourseInv, LiveInv
  <2> QED
    BY <1>0, <1>1, <1>3, <1>4, <1>5, <2>1, <2>2 DEF CourseInv, LiveInv
<1>7. r \notin InTime /\ Knows(token) => Knows(token')
  BY <1>0, <1>2 DEF Knows
<1>8. AgentInv' /\ PlainInv'
  <2>1. Sealed /\ Knows(token') => Knows(token)
    BY <1>0, <1>2 DEF Knows, Sealed, Answering
  <2>2. order \in spent /\ r \in InTime => Knows(token')
    BY <1>0 DEF CourseInv, AgentInv, Sealed, Answering, InTime
  <2> QED
    BY <1>0, <1>1, <1>2, <1>5, <1>7, <2>1, <2>2 DEF CourseInv, AgentInv, PlainInv, Knows
<1>9. AdriftInv'
  <2>1. Adrift' => Adrift
    BY <1>0, <1>1, <1>2 DEF Adrift
  <2> QED
    BY <1>1, <1>5, <2>1 DEF CourseInv, AdriftInv
<1>10. ChargeInv'
  BY DEF CourseInv, ChargeInv
<1> QED
  BY <1>6, <1>8, <1>9, <1>10 DEF CourseInv

---------------------------------------------------------------------------
(* Snapshots *)

\* A token of order o.
Mine(t, o) == t # None /\ t.order = o

\* importSession: a token of the order decides, save for an envelope that it
\* does not carry; any other token leaves the instance's own copy.
LEMMA RestoredIs ==
  ASSUME ServerType, NEW i \in Instances, NEW o \in Orders, NEW t \in Token \cup {None},
         NEW c, c = Restored(i, o, t)
  PROVE  /\ c.s \in Session \cup {None} /\ c.e \in Envelope \cup {None}
         /\ c.events \subseteq Checkouts
         /\ c.e # None => c.s # None
         /\ c.s # None => c \in Case
         /\ Mine(t, o) => c.s = t.s /\ c.s # None /\ c.e \in {t.e, env[i][o]}
         /\ ~Mine(t, o) => c.s = copy[i][o] /\ c.e = env[i][o]
<1>1. CASE Mine(t, o)
  <2>1. /\ c = [s |-> t.s, e |-> IF t.e = None THEN env[i][o] ELSE t.e, events |-> t.events]
    BY <1>1 DEF Mine, Restored
  <2>2. t.s \in Session /\ t.e \in Envelope \cup {None} /\ t.events \subseteq Checkouts
    BY <1>1 DEF Mine, Token
  <2>3. env[i][o] \in Envelope \cup {None}
    BY DEF ServerType
  <2> QED
    BY <1>1, <2>1, <2>2, <2>3, NoneAssumption DEF Case
<1>2. CASE ~Mine(t, o)
  <2>1. c = [s |-> copy[i][o], e |-> env[i][o], events |-> {}]
    BY <1>2 DEF Mine, Restored
  <2>2. /\ copy[i][o] \in Session \cup {None} /\ env[i][o] \in Envelope \cup {None}
        /\ env[i][o] # None => copy[i][o] # None
    BY DEF ServerType
  <2> QED
    BY <1>2, <2>1, <2>2 DEF Case
<1> QED
  BY <1>1, <1>2

\* tokenFor seals what the instance has just stored.
LEMMA SealIs ==
  ASSUME NEW i \in Instances, NEW o \in Orders, ServerType', copy'[i][o] # None,
         NEW t, t = Seal(i, o)
  PROVE  /\ t \in Token /\ t.order = o /\ t.s = copy'[i][o] /\ t.e = env'[i][o]
<1>1. t = [order |-> o, s |-> copy'[i][o], e |-> env'[i][o], events |-> trail'[i][o]]
  BY DEF Seal
<1>2. /\ copy'[i][o] \in Session /\ env'[i][o] \in Envelope \cup {None}
      /\ trail'[i][o] \in SUBSET Checkouts
  BY DEF ServerType
<1> QED
  BY <1>1, <1>2 DEF Token


\* What serving refresh r at instance j leaves: session s and envelope e, which
\* were the refresh's or the instance's, and a token of them.
Served(j, r, s, e) ==
    /\ ServerType' /\ s \in Session \cup {None} /\ e \in Envelope \cup {None}
    /\ \/ r.token.order = r.order /\ s = r.token.s /\ e \in {r.token.e, env[j][r.order]}
       \/ r.token.order # r.order /\ s = copy[j][r.order] /\ e = env[j][r.order]
    /\ \A i \in Instances, p \in Orders :
          /\ copy'[i][p] = copy[i][p] \/ (i = j /\ p = r.order /\ copy'[i][p] = s)
          /\ env'[i][p] = env[i][p] \/ (i = j /\ p = r.order /\ env'[i][p] = e)
    /\ \A q \in refreshes' :
          \/ q \in refreshes
          \/ /\ q \in Refresh /\ q.order = r.order /\ q.late = r.late
             /\ q.token \in Token /\ q.token # None
             /\ q.token.order = r.order /\ q.token.s = s /\ q.token.e = e /\ s # None

\* refreshTimeline stores and returns the restored case.
LEMMA ServedIs ==
  ASSUME FactsInv, NEW j \in Instances, NEW r \in refreshes, ServeRefresh(j, r)
  PROVE  \E s, e : Served(j, r, s, e)
<1>0. /\ ServerType /\ r \in Refresh /\ r.order \in Orders /\ r.token \in Token /\ r.token # None
      /\ r.late \in BOOLEAN /\ refreshes \subseteq Refresh
  BY TypeParts, RefreshType DEF FactsInv, RefreshInv, PageType
<1>1. PICK c : c = Restored(j, r.order, r.token)
  OBVIOUS
<1>2. /\ c.s \in Session \cup {None} /\ c.e \in Envelope \cup {None}
      /\ c.events \subseteq Checkouts /\ (c.e # None => c.s # None)
      /\ r.token.order = r.order => c.s = r.token.s /\ c.e \in {r.token.e, env[j][r.order]}
      /\ r.token.order # r.order => c.s = copy[j][r.order] /\ c.e = env[j][r.order]
  BY <1>0, <1>1, RestoredIs DEF Mine
<1>3. /\ Store(j, r.order, c.s, c.e, c.events, c.events)
      /\ refreshes' = (refreshes \ {r}) \cup
                      (IF c.s = None THEN {}
                       ELSE {[r EXCEPT !.token = Seal(j, r.order), !.served = TRUE]})
  BY <1>1 DEF ServeRefresh
<1>4. PICK s, e, ev, o : s = c.s /\ e = c.e /\ ev = c.events /\ o = r.order
  OBVIOUS
<1>5. ServerType' /\ PutAt(copy', copy, j, o, s) /\ PutAt(env', env, j, o, e)
  <2>1. /\ s \in Session \cup {None} /\ e \in Envelope \cup {None} /\ (e # None => s # None)
        /\ ev \subseteq Checkouts /\ Store(j, o, s, e, ev, ev) /\ o \in Orders
    BY <1>0, <1>2, <1>3, <1>4
  <2>2. ServerType'
    BY <1>0, <2>1, Stored
  <2>3. PutAt(copy', copy, j, o, s)
    BY <1>0, <2>1, Stored
  <2>4. PutAt(env', env, j, o, e)
    BY <1>0, <2>1, Stored
  <2> QED
    BY <2>2, <2>3, <2>4
<1>6. \A i \in Instances, p \in Orders :
        /\ copy'[i][p] = copy[i][p] \/ (i = j /\ p = o /\ copy'[i][p] = s)
        /\ env'[i][p] = env[i][p] \/ (i = j /\ p = o /\ env'[i][p] = e)
  BY <1>5 DEF PutAt
<1>7. ASSUME NEW q \in refreshes', q \notin refreshes
      PROVE  /\ q \in Refresh /\ q.order = o /\ q.late = r.late
             /\ q.token \in Token /\ q.token # None
             /\ q.token.order = o /\ q.token.s = s /\ q.token.e = e /\ s # None
  <2>1. PICK z : z = Seal(j, o)
    OBVIOUS
  <2>2. s # None /\ q = [r EXCEPT !.token = z, !.served = TRUE]
    BY <1>3, <1>4, <1>7, <2>1
  <2>3. copy'[j][o] = s /\ env'[j][o] = e /\ o \in Orders
    BY <1>0, <1>4, <1>5 DEF PutAt
  <2>4. z \in Token /\ z.order = o /\ z.s = s /\ z.e = e /\ z # None
    BY <1>5, <2>1, <2>2, <2>3, SealIs, NoneAssumption
  <2>5. /\ q \in Refresh /\ q.order = r.order /\ q.late = r.late /\ q.token = z
    BY <1>0, <2>2, <2>4 DEF Refresh
  <2> QED
    BY <1>4, <2>2, <2>4, <2>5
<1> QED
  BY <1>2, <1>4, <1>5, <1>6, <1>7 DEF Served

\* A refresh that is served tells no instance anything new.
LEMMA ServeRefreshFacts ==
  ASSUME FactsInv, NEW j \in Instances, NEW r \in refreshes, ServeRefresh(j, r)
  PROVE  FactsInv'
<1>0. /\ UNCHANGED <<used, charged, spent, sent, order, token, shown, checkout, reply, withdrawn, rolledBack>>
  BY DEF ServeRefresh
<1>1. PICK s, e : Served(j, r, s, e)
  BY ServedIs
<1>2. /\ r.order \in used /\ r.order \in Orders /\ r.token # None /\ r.token \in Token
      /\ Recorded(r.token) /\ (reply # None => r.late) /\ refreshes \subseteq Refresh
      /\ r \in Refresh
  BY RefreshType DEF FactsInv, SessionTypeOK, RefreshInv
<1>a. Grows
  BY <1>0 DEF Grows
<1>3. SessionTypeOK'
  <2>1. ServerType' /\ PaidType'
    BY <1>0, <1>1 DEF Served, FactsInv, SessionTypeOK, PaidType
  <2>2. PageType'
    BY <1>0, <1>1, <1>2 DEF Served, FactsInv, SessionTypeOK, PageType
  <2>3. (ServerType /\ PageType /\ PaidType)'
    BY <2>1, <2>2
  <2> QED
    BY <2>3 DEF SessionTypeOK, ServerType, PageType, PaidType
<1>4. (s # None => Good(s, r.order)) /\ UsedBy(e)
  BY <1>1, <1>2 DEF Served, FactsInv, KnownInv, Recorded
<1>5. KnownInv'
  <2>1. ASSUME NEW i \in Instances, NEW o \in Orders
        PROVE  (copy'[i][o] # None => Good(copy[i][o], o)') /\ UsedBy(env[i][o])'
    <3>1. (copy[i][o] # None => Good(copy[i][o], o)) /\ UsedBy(env[i][o])
      BY DEF FactsInv, KnownInv
    <3>2. /\ copy'[i][o] # None => copy'[i][o] \in Session /\ Good(copy'[i][o], o)
          /\ UsedBy(env'[i][o])
      BY <1>1, <1>4, <3>1 DEF Served, ServerType
    <3>3. copy'[i][o] # None => Good(copy[i][o], o)'
      BY <1>a, <3>2, GoodStays
    <3>4. UsedBy(env[i][o])'
      BY <1>a, <3>2, GoodStays
    <3> QED
      BY <3>3, <3>4
  <2>2. token # None => Recorded(token)'
    BY <1>0, <1>a, GoodStays DEF FactsInv, SessionTypeOK, KnownInv
  <2>3. reply # None /\ reply.token # None => Recorded(reply.token)'
    BY <1>0, <1>a, GoodStays DEF FactsInv, SessionTypeOK, KnownInv, Reply
  <2> QED
    BY <1>0, <2>1, <2>2, <2>3 DEF FactsInv, KnownInv
<1>6. RefreshInv'
  <2>1. ASSUME NEW q \in refreshes'
        PROVE  /\ q.order \in used' /\ q.token # None /\ Recorded(q.token)'
               /\ q.served => q.token.order = q.order
               /\ reply' # None => q.late
    <3>1. CASE q \in refreshes
      <4>1. q.token \in Token /\ Recorded(q.token)
        BY <3>1, RefreshType DEF FactsInv, SessionTypeOK, RefreshInv
      <4> QED
        BY <1>0, <1>a, <3>1, <4>1, GoodStays DEF FactsInv, RefreshInv
    <3>2. CASE q \notin refreshes
      <4>1. /\ q.order = r.order /\ q.late = r.late /\ q.token \in Token /\ q.token # None
            /\ q.token.order = r.order /\ q.token.s = s /\ q.token.e = e /\ s # None
        BY <1>1, <3>2 DEF Served
      <4>2. Recorded(q.token)
        BY <1>4, <4>1 DEF Recorded
      <4> QED
        BY <1>0, <1>2, <1>a, <4>1, <4>2, GoodStays
    <3> QED
      BY <3>1, <3>2
  <2> QED
    BY <2>1 DEF RefreshInv
<1>7. PaidInv'
  BY <1>0 DEF FactsInv, PaidInv
<1>8. PageInv'
  BY <1>0, <1>1, <1>2 DEF Served, FactsInv, PageInv, Answering, Starting, Sealed
<1>9. StartInv'
  <2>1. SUFFICES ASSUME Starting
                 PROVE  StartInv'
    BY <1>0 DEF StartInv, Starting
  <2>2. r.order # reply.order /\ reply.order \in Orders
    BY <2>1 DEF FactsInv, SessionTypeOK, StartInv, Starting, Reply
  <2>3. \A i \in Instances : copy'[i][reply.order] = copy[i][reply.order]
                             /\ env'[i][reply.order] = env[i][reply.order]
    BY <1>1, <2>2 DEF Served
  <2>4. \A q \in refreshes' : q.order # reply.order /\ q.token.order # reply.order
    BY <1>1, <2>1, <2>2 DEF Served, FactsInv, StartInv
  <2> QED
    BY <1>0, <2>1, <2>3, <2>4 DEF FactsInv, StartInv, Starting
<1> QED
  BY <1>3, <1>5, <1>6, <1>7, <1>8, <1>9 DEF FactsInv

\* And the page's order nothing that its refreshes did not know.
LEMMA ServeRefreshCourse ==
  ASSUME FactsInv, CourseInv, NEW j \in Instances, NEW r \in refreshes, ServeRefresh(j, r)
  PROVE  CourseInv'
<1>0. /\ UNCHANGED <<used, charged, spent, sent, order, token, shown, checkout, reply, withdrawn, rolledBack>>
  BY DEF ServeRefresh
<1>1. PICK s, e : Served(j, r, s, e)
  BY ServedIs
<1>2. /\ order \in Orders /\ r \in Refresh /\ r.token # None /\ (reply # None => r.late)
      /\ r.late \in BOOLEAN /\ refreshes \subseteq Refresh
  BY RefreshType DEF FactsInv, SessionTypeOK, RefreshInv
<1>3. r.order = order => s \in Sessions(order) /\ e \in Envelopes(order)
  BY <1>1 DEF Served, Sessions, Envelopes, RefreshesOf
<1>4. /\ \A x \in Sessions(order)' : x \in Sessions(order)
      /\ \A x \in Envelopes(order)' : x \in Envelopes(order)
  <2>1. \A x \in Sessions(order)' : x \in Sessions(order)
    BY <1>0, <1>1, <1>2, <1>3 DEF Served, Sessions, RefreshesOf
  <2>2. \A x \in Envelopes(order)' : x \in Envelopes(order)
    BY <1>0, <1>1, <1>2, <1>3 DEF Served, Envelopes, RefreshesOf
  <2> QED
    BY <2>1, <2>2
<1>5. \A q \in InTime' :
        \/ q \in InTime
        \/ /\ r \in InTime /\ q.order = r.order /\ q.token.order = r.order
           /\ q.token.s = s /\ q.token.e = e /\ s # None
  BY <1>1 DEF Served, InTime
<1>6. \A t : Live(t) => Live(t)'
  BY <1>0, <1>4, LiveStays DEF Clear
<1>7. (Sealed <=> Sealed') /\ (Answering <=> Answering')
  BY <1>0 DEF Sealed, Answering
<1>8. r \in InTime => reply = None /\ ~Answering /\ ~Sealed
  BY <1>2 DEF InTime, Answering, Sealed
<1>9. ASSUME NEW q \in InTime', q.token.order = order
      PROVE  Live(q.token)'
  <2>1. CASE q \in InTime
    BY <1>6, <1>9, <2>1 DEF CourseInv, LiveInv
  <2>2. CASE q \notin InTime
    <3>1. /\ r \in InTime /\ r.order = order /\ q.token.s = s /\ q.token.e = e /\ s # None
          /\ reply = None /\ s \in Session
      BY <1>1, <1>5, <1>8, <1>9, <2>2 DEF Served
    <3>2. Live(q.token)
      <4>1. CASE r.token.order = order
        <5>1. Live(r.token) /\ s = r.token.s
          BY <1>1, <3>1, <4>1 DEF CourseInv, LiveInv, Served
        <5> QED
          BY <1>3, <3>1, <5>1 DEF Live
      <4>2. CASE r.token.order # order
        <5>1. Adrift
          BY <3>1, <4>2 DEF Adrift
        <5>2. /\ withdrawn = {} /\ checkout = None /\ shown \notin PaidStates /\ s.approved = None
          BY <1>3, <1>8, <3>1, <5>1 DEF CourseInv, AdriftInv
        <5> QED
          BY <3>1, <5>2 DEF Live, Clear, Steady
      <4> QED
        BY <4>1, <4>2
    <3> QED
      BY <1>6, <3>2
  <2> QED
    BY <2>1, <2>2
<1>10. LiveInv'
  <2>1. Withdrawing => Withdrawing'
    BY <1>0, <1>4 DEF Withdrawing
  <2> QED
    BY <1>0, <1>6, <1>7, <1>9, <2>1 DEF CourseInv, LiveInv
<1>11. ASSUME order \in spent, \A q \in InTime : Knows(q.token), Knows(token), token # None
       PROVE  \A q \in InTime' : Knows(q.token)
  <2>1. ~Adrift
    BY <1>11 DEF CourseInv, AdriftInv
  <2>2. r \in InTime => r.order = order /\ s = r.token.s
    BY <1>1, <2>1 DEF Served, Adrift
  <2> QED
    BY <1>5, <1>11, <2>2 DEF Knows
<1>12. AgentInv' /\ PlainInv'
  <2>1. \A t : Knows(t)' <=> Knows(t)
    BY <1>0 DEF Knows
  <2> QED
    BY <1>0, <1>7, <1>11, <2>1 DEF CourseInv, AgentInv, PlainInv
<1>13. AdriftInv'
  <2>1. Adrift' => Adrift
    BY <1>0, <1>5 DEF Adrift
  <2> QED
    BY <1>0, <1>4, <1>7, <2>1 DEF CourseInv, AdriftInv
<1>14. ChargeInv'
  BY <1>0 DEF CourseInv, ChargeInv
<1> QED
  BY <1>10, <1>12, <1>13, <1>14 DEF CourseInv

---------------------------------------------------------------------------
(* The reply arrives *)

\* refreshTimeline asks for order o with token t.
LEMMA AskIs ==
  ASSUME refreshes \subseteq Refresh, NEW o \in Orders, NEW t \in Token,
         UNCHANGED refreshes \/ Ask(o, t)
  PROVE  /\ refreshes' \subseteq Refresh
         /\ \A q \in refreshes' :
               q \in refreshes \/ (q.order = o /\ q.token = t /\ ~q.served /\ ~q.late)
<1>1. CASE UNCHANGED refreshes
  BY <1>1
<1>2. CASE Ask(o, t)
  <2>1. PICK n : n = [order |-> o, token |-> t, served |-> FALSE, late |-> FALSE]
    OBVIOUS
  <2>2. /\ n \in Refresh /\ n.order = o /\ n.token = t /\ ~n.served /\ ~n.late
    BY <2>1 DEF Refresh
  <2>3. refreshes' = refreshes \cup {n}
    BY <1>2, <2>1 DEF Ask
  <2> QED
    BY <2>2, <2>3
<1> QED
  BY <1>1, <1>2

\* What it asks with is recorded.
LEMMA AskRecorded ==
  ASSUME FactsInv, Grows, reply' = None, NEW o, o \in used, NEW t \in Token, t # None, Recorded(t),
         \A q \in refreshes' :
            q \in refreshes \/ (q.order = o /\ q.token = t /\ ~q.served /\ ~q.late)
  PROVE  RefreshInv'
<1>1. Recorded(t)'
  BY GoodStays
<1>2. ASSUME NEW q \in refreshes
      PROVE  q.order \in used' /\ q.token # None /\ Recorded(q.token)' /\ (q.served => q.token.order = q.order)
  <2>1. q.token # None /\ q.token \in Token /\ Recorded(q.token)
    BY RefreshType DEF FactsInv, SessionTypeOK, RefreshInv
  <2> QED
    BY <2>1, GoodStays DEF FactsInv, RefreshInv, Grows
<1>3. ASSUME NEW q \in refreshes', q \notin refreshes
      PROVE  q.order \in used' /\ q.token # None /\ Recorded(q.token)' /\ (q.served => q.token.order = q.order)
  BY <1>1, <1>3 DEF Grows
<1> QED
  BY <1>2, <1>3 DEF RefreshInv

\* The page takes the reply's token, or keeps its own, and asks for a refresh.
Taken(t) ==
    /\ reply # None /\ reply.kind \notin {"start", "restart"} /\ reply.how # "crash"
    /\ t = IF reply.token = None THEN token ELSE reply.token
    /\ reply' = None /\ token' = t
    /\ shown' = (IF reply.state = None THEN shown ELSE reply.state)
    /\ checkout' = (IF Initiated THEN reply.token.s.checkout ELSE checkout)
    /\ withdrawn' = (IF reply.change /\ reply.how = "sealed"
                     THEN withdrawn \cup (Quotes \cap used) ELSE withdrawn)
    /\ UNCHANGED <<serverVars, used, charged, spent, sent, order, rolledBack>>
    /\ refreshes' \subseteq Refresh
    /\ \A q \in refreshes' :
          q \in refreshes \/ (q.order = order /\ q.token = t /\ ~q.served /\ ~q.late)
    /\ Answering /\ ~Starting /\ ~Answering' /\ ~Starting' /\ ~Sealed'
    /\ t \in Token /\ t # None /\ Recorded(t) /\ token # None
    /\ (reply.how = "sealed") <=> (reply.token # None)
    /\ reply.how = "sealed" => t.order = order /\ reply.state = t.s.state

LEMMA TakenIs ==
  ASSUME FactsInv, Deliver
  PROVE  \E t : Taken(t)
<1>1. PICK t : t = IF reply.token = None THEN token ELSE reply.token
  OBVIOUS
<1>2. /\ reply # None /\ reply.kind \notin {"start", "restart"} /\ reply.how # "crash"
      /\ reply' = None /\ token' = t
      /\ shown' = (IF reply.state = None THEN shown ELSE reply.state)
      /\ checkout' = (IF Initiated THEN reply.token.s.checkout ELSE checkout)
      /\ withdrawn' = (IF reply.change /\ reply.how = "sealed"
                       THEN withdrawn \cup (Quotes \cap used) ELSE withdrawn)
      /\ UNCHANGED <<serverVars, used, charged, spent, sent, order, rolledBack>>
      /\ UNCHANGED refreshes \/ Ask(order, t)
  BY <1>1 DEF Deliver
<1>3. Answering /\ ~Starting /\ ~Answering' /\ ~Starting' /\ ~Sealed'
  BY <1>2 DEF Answering, Starting, Sealed
<1>4. /\ token # None /\ token \in Token /\ Recorded(token) /\ order \in Orders
      /\ (reply.how = "sealed") <=> (reply.token # None)
      /\ reply.how = "sealed" => reply.token.order = order /\ reply.state = reply.token.s.state
      /\ reply.token # None => reply.token \in Token /\ Recorded(reply.token)
      /\ refreshes \subseteq Refresh
  BY <1>2, <1>3 DEF FactsInv, SessionTypeOK, KnownInv, PageInv, Sealed, Reply
<1>5. t \in Token /\ t # None /\ Recorded(t)
  BY <1>1, <1>4
<1>6. /\ refreshes' \subseteq Refresh
      /\ \A q \in refreshes' :
            q \in refreshes \/ (q.order = order /\ q.token = t /\ ~q.served /\ ~q.late)
  <2>1. PICK o \in Orders : o = order
    BY <1>4
  <2>2. UNCHANGED refreshes \/ Ask(o, t)
    BY <1>2, <2>1
  <2> QED
    BY <1>4, <1>5, <2>1, <2>2, AskIs
<1> QED
  BY <1>1, <1>2, <1>3, <1>4, <1>5, <1>6 DEF Taken

\* What is recorded stays so: the page learns only what its reply says.
LEMMA DeliverFacts ==
  ASSUME FactsInv, Deliver
  PROVE  FactsInv'
<1>1. PICK t : Taken(t)
  BY TakenIs
<1> USE DEF serverVars
<1>a. Grows
  BY <1>1 DEF Taken, Grows
<1>2. Initiated => /\ reply.token.s.checkout \in (Checkouts \cap used) \cup {None}
                   /\ reply.token.s.checkout \in IdsOf[order] \cup {None}
  <2>1. SUFFICES ASSUME Initiated
                 PROVE  /\ t.s.checkout \in (Checkouts \cap used) \cup {None}
                        /\ t.s.checkout \in IdsOf[order] \cup {None}
    BY <1>1 DEF Taken, Initiated
  <2>2. t.order = order /\ Good(t.s, order) /\ t.s.checkout \in Checkouts \cup {None}
    BY <1>1, <2>1 DEF Taken, Initiated, Recorded, Token, Session
  <2> QED
    BY <2>2 DEF Good, UsedIn, Sound
<1>3. SessionTypeOK'
  <2>1. ServerType' /\ PaidType'
    BY <1>1 DEF Taken, FactsInv, SessionTypeOK, ServerType, PaidType
  <2>2. shown' \in OrderStates
    BY <1>1 DEF Taken, FactsInv, SessionTypeOK, Reply
  <2>3. PageType'
    BY <1>1, <1>2, <2>2 DEF Taken, FactsInv, SessionTypeOK, PageType
  <2>4. (ServerType /\ PageType /\ PaidType)'
    BY <2>1, <2>3
  <2> QED
    BY <2>4 DEF SessionTypeOK, ServerType, PageType, PaidType
<1>4. KnownInv'
  <2>1. ASSUME NEW i \in Instances, NEW o \in Orders
        PROVE  (copy'[i][o] # None => Good(copy[i][o], o)') /\ UsedBy(env[i][o])'
    <3>1. (copy[i][o] # None => copy[i][o] \in Session /\ Good(copy[i][o], o)) /\ UsedBy(env[i][o])
      BY DEF FactsInv, KnownInv, SessionTypeOK
    <3>2. copy'[i][o] # None => Good(copy[i][o], o)'
      BY <1>1, <1>a, <3>1, GoodStays DEF Taken
    <3>3. UsedBy(env[i][o])'
      BY <1>1, <1>a, <3>1, GoodStays DEF Taken
    <3> QED
      BY <3>2, <3>3
  <2>2. Recorded(token)'
    BY <1>1, <1>a, GoodStays DEF Taken
  <2>3. order' \in used' /\ withdrawn' \subseteq used' /\ reply' = None
    BY <1>1 DEF Taken, FactsInv, KnownInv
  <2> QED
    BY <2>1, <2>2, <2>3 DEF KnownInv
<1>5. RefreshInv'
  <2>1. PICK o : o = order
    OBVIOUS
  <2>2. o \in used /\ reply' = None /\ t \in Token /\ t # None /\ Recorded(t)
    BY <1>1, <2>1 DEF Taken, FactsInv, KnownInv
  <2>3. \A q \in refreshes' :
            q \in refreshes \/ (q.order = o /\ q.token = t /\ ~q.served /\ ~q.late)
    BY <1>1, <2>1 DEF Taken
  <2> QED
    BY <1>a, <2>2, <2>3, AskRecorded
<1>6. PaidInv'
  BY <1>1, <1>2 DEF Taken, FactsInv, PaidInv
<1>7. PageInv' /\ StartInv'
  BY <1>1 DEF Taken, PageInv, StartInv
<1> QED
  BY <1>3, <1>4, <1>5, <1>6, <1>7 DEF FactsInv

\* Until a token is rolled back, the page learns of nothing that contradicts
\* what it knows.
LEMMA DeliverCourse ==
  ASSUME FactsInv, CourseInv, Deliver
  PROVE  CourseInv'
<1>1. PICK t : Taken(t)
  BY TakenIs
<1> USE DEF serverVars
<1>2. /\ order \in Orders /\ Answering /\ ~Sealed' /\ ~Answering' /\ reply' = None
      /\ token' = t /\ t # None /\ token # None /\ order' = order
      /\ (Sealed <=> reply.how = "sealed") /\ (Sealed <=> reply.token # None)
      /\ UNCHANGED <<copy, env, used, charged, spent>>
      /\ reply.change \in BOOLEAN
  BY <1>1 DEF Taken, FactsInv, SessionTypeOK, Sealed, Reply
<1>3. \A r \in refreshes : r.late
  BY <1>1 DEF Taken, FactsInv, RefreshInv
<1>4. \A q \in InTime' : q.order = order /\ q.token = t
  BY <1>1, <1>3 DEF Taken, InTime
<1>5. /\ \A e \in Envelopes(order)' : e \in Envelopes(order) \/ (e = t.e /\ t.order = order)
      /\ \A s \in Sessions(order)' : s \in Sessions(order) \/ (s = t.s /\ t.order = order)
  <2>1. \A e \in Envelopes(order)' : e \in Envelopes(order) \/ (e = t.e /\ t.order = order)
    BY <1>1, <1>2 DEF Taken, Envelopes, RefreshesOf
  <2>2. \A s \in Sessions(order)' : s \in Sessions(order) \/ (s = t.s /\ t.order = order)
    BY <1>1, <1>2 DEF Taken, Sessions, RefreshesOf
  <2> QED
    BY <2>1, <2>2
<1>6. CASE t.order # order
  <2>1. /\ t = token /\ ~Sealed /\ Adrift /\ ~Initiated
    BY <1>1, <1>2, <1>6 DEF Taken, Adrift, Initiated
  <2>2. /\ withdrawn = {} /\ checkout = None /\ shown \notin PaidStates
        /\ order \notin spent /\ \A k \in Checkouts : charged[k] # order
        /\ \A s \in Sessions(order) : s # None =>
              s.checkout = None /\ ~s.agentPaid /\ s.approved = None
    BY <1>1, <1>2, <2>1 DEF Taken, CourseInv, AdriftInv
  <2>3. /\ withdrawn' = {} /\ checkout' = None
    BY <1>1, <1>2, <2>1, <2>2 DEF Taken
  <2>4. shown' \notin PaidStates
    BY <1>1, <1>2, <2>1, <2>2 DEF Taken, FactsInv, SessionTypeOK, PageInv, Reply
  <2>5. LiveInv' /\ AgentInv' /\ PlainInv'
    BY <1>2, <1>4, <1>6, <2>2 DEF LiveInv, AgentInv, PlainInv
  <2>6. AdriftInv'
    BY <1>2, <1>5, <1>6, <2>2, <2>3, <2>4 DEF AdriftInv
  <2>7. ChargeInv'
    BY <1>2, <2>2, <2>3 DEF CourseInv, ChargeInv
  <2> QED
    BY <2>5, <2>6, <2>7 DEF CourseInv
<1>7. CASE t.order = order
  <2>1. Live(t)
    BY <1>1, <1>2, <1>7 DEF Taken, CourseInv, LiveInv
  <2>2. shown' \in PaidStates => t.s.state \in PaidStates
    <3>1. CASE reply.how = "sealed"
      BY <1>1, <2>1, <3>1 DEF Taken, Live
    <3>2. CASE reply.how # "sealed"
      <4>1. reply.state # None => reply.state \notin PaidStates
        BY <1>1, <1>2, <3>2 DEF Taken, FactsInv, SessionTypeOK, PageInv, Reply
      <4> QED
        BY <1>1, <2>1, <4>1 DEF Taken, Live
    <3> QED
      BY <3>1, <3>2
  <2>3. reply.how = "sealed" /\ reply.change =>
            /\ t.s.approved = None /\ t.e = None
            /\ \A e \in Envelopes(order) : e # None => e.rank # t.s.rank
    BY <1>1, <1>2 DEF Taken, CourseInv, LiveInv, Withdrawing
  <2>4. t.s.approved \notin withdrawn'
    BY <1>1, <2>1, <2>3, NoneAssumption DEF Taken, Live, FactsInv, SessionTypeOK
  <2>5. \A e : e = t.e \/ e \in Envelopes(order) =>
            (e # None /\ e.digest \in withdrawn' => e.rank # t.s.rank)
    BY <1>1, <2>1, <2>3 DEF Taken, Live, Clear
  <2>6. checkout' # None => t.s.checkout = checkout'
    BY <1>1, <2>1 DEF Taken, Live, Initiated
  <2>7. Live(t)'
    <3>1. \A e \in Envelopes(order)' : e = t.e \/ e \in Envelopes(order)
      BY <1>5
    <3>2. \A e \in Envelopes(order)' : (e # None /\ e.digest \in withdrawn' => e.rank # t.s.rank)
      BY <2>5, <3>1
    <3>3. (\A e \in Envelopes(order) : Clear(e, t.s))'
      BY <3>2 DEF Clear
    <3>4. Clear(t.e, t.s)'
      BY <2>5 DEF Clear
    <3> QED
      BY <2>1, <2>2, <2>4, <2>6, <3>3, <3>4 DEF Live
  <2>8. LiveInv'
    BY <1>2, <1>4, <2>7 DEF LiveInv
  <2>9. order \in spent => checkout = None /\ checkout' = None /\ Knows(t)
    <3>1. SUFFICES ASSUME order \in spent
                   PROVE  checkout = None /\ checkout' = None /\ Knows(t)
      OBVIOUS
    <3>2. checkout = None /\ Knows(t)
      BY <1>1, <1>2, <3>1 DEF Taken, CourseInv, AgentInv
    <3>3. ~Initiated
      BY <1>1, <3>2 DEF Taken, Initiated, Knows
    <3> QED
      BY <1>1, <3>2, <3>3 DEF Taken
  <2>10. AgentInv' /\ PlainInv'
    BY <1>2, <1>4, <2>9 DEF AgentInv, PlainInv, Knows
  <2>11. AdriftInv'
    BY <1>2, <1>4, <1>7 DEF AdriftInv, Adrift
  <2>12. ChargeInv'
    <3>1. checkout # None => checkout' = checkout
      BY <1>1, <2>1 DEF Taken, Live, Initiated
    <3> QED
      BY <1>2, <3>1, NoneAssumption DEF CourseInv, ChargeInv
  <2> QED
    BY <2>8, <2>10, <2>11, <2>12 DEF CourseInv
<1> QED
  BY <1>6, <1>7

---------------------------------------------------------------------------
(* A new order *)

\* createSession is a typed session that nobody has approved or paid.
LEMMA NewSessionIs ==
  /\ NewSession \in Session /\ NewSession # None
  /\ NewSession.rank = None /\ NewSession.checkout = None /\ NewSession.approved = None
  /\ ~NewSession.agentPaid /\ Consistent(NewSession) /\ Steady(NewSession)
  /\ NewSession.state = "DRAFT" /\ "DRAFT" \in OrderStates \ PaidStates
<1>1. NewSession \in Session
  BY DEF NewSession, Session, OrderStates
<1>2. NewSession.state = "DRAFT" /\ "DRAFT" \in OrderStates \ PaidStates
  BY DEF NewSession, OrderStates, PaidStates, Successful
<1>3. /\ NewSession.rank = None /\ NewSession.checkout = None /\ NewSession.approved = None
      /\ ~NewSession.agentPaid
  BY DEF NewSession
<1> QED
  BY <1>1, <1>2, <1>3, NoneAssumption DEF Consistent, Steady

\* What createSession leaves: order o is new, and on its way to the page.
Created(o, old) ==
    /\ o \in Orders /\ o \notin used /\ used' = used \cup {o}
    /\ ServerType'
    /\ \A j \in Instances, p \in Orders :
          \/ p # o /\ copy'[j][p] = copy[j][p] /\ env'[j][p] = env[j][p]
          \/ p = o /\ copy'[j][p] \in {None, NewSession} /\ env'[j][p] = None
    /\ reply' \in Reply /\ reply' # None /\ reply'.kind = "start"
    /\ reply'.order = o /\ reply'.after = old
    /\ reply'.token \in Token /\ reply'.token # None /\ reply'.token.order = o
    /\ reply'.token.s = NewSession /\ reply'.token.e = None

\* No instance has seen an id that was not given out.
LEMMA CreateIs ==
  ASSUME FactsInv, NEW i \in Instances, NEW old \in Orders \cup {None}, Create(i, old)
  PROVE  \E o \in Orders : Created(o, old)
<1>0. ServerType
  BY TypeParts DEF FactsInv
<1>1. PICK o \in OneOf(Orders \ used) :
        /\ used' = used \cup {o}
        /\ Store(i, o, NewSession, None, {}, {})
        /\ reply' = [kind |-> "start", order |-> o, after |-> old, change |-> FALSE,
                     token |-> Seal(i, o), state |-> "DRAFT", how |-> "sealed"]
  BY DEF Create
<1>2. o \in Orders /\ o \notin used
  BY DEF OneOf
<1>3. PICK s, e, n : s = NewSession /\ e = None /\ n = {}
  OBVIOUS
<1>4. ServerType' /\ PutAt(copy', copy, i, o, s) /\ PutAt(env', env, i, o, e)
  <2>1. /\ s \in Session \cup {None} /\ e \in Envelope \cup {None} /\ (e # None => s # None)
        /\ n \subseteq Checkouts /\ Store(i, o, s, e, n, n)
    BY <1>1, <1>3, NewSessionIs
  <2>2. ServerType'
    BY <1>0, <1>2, <2>1, Stored
  <2>3. PutAt(copy', copy, i, o, s)
    BY <1>0, <1>2, <2>1, Stored
  <2>4. PutAt(env', env, i, o, e)
    BY <1>0, <1>2, <2>1, Stored
  <2> QED
    BY <2>2, <2>3, <2>4
<1>5. copy'[i][o] = NewSession /\ env'[i][o] = None
  BY <1>2, <1>3, <1>4 DEF PutAt
<1>6. \A j \in Instances : copy[j][o] = None /\ env[j][o] = None
  BY <1>0, <1>2 DEF FactsInv, KnownInv, Good, ServerType
<1>7. \A j \in Instances, p \in Orders :
          \/ p # o /\ copy'[j][p] = copy[j][p] /\ env'[j][p] = env[j][p]
          \/ p = o /\ copy'[j][p] \in {None, NewSession} /\ env'[j][p] = None
  BY <1>2, <1>3, <1>4, <1>6 DEF PutAt
<1>8. PICK t : t = Seal(i, o)
  OBVIOUS
<1>9. t \in Token /\ t # None /\ t.order = o /\ t.s = NewSession /\ t.e = None
  BY <1>2, <1>4, <1>5, <1>8, SealIs, NewSessionIs, NoneAssumption
<1>10. reply' = [kind |-> "start", order |-> o, after |-> old, change |-> FALSE,
                token |-> t, state |-> "DRAFT", how |-> "sealed"]
  BY <1>1, <1>8
<1>11. reply' \in Reply
  BY <1>2, <1>9, <1>10 DEF Reply, Kinds, OrderStates
<1>12. /\ reply' # None /\ reply'.kind = "start"
       /\ reply'.order = o /\ reply'.after = old /\ reply'.token = t
  BY <1>10, <1>11, NoneAssumption
<1>13. Created(o, old)
  BY <1>1, <1>2, <1>4, <1>7, <1>9, <1>11, <1>12 DEF Created
<1> QED
  BY <1>2, <1>13


\* A session that was just created is recorded as soon as its order is.
LEMMA NewIsGood ==
  ASSUME NEW o, o \in used'
  PROVE  Good(NewSession, o)'
<1>1. /\ NewSession.rank = None /\ NewSession.checkout = None /\ ~NewSession.agentPaid
      /\ Consistent(NewSession) /\ NewSession.state \notin PaidStates
  BY NewSessionIs
<1> QED
  BY <1>1 DEF Good, UsedIn, Sound

\* Whatever token the page keeps when an order is created, the new order is
\* untouched and nothing else changes.
LEMMA CreatedFacts ==
  ASSUME FactsInv, NEW old \in {None, order}, NEW o \in Orders, Created(o, old),
         UNCHANGED <<charged, spent, order, shown, checkout, withdrawn, rolledBack>>,
         token' \in {None, token, IF reply = None THEN None ELSE reply.token},
         sent' \in Nat, Carried, \A q \in refreshes' : q.late, token' = None => refreshes' = {}
  PROVE  FactsInv' /\ o # order /\ Starting' /\ ~Answering' /\ ~Sealed'
<1>1. /\ o # order /\ order \in Orders /\ order \in used
      /\ o \notin spent /\ \A k \in Checkouts : charged[k] # o
  <2>1. o # order /\ order \in Orders /\ order \in used
    BY DEF FactsInv, SessionTypeOK, KnownInv, Created
  <2>2. o \notin spent /\ \A k \in Checkouts : charged[k] # o
    BY NoneAssumption DEF FactsInv, PaidInv, Created
  <2> QED
    BY <2>1, <2>2
<1>a. Grows
  BY DEF Grows, Created
<1>2. Starting' /\ ~Answering' /\ ~Sealed'
  BY DEF Created, Starting, Answering, Sealed
<1>3. token' \in Token \cup {None} /\ (token' # None => Recorded(token'))
  BY DEF FactsInv, SessionTypeOK, KnownInv, Reply
<1>4. SessionTypeOK'
  <2>1. ServerType' /\ PaidType'
    BY DEF FactsInv, SessionTypeOK, PaidType, Created
  <2>2. PageType'
    BY <1>3, CarriedHold DEF FactsInv, SessionTypeOK, PageType, Created
  <2>3. (ServerType /\ PageType /\ PaidType)'
    BY <2>1, <2>2
  <2> QED
    BY <2>3 DEF SessionTypeOK, ServerType, PageType, PaidType
<1>5. KnownInv'
  <2>1. ASSUME NEW j \in Instances, NEW p \in Orders
        PROVE  (copy'[j][p] # None => Good(copy[j][p], p)') /\ UsedBy(env[j][p])'
    <3>1. CASE p = o
      <4>1. copy'[j][p] \in {None, NewSession} /\ env'[j][p] = None /\ p \in used'
        BY <3>1 DEF Created
      <4> QED
        BY <4>1, NewIsGood DEF UsedBy
    <3>2. CASE p # o
      <4>1. (copy[j][p] # None => copy[j][p] \in Session /\ Good(copy[j][p], p)) /\ UsedBy(env[j][p])
        BY DEF FactsInv, KnownInv, SessionTypeOK
      <4>2. copy'[j][p] = copy[j][p] /\ env'[j][p] = env[j][p]
        BY <3>2 DEF Created
      <4>3. copy'[j][p] # None => Good(copy[j][p], p)'
        BY <1>a, <4>1, <4>2, GoodStays
      <4>4. UsedBy(env[j][p])'
        BY <1>a, <4>1, <4>2, GoodStays
      <4> QED
        BY <4>3, <4>4
    <3> QED
      BY <3>1, <3>2
  <2>2. Recorded(reply.token)'
    <3>1. /\ reply'.token.order \in used' /\ reply'.token.s = NewSession /\ reply'.token.e = None
      BY DEF Created
    <3> QED
      BY <3>1, NewIsGood DEF Recorded, UsedBy
  <2>3. token' # None => Recorded(token)'
    BY <1>3, <1>a, GoodStays
  <2>4. order' \in used' /\ withdrawn' \subseteq used'
    BY DEF FactsInv, KnownInv, Created
  <2> QED
    BY <2>1, <2>2, <2>3, <2>4 DEF KnownInv
<1>6. RefreshInv'
  BY <1>a, CarriedRecorded
<1>7. PaidInv'
  BY DEF FactsInv, PaidInv, Created
<1>8. PageInv'
  BY <1>2 DEF PageInv
<1>9. StartInv'
  <2>1. \A q \in refreshes' : q.order # o /\ q.token.order # o
    BY DEF FactsInv, RefreshInv, Recorded, Good, Carried, Created
  <2>2. /\ reply'.order = o /\ reply'.after = old /\ reply'.token # None /\ reply'.token.order = o
        /\ reply'.token.s = NewSession /\ reply'.token.e = None /\ o \in used'
        /\ \A j \in Instances : copy'[j][o] \in {None, NewSession} /\ env'[j][o] = None
    BY DEF Created
  <2> QED
    BY <1>1, <2>1, <2>2 DEF StartInv
<1> QED
  BY <1>1, <1>2, <1>4, <1>5, <1>6, <1>7, <1>8, <1>9 DEF FactsInv

\* A page that is loaded again has neither token nor refreshes.
LEMMA LoadFacts ==
  ASSUME FactsInv, NEW i \in Instances, Load(i)
  PROVE  /\ FactsInv' /\ Starting' /\ ~Answering' /\ ~Sealed'
         /\ \E o \in Orders : o # order /\ Created(o, None)
<1>1. /\ token' = None /\ refreshes' = {} /\ sent' = sent + 1
      /\ UNCHANGED <<charged, spent, order, shown, checkout, withdrawn, rolledBack>>
      /\ Create(i, None)
  BY DEF Load
<1>2. PICK o \in Orders : Created(o, None)
  BY <1>1, CreateIs
<1>3. Carried /\ sent' \in Nat
  BY <1>1 DEF Carried, FactsInv, SessionTypeOK
<1>4. FactsInv' /\ o # order /\ Starting' /\ ~Answering' /\ ~Sealed'
  BY <1>1, <1>2, <1>3, CreatedFacts
<1> QED
  BY <1>2, <1>4

LEMMA LoadCourse ==
  ASSUME FactsInv, CourseInv, NEW i \in Instances, Load(i)
  PROVE  CourseInv'
<1>1. /\ token' = None /\ refreshes' = {}
      /\ UNCHANGED <<charged, spent, order, shown, checkout, withdrawn>>
  BY DEF Load
<1>2. ~Answering' /\ ~Sealed' /\ InTime' = {}
  BY <1>1, LoadFacts DEF InTime
<1> QED
  BY <1>1, <1>2
  DEF CourseInv, LiveInv, AdriftInv, Adrift, PlainInv, AgentInv, ChargeInv

\* After a restart of the dialogue the page still holds the order it leaves.
LEMMA DeliverRestartFacts ==
  ASSUME FactsInv, NEW j \in Instances, DeliverRestart(j)
  PROVE  /\ FactsInv' /\ Starting' /\ ~Answering' /\ ~Sealed' /\ InTime' = {}
         /\ Carried /\ \E o \in Orders : o # order /\ Created(o, order)
<1>1. /\ reply # None /\ reply.kind = "restart"
      /\ token' = (IF reply.token = None THEN token ELSE reply.token)
      /\ UNCHANGED <<charged, spent, order, shown, checkout, withdrawn, rolledBack>>
      /\ Create(j, order) /\ Post
  BY DEF DeliverRestart
<1>2. /\ token # None /\ order \in Orders /\ refreshes \subseteq Refresh /\ sent \in Nat
      /\ token' # None
  BY <1>1 DEF FactsInv, SessionTypeOK, PageInv, Starting
<1>3. PICK o \in Orders : Created(o, order)
  BY <1>1, <1>2, CreateIs
<1>4. Carried /\ (\A q \in refreshes' : q.late) /\ InTime' = {}
  BY <1>1, <1>2, PostIs
<1>5. sent' \in Nat /\ token' \in {None, token, IF reply = None THEN None ELSE reply.token}
  BY <1>1, <1>2 DEF Post
<1>6. FactsInv' /\ o # order /\ Starting' /\ ~Answering' /\ ~Sealed'
  BY <1>1, <1>2, <1>3, <1>4, <1>5, CreatedFacts
<1> QED
  BY <1>3, <1>4, <1>6

LEMMA DeliverRestartCourse ==
  ASSUME FactsInv, CourseInv, NEW j \in Instances, DeliverRestart(j)
  PROVE  CourseInv'
<1>1. /\ Answering
      /\ token' = (IF reply.token = None THEN token ELSE reply.token)
      /\ UNCHANGED <<charged, spent, order, shown, checkout, withdrawn, rolledBack>>
      /\ reply.kind = "restart" /\ token # None /\ order \in Orders
      /\ (Sealed <=> reply.token # None) /\ (Sealed => reply.token.order = order)
  BY DEF DeliverRestart, Answering, Starting, Sealed, FactsInv, SessionTypeOK, PageInv
<1>2. PICK o \in Orders : o # order /\ Created(o, order)
  BY DeliverRestartFacts
<1>3. ~Answering' /\ ~Sealed' /\ InTime' = {} /\ Carried
  BY DeliverRestartFacts
<1>4. \A i \in Instances : copy'[i][order] = copy[i][order] /\ env'[i][order] = env[i][order]
  BY <1>1, <1>2 DEF Created
<1>5. /\ \A s \in Sessions(order)' : s \in Sessions(order)
      /\ \A e \in Envelopes(order)' : e \in Envelopes(order)
  <2>1. PICK p : p = order
    OBVIOUS
  <2>2. \A i \in Instances : copy[i][p] \in Sessions(p) /\ env[i][p] \in Envelopes(p)
    BY DEF Sessions, Envelopes
  <2>3. \A s \in Sessions(p)' : s \in Sessions(p)
    BY <1>3, <1>4, <2>1, <2>2, CarriedHold
  <2>4. \A e \in Envelopes(p)' : e \in Envelopes(p)
    BY <1>3, <1>4, <2>1, <2>2, CarriedHold
  <2>5. p = order'
    BY <1>1, <2>1
  <2> QED
    BY <2>1, <2>3, <2>4, <2>5 DEF Sessions, Envelopes, RefreshesOf
<1>6. token' # None /\ (token'.order = order => Live(token'))
  BY <1>1 DEF CourseInv, LiveInv
<1>7. LiveInv'
  <2>1. \A t : Live(t) => Live(t)'
    BY <1>1, <1>5, LiveStays DEF Clear
  <2>2. token'.order = order => Live(token)'
    BY <1>6, <2>1
  <2> QED
    BY <1>1, <1>3, <2>2 DEF LiveInv
<1>8. AgentInv' /\ PlainInv'
  <2>1. order \in spent => checkout = None /\ Knows(token')
    BY <1>1 DEF CourseInv, AgentInv
  <2> QED
    BY <1>1, <1>3, <2>1 DEF AgentInv, PlainInv, Knows
<1>9. AdriftInv'
  <2>1. Adrift' => Adrift
    BY <1>1, <1>3 DEF Adrift
  <2> QED
    BY <1>1, <1>5, <2>1 DEF CourseInv, AdriftInv
<1>10. ChargeInv'
  BY <1>1 DEF CourseInv, ChargeInv
<1> QED
  BY <1>7, <1>8, <1>9, <1>10 DEF CourseInv

\* The page turns to the new order, of which it alone knows, and may ask for a
\* refresh of the old one.
Turned(n, t) ==
    /\ Starting /\ n = reply.order /\ t = reply.token
    /\ reply' = None /\ order' = n /\ token' = t
    /\ shown' = "DRAFT" /\ checkout' = None /\ withdrawn' = {}
    /\ UNCHANGED <<serverVars, used, charged, spent, sent, rolledBack>>
    /\ refreshes' \subseteq Refresh
    /\ \A q \in refreshes' :
          q \in refreshes \/ (q.order = order /\ q.token = t /\ ~q.served /\ ~q.late)
    /\ n \in Orders /\ n \in used /\ n # order
    /\ t \in Token /\ t # None /\ t.order = n /\ t.s = NewSession /\ t.e = None /\ Recorded(t)
    /\ \A i \in Instances : copy[i][n] \in {None, NewSession} /\ env[i][n] = None
    /\ n \notin spent /\ \A k \in Checkouts : charged[k] # n
    /\ \A r \in refreshes : r.late /\ r.order # n /\ r.token.order # n
    /\ ~Answering' /\ ~Starting' /\ ~Sealed'

LEMMA TurnedIs ==
  ASSUME FactsInv, DeliverStart
  PROVE  \E n, t : Turned(n, t)
<1>1. PICK n, t : n = reply.order /\ t = reply.token
  OBVIOUS
<1>2. /\ reply # None /\ reply.kind = "start" /\ reply' = None
      /\ order' = n /\ token' = t
      /\ shown' = "DRAFT" /\ checkout' = None /\ withdrawn' = {}
      /\ UNCHANGED <<serverVars, used, charged, spent, sent, rolledBack>>
      /\ UNCHANGED refreshes \/ (reply.after # None /\ Ask(reply.after, t))
  BY <1>1 DEF DeliverStart
<1>3. Starting /\ ~Answering' /\ ~Starting' /\ ~Sealed'
  BY <1>2 DEF Starting, Answering, Sealed
<1>4. /\ n \in Orders /\ n \in used /\ n # order /\ order \in Orders
      /\ t \in Token /\ t # None /\ t.order = n /\ t.s = NewSession /\ t.e = None /\ Recorded(t)
      /\ \A i \in Instances : copy[i][n] \in {None, NewSession} /\ env[i][n] = None
      /\ n \notin spent /\ \A k \in Checkouts : charged[k] # n
      /\ reply.after \in {None, order}
      /\ refreshes \subseteq Refresh
  BY <1>1, <1>2, <1>3 DEF FactsInv, SessionTypeOK, StartInv, KnownInv, Reply
<1>5. \A r \in refreshes : r.late /\ r.order # n /\ r.token.order # n
  BY <1>1, <1>2, <1>3 DEF FactsInv, StartInv, RefreshInv
<1>6. /\ refreshes' \subseteq Refresh
      /\ \A q \in refreshes' :
            q \in refreshes \/ (q.order = order /\ q.token = t /\ ~q.served /\ ~q.late)
  <2>1. PICK o \in Orders : o = order
    BY <1>4
  <2>2. UNCHANGED refreshes \/ Ask(o, t)
    BY <1>2, <1>4, <2>1
  <2> QED
    BY <1>4, <2>1, <2>2, AskIs
<1> QED
  BY <1>1, <1>2, <1>3, <1>4, <1>5, <1>6 DEF Turned

LEMMA DeliverStartFacts ==
  ASSUME FactsInv, DeliverStart
  PROVE  FactsInv'
<1>1. PICK n, t : Turned(n, t)
  BY TurnedIs
<1> USE DEF serverVars
<1>a. Grows
  BY <1>1 DEF Turned, Grows
<1>2. SessionTypeOK'
  <2>1. ServerType' /\ PaidType'
    BY <1>1 DEF Turned, FactsInv, SessionTypeOK, ServerType, PaidType
  <2>2. PageType'
    BY <1>1, NewSessionIs DEF Turned, FactsInv, SessionTypeOK, PageType
  <2>3. (ServerType /\ PageType /\ PaidType)'
    BY <2>1, <2>2
  <2> QED
    BY <2>3 DEF SessionTypeOK, ServerType, PageType, PaidType
<1>3. KnownInv'
  <2>1. ASSUME NEW i \in Instances, NEW o \in Orders
        PROVE  (copy'[i][o] # None => Good(copy[i][o], o)') /\ UsedBy(env[i][o])'
    <3>1. (copy[i][o] # None => copy[i][o] \in Session /\ Good(copy[i][o], o)) /\ UsedBy(env[i][o])
      BY DEF FactsInv, KnownInv, SessionTypeOK
    <3>2. copy'[i][o] # None => Good(copy[i][o], o)'
      BY <1>1, <1>a, <3>1, GoodStays DEF Turned
    <3>3. UsedBy(env[i][o])'
      BY <1>1, <1>a, <3>1, GoodStays DEF Turned
    <3> QED
      BY <3>2, <3>3
  <2>2. Recorded(token)'
    BY <1>1, <1>a, GoodStays DEF Turned
  <2>3. order' \in used' /\ withdrawn' \subseteq used' /\ reply' = None
    BY <1>1 DEF Turned
  <2> QED
    BY <2>1, <2>2, <2>3 DEF KnownInv
<1>4. RefreshInv'
  <2>1. PICK o : o = order
    OBVIOUS
  <2>2. o \in used /\ reply' = None /\ t \in Token /\ t # None /\ Recorded(t)
    BY <1>1, <2>1 DEF Turned, FactsInv, KnownInv
  <2>3. \A q \in refreshes' :
            q \in refreshes \/ (q.order = o /\ q.token = t /\ ~q.served /\ ~q.late)
    BY <1>1, <2>1 DEF Turned
  <2> QED
    BY <1>a, <2>2, <2>3, AskRecorded
<1>5. PaidInv' /\ PageInv' /\ StartInv'
  BY <1>1 DEF Turned, FactsInv, PaidInv, PageInv, StartInv
<1> QED
  BY <1>2, <1>3, <1>4, <1>5 DEF FactsInv

LEMMA DeliverStartCourse ==
  ASSUME FactsInv, CourseInv, DeliverStart
  PROVE  CourseInv'
<1>1. PICK n, t : Turned(n, t)
  BY TurnedIs
<1> USE DEF serverVars
<1>2. /\ order' = n /\ token' = t /\ t # None /\ t.order = n /\ t.s = NewSession /\ t.e = None
      /\ shown' = "DRAFT" /\ checkout' = None /\ withdrawn' = {}
      /\ ~Answering' /\ ~Sealed' /\ n \notin spent' /\ \A k \in Checkouts : charged'[k] # n
      /\ UNCHANGED <<charged, spent>> /\ n \in Orders
      /\ \A i \in Instances : copy'[i][n] \in {None, NewSession} /\ env'[i][n] = None
  BY <1>1 DEF Turned
<1>3. \A q \in InTime' : q.token = t
  BY <1>1 DEF Turned, InTime
<1>4. \A s \in Sessions(order)' : s \in {None, NewSession}
  BY <1>1, <1>2 DEF Turned, Sessions, RefreshesOf
<1>5. Live(t)'
  BY <1>2, NewSessionIs DEF Live, Clear
<1>6. LiveInv'
  BY <1>2, <1>3, <1>5 DEF LiveInv
<1>7. AgentInv' /\ PlainInv'
  BY <1>2 DEF AgentInv, PlainInv
<1>8. AdriftInv'
  BY <1>2, <1>4, NewSessionIs DEF AdriftInv
<1>9. ChargeInv'
  BY <1>2 DEF CourseInv, ChargeInv
<1> QED
  BY <1>6, <1>7, <1>8, <1>9 DEF CourseInv

---------------------------------------------------------------------------
(* The page sends a request *)

\* The case that a request is served from is recorded.
LEMMA PresentedIs ==
  ASSUME FactsInv, Idle, NEW i \in Instances, NEW c, c = Presented(i)
  PROVE  /\ reply = None /\ token # None /\ token \in Token
         /\ order \in Orders /\ order \in used /\ ServerType /\ refreshes \subseteq Refresh
         /\ c.events \subseteq Checkouts
         /\ c.s # None => c \in Case /\ Good(c.s, order) /\ UsedBy(c.e)
         /\ token.order = order => c.s = token.s /\ c.s # None /\ c.e \in {token.e, env[i][order]}
         /\ token.order # order => c.s = copy[i][order] /\ c.e = env[i][order]
<1>1. /\ reply = None /\ token # None /\ token \in Token
      /\ order \in Orders /\ order \in used /\ ServerType /\ refreshes \subseteq Refresh
  BY DEF Idle, FactsInv, SessionTypeOK, ServerType, PageInv, KnownInv, Starting
<1>2. c = Restored(i, order, token)
  BY DEF Presented
<1>3. /\ c.events \subseteq Checkouts /\ (c.s # None => c \in Case)
      /\ token.order = order => c.s = token.s /\ c.s # None /\ c.e \in {token.e, env[i][order]}
      /\ token.order # order => c.s = copy[i][order] /\ c.e = env[i][order]
  BY <1>1, <1>2, RestoredIs DEF Mine
<1>4. c.s # None => Good(c.s, order) /\ UsedBy(c.e)
  BY <1>1, <1>3 DEF FactsInv, KnownInv, Recorded
<1> QED
  BY <1>1, <1>3, <1>4

\* Until a token is rolled back it is live, and untouched when the page is
\* adrift.
LEMMA PresentedLive ==
  ASSUME FactsInv, CourseInv, Idle, NEW i \in Instances, NEW c, c = Presented(i), c.s # None
  PROVE  /\ Live(c)
         /\ token.order # order => c.s.approved = None /\ c.s.checkout = None /\ ~c.s.agentPaid
<1>1. /\ reply = None /\ token # None /\ ~Answering /\ order \in Orders
      /\ token.order = order => c.s = token.s /\ c.e \in {token.e, env[i][order]}
      /\ token.order # order => c.s = copy[i][order] /\ c.e = env[i][order]
  BY PresentedIs DEF Answering
<1>2. CASE token.order = order
  <2>1. Live(token) /\ Clear(env[i][order], token.s)
    BY <1>1, <1>2 DEF CourseInv, LiveInv, Live, Envelopes
  <2> QED
    BY <1>1, <1>2, <2>1 DEF Live
<1>3. CASE token.order # order
  <2>1. Adrift /\ copy[i][order] \in Sessions(order)
    BY <1>1, <1>3 DEF Adrift, Sessions
  <2>2. /\ withdrawn = {} /\ checkout = None /\ shown \notin PaidStates
        /\ c.s.checkout = None /\ ~c.s.agentPaid /\ c.s.approved = None
    BY <1>1, <1>3, <2>1 DEF CourseInv, AdriftInv
  <2> QED
    BY <2>2 DEF Live, Clear, Steady
<1> QED
  BY <1>2, <1>3

\* A request that misses its session changes nothing but the reply.
Missed(i, kind) ==
    /\ Idle /\ Post /\ Presented(i).s = None
    /\ reply' = [kind |-> kind, order |-> order, after |-> None, change |-> FALSE,
                 token |-> None, state |-> "DRAFT", how |-> "plain"]
    /\ UNCHANGED <<serverVars, used, spent>>
    /\ UNCHANGED <<charged, order, token, shown, checkout, withdrawn, rolledBack>>

LEMMA MissedIs ==
  ASSUME FactsInv, NEW i \in Instances, NEW kind \in Kinds, kind # "start", Missed(i, kind)
  PROVE  /\ reply' \in Reply /\ reply' # None /\ reply'.order = order /\ reply'.token = None
         /\ reply'.state = "DRAFT" /\ reply'.how = "plain" /\ reply'.kind = kind
         /\ Answering' /\ ~Starting' /\ ~Sealed'
         /\ token # None /\ token.order # order
         /\ Carried /\ (\A q \in refreshes' : q.late) /\ InTime' = {}
<1>1. /\ reply = None /\ token # None /\ token.order # order /\ order \in Orders
      /\ refreshes \subseteq Refresh
  <2>1. PICK c : c = Presented(i)
    OBVIOUS
  <2> QED
    BY <2>1, PresentedIs DEF Missed
<1>2. reply' \in Reply
  BY <1>1 DEF Missed, Reply, OrderStates
<1>3. /\ reply' # None /\ Answering' /\ ~Starting' /\ ~Sealed'
      /\ reply'.kind = kind /\ reply'.order = order /\ reply'.token = None
      /\ reply'.state = "DRAFT" /\ reply'.how = "plain"
  BY <1>2, NoneAssumption DEF Missed, Answering, Starting, Sealed
<1>4. Carried /\ (\A q \in refreshes' : q.late) /\ InTime' = {}
  BY <1>1, PostIs DEF Missed
<1> QED
  BY <1>1, <1>2, <1>3, <1>4

LEMMA MissFacts ==
  ASSUME FactsInv, NEW i \in Instances, NEW kind \in Kinds, kind # "start", Missed(i, kind)
  PROVE  FactsInv'
<1>1. /\ UNCHANGED <<serverVars, used, spent>>
      /\ UNCHANGED <<charged, order, token, shown, checkout, withdrawn, rolledBack>> /\ Post
  BY DEF Missed
<1> USE DEF serverVars
<1>2. /\ reply' \in Reply /\ reply' # None /\ reply'.order = order /\ reply'.token = None
      /\ reply'.state = "DRAFT" /\ reply'.how = "plain"
      /\ Answering' /\ ~Starting' /\ ~Sealed' /\ token # None
  BY MissedIs
<1>3. Carried /\ (\A q \in refreshes' : q.late) /\ refreshes' \subseteq Refresh
  BY MissedIs, CarriedHold
<1>a. Grows
  BY <1>1 DEF Grows
<1>4. SessionTypeOK'
  BY <1>1, <1>2, <1>3 DEF FactsInv, SessionTypeOK, Post
<1>5. KnownInv'
  <2>1. ASSUME NEW j \in Instances, NEW o \in Orders
        PROVE  (copy'[j][o] # None => Good(copy[j][o], o)') /\ UsedBy(env[j][o])'
    <3>1. (copy[j][o] # None => copy[j][o] \in Session /\ Good(copy[j][o], o)) /\ UsedBy(env[j][o])
      BY DEF FactsInv, KnownInv, SessionTypeOK
    <3>2. copy'[j][o] # None => Good(copy[j][o], o)'
      BY <1>1, <1>a, <3>1, GoodStays
    <3>3. UsedBy(env[j][o])'
      BY <1>1, <1>a, <3>1, GoodStays
    <3> QED
      BY <3>2, <3>3
  <2>2. Recorded(token)'
    BY <1>1, <1>2, <1>a, GoodStays DEF FactsInv, KnownInv, SessionTypeOK
  <2> QED
    BY <1>1, <1>2, <2>1, <2>2 DEF FactsInv, KnownInv
<1>6. RefreshInv'
  BY <1>a, <1>3, CarriedRecorded
<1>7. PaidInv'
  BY <1>1 DEF FactsInv, PaidInv
<1>8. PageInv' /\ StartInv'
  <2>1. "DRAFT" \notin PaidStates
    BY NewSessionIs
  <2> QED
    BY <1>1, <1>2, <2>1 DEF PageInv, StartInv
<1> QED
  BY <1>4, <1>5, <1>6, <1>7, <1>8 DEF FactsInv

LEMMA MissCourse ==
  ASSUME FactsInv, CourseInv, NEW i \in Instances, NEW kind \in Kinds, kind # "start",
         Missed(i, kind)
  PROVE  CourseInv'
<1>1. /\ UNCHANGED <<serverVars, used, spent>>
      /\ UNCHANGED <<charged, order, token, shown, checkout, withdrawn, rolledBack>>
      /\ reply = None
  BY DEF Missed, Idle
<1> USE DEF serverVars
<1>2. /\ Answering' /\ ~Sealed' /\ token # None /\ token.order # order /\ InTime' = {} /\ Carried
      /\ ~Answering
  BY <1>1, MissedIs DEF Answering
<1>3. Adrift /\ order \notin spent /\ shown \notin PaidStates
  BY <1>2 DEF CourseInv, AdriftInv, Adrift
<1>4. LiveInv' /\ AgentInv' /\ PlainInv'
  BY <1>1, <1>2, <1>3 DEF LiveInv, AgentInv, PlainInv
<1>5. \A s \in Sessions(order)' : s \in Sessions(order)
  <2>1. PICK p : p = order
    OBVIOUS
  <2>2. \A j \in Instances : copy[j][p] \in Sessions(p)
    BY DEF Sessions
  <2>3. \A s \in Sessions(p)' : s \in Sessions(p)
    BY <1>1, <1>2, <2>2, CarriedHold
  <2>4. p = order'
    BY <1>1, <2>1
  <2> QED
    BY <2>1, <2>3, <2>4 DEF Sessions, RefreshesOf
<1>6. AdriftInv'
  BY <1>1, <1>2, <1>3, <1>5 DEF CourseInv, AdriftInv
<1>7. ChargeInv'
  BY <1>1 DEF CourseInv, ChargeInv
<1> QED
  BY <1>4, <1>6, <1>7 DEF CourseInv

\* A request that is served by a handler with result r.
Handled(i, kind, change, r) ==
    LET c == Presented(i) IN
    /\ Idle /\ Post /\ c.s # None
    /\ Store(i, order, r.s, r.e, c.events, c.events \cup r.done)
    /\ used' = used \cup r.ids
    /\ spent' = spent \cup (IF r.s.agentPaid /\ ~c.s.agentPaid THEN {order} ELSE {})
    /\ reply' = [kind |-> kind, order |-> order, after |-> None, change |-> change,
                 token |-> IF r.how = "sealed" THEN Seal(i, order) ELSE None,
                 state |-> IF r.how = "bare" THEN None ELSE r.s.state,
                 how |-> r.how]
    /\ UNCHANGED <<charged, order, token, shown, checkout, withdrawn, rolledBack>>

\* What it leaves: the result at the instance, and a token z of it.
Outcome(i, kind, change, c, r, z) ==
    /\ reply = None /\ token # None /\ token \in Token /\ order \in Orders /\ order \in used
    /\ c = Presented(i) /\ c.s # None /\ c \in Case /\ Good(c.s, order) /\ UsedBy(c.e)
    /\ r.s \in Session /\ r.s # None /\ r.e \in Envelope \cup {None} /\ r.how \in Hows
    /\ Carries(c, r) /\ Pays(c, r, kind) /\ Approves(c, r, kind, change)
    /\ ServerType'
    /\ \A j \in Instances, p \in Orders :
          /\ copy'[j][p] = copy[j][p] \/ (j = i /\ p = order /\ copy'[j][p] = r.s)
          /\ env'[j][p] = env[j][p] \/ (j = i /\ p = order /\ env'[j][p] = r.e)
    /\ z \in Token /\ z # None /\ z.order = order /\ z.s = r.s /\ z.e = r.e
    /\ reply' \in Reply /\ reply' # None /\ reply'.kind = kind /\ reply'.order = order
    /\ reply'.change = change /\ reply'.token = (IF r.how = "sealed" THEN z ELSE None)
    /\ reply'.state = (IF r.how = "bare" THEN None ELSE r.s.state) /\ reply'.how = r.how
    /\ Answering' /\ ~Starting' /\ (Sealed' <=> r.how = "sealed")
    /\ used' = used \cup r.ids
    /\ spent' = spent \cup (IF r.s.agentPaid /\ ~c.s.agentPaid THEN {order} ELSE {})
    /\ UNCHANGED <<charged, order, token, shown, checkout, withdrawn, rolledBack>>
    /\ Carried /\ (\A q \in refreshes' : q.late) /\ InTime' = {} /\ sent' \in Nat

LEMMA OutcomeIs ==
  ASSUME FactsInv, NEW i \in Instances, NEW kind \in Kinds, kind # "start",
         NEW change \in BOOLEAN, NEW r, Handled(i, kind, change, r),
         Contract(Presented(i), r, kind, change)
  PROVE  \E c, z : Outcome(i, kind, change, c, r, z)
<1>0. PICK c : c = Presented(i)
  OBVIOUS
<1>1. /\ reply = None /\ token # None /\ token \in Token
      /\ order \in Orders /\ order \in used /\ ServerType /\ refreshes \subseteq Refresh
      /\ c.events \subseteq Checkouts /\ c \in Case /\ Good(c.s, order) /\ UsedBy(c.e) /\ c.s # None
  BY <1>0, PresentedIs DEF Handled
<1>2. Shaped(r) /\ Carries(c, r) /\ Pays(c, r, kind) /\ Approves(c, r, kind, change)
  BY <1>0 DEF Contract
<1>3. PICK s, e : s = r.s /\ e = r.e
  OBVIOUS
<1>4. /\ s \in Session /\ e \in Envelope \cup {None} /\ r.how \in Hows /\ s # None
      /\ r.done \subseteq Checkouts
  BY <1>2, <1>3, NoneAssumption DEF Shaped
<1>a. /\ Store(i, order, s, e, c.events, c.events \cup r.done)
      /\ used' = used \cup r.ids
      /\ spent' = spent \cup (IF r.s.agentPaid /\ ~c.s.agentPaid THEN {order} ELSE {})
      /\ UNCHANGED <<charged, order, token, shown, checkout, withdrawn, rolledBack>> /\ Post
  BY <1>0, <1>3 DEF Handled
<1>5. ServerType' /\ PutAt(copy', copy, i, order, s) /\ PutAt(env', env, i, order, e)
  <2>1. PICK done : done = c.events \cup r.done
    OBVIOUS
  <2>2. PICK seen : seen = c.events
    OBVIOUS
  <2>3. /\ s \in Session \cup {None} /\ (e # None => s # None) /\ seen \subseteq Checkouts
        /\ done \subseteq Checkouts /\ Store(i, order, s, e, seen, done)
    BY <1>1, <1>4, <1>a, <2>1, <2>2
  <2>4. ServerType'
    BY <1>1, <1>4, <2>3, Stored
  <2>5. PutAt(copy', copy, i, order, s)
    BY <1>1, <1>4, <2>3, Stored
  <2>6. PutAt(env', env, i, order, e)
    BY <1>1, <1>4, <2>3, Stored
  <2> QED
    BY <2>4, <2>5, <2>6
<1>6. /\ \A j \in Instances, p \in Orders :
            /\ copy'[j][p] = copy[j][p] \/ (j = i /\ p = order /\ copy'[j][p] = s)
            /\ env'[j][p] = env[j][p] \/ (j = i /\ p = order /\ env'[j][p] = e)
      /\ copy'[i][order] = s /\ env'[i][order] = e
  BY <1>1, <1>5 DEF PutAt
<1>7. PICK z : z = Seal(i, order)
  OBVIOUS
<1>8. z \in Token /\ z # None /\ z.order = order /\ z.s = s /\ z.e = e
  BY <1>1, <1>4, <1>5, <1>6, <1>7, SealIs, NoneAssumption
<1>9. PICK h, t, next : /\ h = r.how /\ t = (IF r.how = "sealed" THEN z ELSE None)
                        /\ next = (IF r.how = "bare" THEN None ELSE s.state)
  OBVIOUS
<1>10. reply' = [kind |-> kind, order |-> order, after |-> None, change |-> change,
                token |-> t, state |-> next, how |-> h]
  BY <1>3, <1>7, <1>9 DEF Handled
<1>11. reply' \in Reply
  <2>1. s.state \in OrderStates
    BY <1>4 DEF Session
  <2>2. t \in Token \cup {None} /\ next \in OrderStates \cup {None} /\ h \in Hows
    BY <1>4, <1>8, <1>9, <2>1
  <2> QED
    BY <1>1, <1>10, <2>2 DEF Reply, Hows
<1>12. /\ reply'.kind = kind /\ reply'.order = order /\ reply'.change = change
       /\ reply'.token = t /\ reply'.state = next /\ reply'.how = h
  BY <1>10
<1>13. reply' # None /\ Answering' /\ ~Starting' /\ (Sealed' <=> r.how = "sealed")
  BY <1>9, <1>11, <1>12, NoneAssumption DEF Answering, Starting, Sealed
<1>14. Carried /\ (\A q \in refreshes' : q.late) /\ InTime' = {} /\ sent' \in Nat
  BY <1>1, <1>a, PostIs DEF Post, FactsInv, SessionTypeOK
<1> QED
  BY <1>0, <1>1, <1>2, <1>3, <1>4, <1>a, <1>5, <1>6, <1>8, <1>9, <1>11, <1>12, <1>13, <1>14
  DEF Outcome


\* The result says nothing of payments that is not so.
LEMMA ServedIsGood ==
  ASSUME FactsInv, NEW i, NEW kind, NEW change, NEW c, NEW r, NEW z, Outcome(i, kind, change, c, r, z)
  PROVE  Grows /\ Good(r.s, order)' /\ UsedBy(r.e)'
<1>0. /\ c.s \in Session /\ r.s \in Session /\ order \in Orders /\ order \in used
      /\ Good(c.s, order) /\ UsedBy(c.e) /\ r.e \in Envelope \cup {None}
      /\ Carries(c, r) /\ Pays(c, r, kind) /\ UNCHANGED <<charged, order>>
      /\ used' = used \cup r.ids
      /\ spent' = spent \cup (IF r.s.agentPaid /\ ~c.s.agentPaid THEN {order} ELSE {})
  BY DEF Outcome, Case
<1>1. Grows
  BY <1>0 DEF Grows
<1>2. Consistent(r.s)
  BY <1>0 DEF Good, Pays
<1>3. r.s.rank \in used' \cup {None} /\ r.s.checkout \in used' \cup {None}
  BY <1>0 DEF Good, UsedIn, Carries
<1>4. r.s.checkout \in IdsOf[order] \cup {None}
  BY <1>0 DEF Good, Sound, Carries
<1>5. r.s.agentPaid => order \in spent'
  BY <1>0 DEF Good, Sound
<1>6. ASSUME c.s.checkout # None, charged[c.s.checkout] # None
      PROVE  r.s.checkout # None /\ charged'[r.s.checkout] = order
  <2>1. r.s.checkout = c.s.checkout /\ c.s.checkout \in Checkouts /\ c.s.checkout \in IdsOf[order]
    BY <1>0, <1>6 DEF Carries, Session, Good, Sound
  <2>2. charged[c.s.checkout] \in Orders /\ c.s.checkout \in IdsOf[charged[c.s.checkout]]
    BY <1>6, <2>1 DEF FactsInv, PaidInv, SessionTypeOK
  <2> QED
    BY <1>0, <1>6, <2>1, <2>2, IdsAssumption
<1>7. r.s.state \in PaidStates =>
         \/ r.s.agentPaid /\ order \in spent'
         \/ r.s.checkout # None /\ charged'[r.s.checkout] = order
  <2>1. SUFFICES ASSUME r.s.state \in PaidStates, ~r.s.agentPaid
                 PROVE  r.s.checkout # None /\ charged'[r.s.checkout] = order
    BY <1>5
  <2>2. CASE c.s.state \in PaidStates
    <3>1. ~c.s.agentPaid /\ PaidFor(c.s, order)
      BY <1>0, <2>1, <2>2 DEF Pays, Good, Sound
    <3> QED
      BY <1>0, <1>6, <3>1, NoneAssumption DEF PaidFor
  <2>3. CASE c.s.checkout # None /\ charged[c.s.checkout] # None
    BY <1>6, <2>3
  <2> QED
    BY <1>0, <2>1, <2>2, <2>3 DEF Pays
<1>8. Good(r.s, order)'
  BY <1>0, <1>1, <1>2, <1>3, <1>4, <1>5, <1>7 DEF Good, UsedIn, Sound, PaidFor, Grows
<1>9. r.e # None => r.e.digest \in used' /\ r.e.rank \in used'
  <2>1. r.e # None => r.e.rank # None
    BY <1>0, NoneAssumption DEF Envelope
  <2> QED
    BY <1>0, <1>3, <2>1 DEF Carries, UsedBy
<1> QED
  BY <1>1, <1>8, <1>9 DEF UsedBy

\* A request that is served leaves facts.
LEMMA ServeFacts ==
  ASSUME FactsInv, NEW i, NEW kind, NEW change, NEW c, NEW r, NEW z, Outcome(i, kind, change, c, r, z)
  PROVE  FactsInv'
<1>0. /\ UNCHANGED <<charged, order, token, shown, checkout, withdrawn, rolledBack>>
      /\ used' = used \cup r.ids /\ token # None /\ token \in Token
      /\ order \in Orders /\ order \in used
      /\ Answering' /\ ~Starting' /\ (Sealed' <=> r.how = "sealed") /\ sent' \in Nat
      /\ r.s \in Session /\ r.e \in Envelope \cup {None}
      /\ z \in Token /\ z # None /\ z.order = order /\ z.s = r.s /\ z.e = r.e
      /\ spent' = spent \cup (IF r.s.agentPaid /\ ~c.s.agentPaid THEN {order} ELSE {})
  BY DEF Outcome
<1>1. /\ reply' \in Reply /\ reply' # None /\ reply'.kind = kind /\ reply'.order = order
      /\ reply'.change = change /\ reply'.token = (IF r.how = "sealed" THEN z ELSE None)
      /\ reply'.state = (IF r.how = "bare" THEN None ELSE r.s.state) /\ reply'.how = r.how
  BY DEF Outcome
<1>2. Grows /\ Good(r.s, order)' /\ UsedBy(r.e)'
  BY ServedIsGood
<1>3. Carried /\ (\A q \in refreshes' : q.late) /\ refreshes' \subseteq Refresh
  BY CarriedHold DEF Outcome
<1>4. SessionTypeOK'
  <2>1. ServerType'
    BY DEF Outcome
  <2>2. PaidType'
    BY <1>0 DEF FactsInv, SessionTypeOK, PaidType
  <2>3. PageType'
    BY <1>0, <1>1, <1>3 DEF FactsInv, SessionTypeOK, PageType
  <2>4. (ServerType /\ PageType /\ PaidType)'
    BY <2>1, <2>2, <2>3
  <2> QED
    BY <2>4 DEF SessionTypeOK, ServerType, PageType, PaidType
<1>5. KnownInv'
  <2>1. ASSUME NEW j \in Instances, NEW p \in Orders
        PROVE  (copy'[j][p] # None => Good(copy[j][p], p)') /\ UsedBy(env[j][p])'
    <3>1. (copy[j][p] # None => copy[j][p] \in Session /\ Good(copy[j][p], p)) /\ UsedBy(env[j][p])
      BY DEF FactsInv, KnownInv, SessionTypeOK
    <3>2. /\ copy'[j][p] = copy[j][p] \/ (p = order /\ copy'[j][p] = r.s)
          /\ env'[j][p] = env[j][p] \/ (p = order /\ env'[j][p] = r.e)
      BY DEF Outcome
    <3>3. copy'[j][p] # None => Good(copy[j][p], p)'
      <4>1. CASE copy'[j][p] = copy[j][p]
        BY <1>2, <3>1, <4>1, GoodStays
      <4>2. CASE p = order /\ copy'[j][p] = r.s
        BY <1>0, <1>2, <4>2 DEF Good, UsedIn, Sound, PaidFor
      <4> QED
        BY <3>2, <4>1, <4>2
    <3>4. UsedBy(env[j][p])'
      <4>1. CASE env'[j][p] = env[j][p]
        BY <1>2, <3>1, <4>1, GoodStays
      <4>2. CASE p = order /\ env'[j][p] = r.e
        BY <1>2, <4>2 DEF UsedBy
      <4> QED
        BY <3>2, <4>1, <4>2
    <3> QED
      BY <3>3, <3>4
  <2>2. Recorded(token)'
    BY <1>0, <1>2, GoodStays DEF FactsInv, KnownInv
  <2>3. reply'.token # None => Recorded(reply.token)'
    <3>1. Recorded(z)'
      BY <1>0, <1>2 DEF Recorded
    <3> QED
      BY <1>1, <3>1
  <2> QED
    BY <1>0, <2>1, <2>2, <2>3 DEF FactsInv, KnownInv
<1>6. RefreshInv'
  BY <1>2, <1>3, CarriedRecorded
<1>7. PaidInv'
  BY <1>0, <1>2 DEF FactsInv, PaidInv, Grows
<1>8. PageInv' /\ StartInv'
  <2>1. r.how = "plain" => r.s.state \notin PaidStates
    BY DEF Outcome, Pays
  <2> QED
    BY <1>0, <1>1, <2>1 DEF PageInv, StartInv
<1> QED
  BY <1>4, <1>5, <1>6, <1>7, <1>8 DEF FactsInv

\* Until a token is rolled back, the handler works on a live case.
LEMMA ServeCourse ==
  ASSUME FactsInv, CourseInv, NEW i \in Instances, NEW kind, NEW change, NEW c, NEW r, NEW z,
         Outcome(i, kind, change, c, r, z)
  PROVE  CourseInv'
<1>0. /\ UNCHANGED <<charged, order, token, shown, checkout, withdrawn, rolledBack>>
      /\ token # None /\ token \in Token /\ order \in Orders /\ reply = None
      /\ c = Presented(i) /\ c.s # None /\ c.s \in Session /\ c.e \in Envelope \cup {None}
      /\ Good(c.s, order) /\ UsedBy(c.e)
      /\ Answering' /\ ~Starting' /\ (Sealed' <=> r.how = "sealed") /\ InTime' = {} /\ Carried
      /\ r.s \in Session /\ r.e \in Envelope \cup {None}
      /\ z # None /\ z.order = order /\ z.s = r.s /\ z.e = r.e
      /\ spent' = spent \cup (IF r.s.agentPaid /\ ~c.s.agentPaid THEN {order} ELSE {})
      /\ Carries(c, r) /\ Pays(c, r, kind) /\ Approves(c, r, kind, change)
  BY DEF Outcome, Case
<1>1. /\ reply' # None /\ reply'.kind = kind /\ reply'.change = change /\ reply'.how = r.how
      /\ reply'.token = (IF r.how = "sealed" THEN z ELSE None)
  BY DEF Outcome
<1>2. Idle /\ ~Answering /\ ~Sealed
  BY <1>0 DEF Idle, Answering, Sealed
<1>3. /\ Live(c)
      /\ token.order # order => c.s.approved = None /\ c.s.checkout = None /\ ~c.s.agentPaid
      /\ token.order = order => c.s = token.s
  BY <1>0, <1>2, PresentedLive, PresentedIs
<1>4. withdrawn \subseteq used /\ withdrawn \subseteq Quotes
  BY DEF FactsInv, KnownInv, SessionTypeOK
<1>5. /\ \A e \in Envelopes(order)' : e \in Envelopes(order) \cup {None, r.e}
      /\ \A s \in Sessions(order)' : s \in Sessions(order) \/ s = r.s
  <2>1. PICK p : p = order
    OBVIOUS
  <2>2. \A j \in Instances : copy[j][p] \in Sessions(p) /\ env[j][p] \in Envelopes(p)
    BY DEF Sessions, Envelopes
  <2>3. \A j \in Instances : copy'[j][p] \in {copy[j][p], r.s} /\ env'[j][p] \in {env[j][p], r.e}
    BY <1>0, <2>1 DEF Outcome
  <2>4. /\ \A e \in Envelopes(p)' : e \in Envelopes(p) \cup {None, r.e}
        /\ \A s \in Sessions(p)' : s \in Sessions(p) \/ s = r.s
    BY <1>0, <2>2, <2>3, CarriedHold
  <2> QED
    BY <1>0, <2>1, <2>4 DEF Envelopes, Sessions, RefreshesOf
<1>6. ASSUME NEW e \in Envelopes(order)
      PROVE  e \in Envelope \cup {None} /\ UsedBy(e) /\ Clear(e, c.s)
  <2>1. e \in Envelope \cup {None} /\ UsedBy(e)
    <3>1. CASE \E j \in Instances : e = env[j][order]
      BY <1>0, <3>1 DEF FactsInv, SessionTypeOK, KnownInv
    <3>2. CASE \E q \in refreshes : e = q.token.e
      <4>1. PICK q \in refreshes : e = q.token.e
        BY <3>2
      <4>2. q.token \in Token /\ Recorded(q.token)
        BY RefreshType DEF FactsInv, SessionTypeOK, RefreshInv
      <4> QED
        BY <4>1, <4>2 DEF Token, Recorded
    <3> QED
      BY <3>1, <3>2 DEF Envelopes, RefreshesOf
  <2> QED
    BY <1>3, <2>1 DEF Live
<1>7. ASSUME NEW f, f \in Envelope \cup {None}, UsedBy(f), Clear(f, c.s)
      PROVE  Clear(f, r.s)
  <2>1. f # None => f.rank \in used /\ f.rank # None
    BY <1>7, NoneAssumption DEF UsedBy, Envelope
  <2> QED
    BY <1>0, <1>7, <2>1 DEF Carries, Clear
<1>8. Clear(r.e, c.s) /\ Clear(r.e, r.s)
  <2>1. CASE r.e \in {c.e, None}
    BY <1>0, <1>3, <1>7, <2>1 DEF Live, Clear
  <2>2. CASE r.e \notin {c.e, None}
    BY <1>0, <1>4, <2>2 DEF Carries, Clear
  <2> QED
    BY <2>1, <2>2
<1>9. \A t : Live(t) /\ Clear(r.e, t.s) => Live(t)'
  BY <1>0, <1>5, LiveStays
<1>10. token.order = order => Live(token)'
  <2>1. token.order = order => Live(token) /\ Clear(r.e, token.s)
    BY <1>0, <1>3, <1>8 DEF CourseInv, LiveInv
  <2>2. PICK t : t = token
    OBVIOUS
  <2>3. token.order = order => Live(t)'
    BY <1>9, <2>1, <2>2
  <2> QED
    BY <1>0, <2>2, <2>3 DEF Live
<1>11. checkout # None => r.s.checkout = checkout
  BY <1>0, <1>3 DEF Carries, Live
<1>12. Sealed' => Live(z)'
  <2>1. SUFFICES ASSUME r.how = "sealed"
                 PROVE  Live(z)
    BY <1>0, <1>8, <1>9
  <2>2. Steady(r.s) /\ (shown \in PaidStates => r.s.state \in PaidStates)
    BY <1>0, <1>3, <2>1 DEF Pays, Live
  <2>3. r.s.approved \notin withdrawn
    BY <1>0, <1>3, <1>4, NoneAssumption DEF Approves, Live, Bound, Clear
  <2>4. \A e \in Envelopes(order) : Clear(e, z.s)
    BY <1>0, <1>6, <1>7
  <2> QED
    BY <1>0, <1>8, <1>11, <2>2, <2>3, <2>4 DEF Live
<1>13. Sealed' /\ change => Withdrawing'
  <2>1. SUFFICES ASSUME r.how = "sealed", change
                 PROVE  Withdrawing'
    BY <1>0
  <2>2. r.s.approved = None /\ r.e = None /\ r.s.rank \in {None} \cup (r.ids \ used)
    BY <1>0, <2>1 DEF Approves
  <2>3. ASSUME NEW e \in Envelopes(order)', e # None
        PROVE  e.rank # r.s.rank
    <3>1. e \in Envelopes(order)
      BY <1>5, <2>2, <2>3
    <3>2. e.rank \in used /\ e.rank # None
      BY <1>6, <2>3, <3>1, NoneAssumption DEF UsedBy, Envelope
    <3> QED
      BY <2>2, <3>2
  <2>4. reply'.token = z
    BY <1>1, <2>1
  <2> QED
    BY <1>0, <2>2, <2>3, <2>4 DEF Withdrawing
<1>14. LiveInv'
  <2>1. Sealed' => Live(reply.token)'
    <3>1. Sealed' => reply'.token = z
      BY <1>0, <1>1
    <3> QED
      BY <1>12, <3>1 DEF Live
  <2> QED
    BY <1>0, <1>1, <1>10, <1>13, <2>1 DEF LiveInv
<1>15. r.s.agentPaid => checkout = None /\ (c.s.agentPaid \/ (kind = "settle" /\ r.how = "sealed"))
  <2>1. Consistent(c.s) /\ Consistent(r.s) /\ Steady(c.s)
    BY <1>0, <1>3 DEF Good, Pays, Live
  <2> QED
    BY <1>0, <1>11, <2>1 DEF Pays, Consistent
<1>16. AgentInv'
  <2>1. order \in spent => checkout = None /\ Knows(token)
    BY <1>0, <1>2 DEF CourseInv, AgentInv
  <2>2. Knows(token) => r.s.agentPaid
    BY <1>0, <1>3 DEF Knows, Pays
  <2>3. Sealed' /\ r.s.agentPaid => Knows(reply.token)'
    BY <1>0, <1>1 DEF Knows
  <2>4. Knows(token)' <=> Knows(token)
    BY <1>0 DEF Knows
  <2> QED
    BY <1>0, <1>1, <1>15, <2>1, <2>2, <2>3, <2>4 DEF AgentInv, Knows
<1>17. AdriftInv'
  <2>1. SUFFICES ASSUME token.order # order
                 PROVE  AdriftInv'
    BY <1>0 DEF Adrift, AdriftInv
  <2>2. /\ withdrawn = {} /\ checkout = None /\ shown \notin PaidStates /\ order \notin spent
        /\ \A k \in Checkouts : charged[k] # order
        /\ \A s \in Sessions(order) : s # None =>
              s.checkout = None /\ ~s.agentPaid /\ s.approved = None
    BY <1>0, <1>2, <2>1 DEF CourseInv, AdriftInv, Adrift
  <2>3. /\ r.s.checkout = None /\ ~r.s.agentPaid
        /\ r.s.approved = None \/ (kind = "approve" /\ r.how \in {"sealed", "crash"})
    BY <1>0, <1>3, <2>1 DEF Approves
  <2>4. ASSUME NEW s \in Sessions(order)', s # None
        PROVE  /\ s.checkout = None /\ ~s.agentPaid
               /\ s.approved = None \/ (kind = "approve" /\ r.how \in {"sealed", "crash"})
    BY <1>5, <2>2, <2>3, <2>4
  <2> QED
    BY <1>0, <1>1, <2>2, <2>3, <2>4 DEF AdriftInv
<1>18. ChargeInv'
  <2>1. checkout = None => \A k \in Checkouts : charged[k] # order
    BY NoneAssumption DEF CourseInv, ChargeInv
  <2>2. \A p \in spent', k \in Checkouts : charged[k] # p
    BY <1>0, <1>15, <2>1 DEF CourseInv, ChargeInv
  <2> QED
    BY <1>0, <2>2 DEF CourseInv, ChargeInv
<1>19. PlainInv'
  BY <1>0, <1>1, <1>3 DEF PlainInv, Pays, Live
<1> QED
  BY <1>14, <1>16, <1>17, <1>18, <1>19 DEF CourseInv

\* A step keeps the facts and, unless it rolls a token back, the rest.
Keeps ==
    /\ FactsInv' /\ (rolledBack => rolledBack')
    /\ CourseInv => rolledBack' \/ CourseInv'

\* A request keeps the invariant when each of its results has the contract.
LEMMA RequestKeeps ==
  ASSUME FactsInv, NEW i \in Instances, NEW kind \in Kinds, kind # "start",
         NEW change \in BOOLEAN, NEW results,
         Request(i, kind, change, results),
         \A r \in results : Presented(i) \in Case => Contract(Presented(i), r, kind, change)
  PROVE  Keeps
<1>1. Idle /\ rolledBack' = rolledBack
  BY DEF Request
<1>2. CASE Presented(i).s = None
  <2>1. Missed(i, kind)
    BY <1>2 DEF Request, Missed
  <2> QED
    BY <1>1, <2>1, MissFacts, MissCourse DEF Keeps
<1>3. CASE Presented(i).s # None
  <2>1. PICK r \in results : Handled(i, kind, change, r)
    BY <1>3 DEF Request, Handled
  <2>2. Presented(i) \in Case
    BY <1>1, <1>3, PresentedIs
  <2>3. PICK c, z : Outcome(i, kind, change, c, r, z)
    BY <2>1, <2>2, OutcomeIs
  <2> QED
    BY <1>1, <2>3, ServeFacts, ServeCourse DEF Keeps
<1> QED
  BY <1>2, <1>3

\* What the shopping dialogue sends.
LEMMA ShopKeeps ==
  ASSUME FactsInv, NEW i \in Instances, Shop(i)
  PROVE  Keeps
<1> DEFINE c == Presented(i)
<1>0. {"message", "restart", "quote", "approve"} \subseteq Kinds
  BY DEF Kinds
<1>1. CASE Load(i)
  <2>1. rolledBack' = rolledBack
    BY <1>1 DEF Load
  <2> QED
    BY <1>1, <2>1, LoadFacts, LoadCourse DEF Keeps
<1>2. CASE SendRestart(i)
  <2>1. \A r \in Restart(c) : c \in Case => Contract(c, r, "restart", TRUE)
    BY RestartContract
  <2> QED
    BY <1>0, <1>2, <2>1, RequestKeeps DEF SendRestart
<1>3. ASSUME NEW change \in BOOLEAN, SendMessage(i, change)
      PROVE  Keeps
  <2>1. \A r \in Message(c, change) : c \in Case => Contract(c, r, "message", change)
    BY MessageContract
  <2> QED
    BY <1>0, <1>3, <2>1, RequestKeeps DEF SendMessage
<1>4. ASSUME NEW change \in BOOLEAN, SendPatch(i, change)
      PROVE  Keeps
  <2>1. \A r \in Patch(c, change) : c \in Case => Contract(c, r, "message", change)
    BY PatchContract
  <2> QED
    BY <1>0, <1>4, <2>1, RequestKeeps DEF SendPatch
<1>5. CASE SendQuote(i)
  <2>1. \A r \in BuildQuote(c) : c \in Case => Contract(c, r, "quote", FALSE)
    BY QuoteContract
  <2> QED
    BY <1>0, <1>5, <2>1, RequestKeeps DEF SendQuote
<1>6. ASSUME NEW d \in Quotes, SendApprove(i, d)
      PROVE  Keeps
  <2>1. \A r \in Approve(c, d) : c \in Case => Contract(c, r, "approve", FALSE)
    BY ApproveContract
  <2> QED
    BY <1>0, <1>6, <2>1, RequestKeeps DEF SendApprove
<1> QED
  BY <1>1, <1>2, <1>3, <1>4, <1>5, <1>6 DEF Shop

\* What the page sends from the payment on.
LEMMA BuyKeeps ==
  ASSUME FactsInv, NEW i \in Instances, Buy(i)
  PROVE  Keeps
<1> DEFINE c == Presented(i)
<1>0. {"initiate", "verify", "settle", "fulfil", "compensate"} \subseteq Kinds
  BY DEF Kinds
<1>1. CASE SendInitiate(i)
  <2>1. \A r \in Initiate(c) : c \in Case => Contract(c, r, "initiate", FALSE)
    BY InitiateContract
  <2> QED
    BY <1>0, <1>1, <2>1, RequestKeeps DEF SendInitiate
<1>2. CASE SendSettle(i)
  <2>1. \A r \in Settle(c) : c \in Case => Contract(c, r, "settle", FALSE)
    BY SettleContract
  <2> QED
    BY <1>0, <1>2, <2>1, RequestKeeps DEF SendSettle
<1>3. CASE SendCompensate(i)
  <2>1. \A r \in Compensate(c) : c \in Case => Contract(c, r, "compensate", FALSE)
    BY FulfilContract
  <2> QED
    BY <1>0, <1>3, <2>1, RequestKeeps DEF SendCompensate
<1>4. ASSUME NEW signed \in BOOLEAN, SendVerify(i, signed)
      PROVE  Keeps
  <2>1. checkout # None /\ (signed => charged[checkout] # None)
    BY <1>4 DEF SendVerify
  <2>2. \A r \in Verify(c, checkout, signed) : c \in Case => Contract(c, r, "verify", FALSE)
    BY <2>1, VerifyContract
  <2> QED
    BY <1>0, <1>4, <2>2, RequestKeeps DEF SendVerify
<1>5. ASSUME NEW fails \in BOOLEAN, SendFulfil(i, fails)
      PROVE  Keeps
  <2>1. \A r \in Fulfil(c, fails) : c \in Case => Contract(c, r, "fulfil", FALSE)
    BY FulfilContract
  <2> QED
    BY <1>0, <1>5, <2>1, RequestKeeps DEF SendFulfil
<1> QED
  BY <1>1, <1>2, <1>3, <1>4, <1>5 DEF Buy

---------------------------------------------------------------------------
(* The invariant *)

\* A page that has just been loaded.
LEMMA InitKeeps ==
  ASSUME Init
  PROVE  FactsInv /\ CourseInv
<1>1. PICK i \in Instances : FirstSession(i)
  BY DEF Init
<1>2. /\ order \in Orders /\ used = {order}
      /\ copy = [j \in Instances |-> [o \in Orders |-> IF j = i /\ o = order THEN NewSession ELSE None]]
      /\ token = [order |-> order, s |-> NewSession, e |-> None, events |-> {}]
  BY <1>1, OrdersAssumption DEF FirstSession
<1>3. /\ env = [j \in Instances |-> [o \in Orders |-> None]]
      /\ trail = [j \in Instances |-> [o \in Orders |-> {}]]
      /\ dedup = [j \in Instances |-> {}]
      /\ charged = [k \in Checkouts |-> None] /\ spent = {}
      /\ sent = 0 /\ shown = "DRAFT" /\ checkout = None
      /\ reply = None /\ refreshes = {} /\ withdrawn = {} /\ rolledBack = FALSE
  BY DEF Init
<1>4. /\ NewSession \in Session /\ NewSession # None
      /\ NewSession.rank = None /\ NewSession.checkout = None /\ NewSession.approved = None
      /\ ~NewSession.agentPaid /\ Consistent(NewSession) /\ Steady(NewSession)
      /\ NewSession.state = "DRAFT" /\ "DRAFT" \in OrderStates \ PaidStates
  BY NewSessionIs
<1>5. /\ token \in Token /\ token # None
      /\ token.order = order /\ token.s = NewSession /\ token.e = None
  BY <1>2, <1>4, NoneAssumption DEF Token
<1>6. ~Answering /\ ~Starting /\ ~Sealed /\ InTime = {}
  BY <1>3 DEF Answering, Starting, Sealed, InTime
<1>7. \A j \in Instances, o \in Orders :
        /\ copy[j][o] \in {None, NewSession} /\ (copy[j][o] # None => o = order)
        /\ env[j][o] = None
  BY <1>2, <1>3
<1>8. \A k \in Checkouts : charged[k] = None
  BY <1>3
<1>9. SessionTypeOK
  <2>1. ServerType
    BY <1>2, <1>3, <1>4, <1>7 DEF ServerType
  <2>2. PageType /\ PaidType
    BY <1>2, <1>3, <1>4, <1>5 DEF PageType, PaidType
  <2> QED
    BY <2>1, <2>2, TypeParts
<1>10. KnownInv
  <2>1. Good(NewSession, order)
    BY <1>2, <1>4 DEF Good, UsedIn, Sound
  <2> QED
    BY <1>2, <1>3, <1>5, <1>7, <2>1 DEF KnownInv, Recorded, UsedBy
<1>11. RefreshInv /\ PaidInv /\ PageInv /\ StartInv
  BY <1>3, <1>5, <1>6, <1>8 DEF RefreshInv, PaidInv, PageInv, StartInv
<1>12. \A e \in Envelopes(order) : e = None
  BY <1>2, <1>3, <1>7 DEF Envelopes, RefreshesOf
<1>13. LiveInv
  BY <1>3, <1>4, <1>5, <1>6, <1>12 DEF LiveInv, Live, Clear
<1>14. AgentInv /\ AdriftInv /\ PlainInv
  BY <1>3, <1>5, <1>6 DEF AgentInv, AdriftInv, Adrift, PlainInv
<1>15. ChargeInv
  <2>1. order # None
    BY <1>2, NoneAssumption
  <2> QED
    BY <1>3, <1>8, <2>1 DEF ChargeInv
<1> QED
  BY <1>9, <1>10, <1>11, <1>13, <1>14, <1>15 DEF FactsInv, CourseInv

\* A step in which nothing changes is one of the servers.
LEMMA StutterIsServerStep ==
  ASSUME FactsInv, UNCHANGED vars
  PROVE  ServerStep
<1> USE DEF vars, serverVars, pageVars
<1>1. ServerType'
  BY TypeParts DEF FactsInv, ServerType
<1> QED
  BY <1>1 DEF ServerStep

\* Every step keeps the facts, and the rest unless it rolls a token back.
LEMMA StepKeeps ==
  ASSUME FactsInv, [Next]_vars
  PROVE  Keeps
<1>1. CASE \E i \in Instances : Shop(i) \/ Buy(i)
  BY <1>1, ShopKeeps, BuyKeeps
<1>2. CASE CustomerPays
  <2>1. rolledBack' = rolledBack
    BY <1>2 DEF CustomerPays, pageVars
  <2> QED
    BY <1>2, <2>1, CustomerPaysFacts, CustomerPaysCourse DEF Keeps
<1>3. CASE Deliver
  <2>1. rolledBack' = rolledBack
    BY <1>3 DEF Deliver
  <2> QED
    BY <1>3, <2>1, DeliverFacts, DeliverCourse DEF Keeps
<1>4. CASE DeliverStart
  <2>1. rolledBack' = rolledBack
    BY <1>4 DEF DeliverStart
  <2> QED
    BY <1>4, <2>1, DeliverStartFacts, DeliverStartCourse DEF Keeps
<1>5. CASE LoseReply
  <2>1. rolledBack' = rolledBack
    BY <1>5 DEF LoseReply
  <2> QED
    BY <1>5, <2>1, LoseReplyFacts, LoseReplyCourse DEF Keeps
<1>6. ASSUME NEW j \in Instances, DeliverRestart(j)
      PROVE  Keeps
  <2>1. rolledBack' = rolledBack
    BY <1>6 DEF DeliverRestart
  <2> QED
    BY <1>6, <2>1, DeliverRestartFacts, DeliverRestartCourse DEF Keeps
<1>7. ASSUME NEW r \in refreshes, RefreshArrives(r)
      PROVE  Keeps
  <2>1. rolledBack => rolledBack'
    BY <1>7 DEF RefreshArrives
  <2> QED
    BY <1>7, <2>1, RefreshArrivesFacts, RefreshArrivesCourse DEF Keeps
<1>8. ASSUME NEW r \in refreshes, NEW j \in Instances, ServeRefresh(j, r)
      PROVE  Keeps
  <2>1. rolledBack' = rolledBack
    BY <1>8 DEF ServeRefresh
  <2> QED
    BY <1>8, <2>1, ServeRefreshFacts, ServeRefreshCourse DEF Keeps
<1>9. CASE Servers \/ UNCHANGED vars
  <2>1. ServerStep
    BY <1>9, WebhookIsServerStep, ForgettingIsServerStep, StutterIsServerStep DEF Servers
  <2>2. rolledBack' = rolledBack
    BY <2>1 DEF ServerStep, pageVars
  <2> QED
    BY <2>1, <2>2, ServerStepFacts, ServerStepCourse DEF Keeps
<1> QED
  BY <1>1, <1>2, <1>3, <1>4, <1>5, <1>6, <1>7, <1>8, <1>9 DEF Next, Replies, Refreshing

\* Whatever the page's refreshes do, what instances, tokens and page record of
\* payments is true; until one of them replaces a newer token, the tokens that
\* the page takes also agree with what it has seen (importSession,
\* exportSession, page.tsx).
THEOREM SessionInvariant == Spec => []SessionInv
<1>1. Init => SessionInv
  BY InitKeeps DEF SessionInv
<1>2. SessionInv /\ [Next]_vars => SessionInv'
  BY StepKeeps DEF SessionInv, Keeps
<1> QED
  BY <1>1, <1>2, PTL DEF Spec

\* Every variable has its type, and an instance with an envelope knows its
\* order (importSession).
THEOREM SessionTypeCorrect == Spec => []SessionTypeOK
<1>1. SessionInv => SessionTypeOK
  BY DEF SessionInv, FactsInv
<1> QED
  BY <1>1, SessionInvariant, PTL

\* No instance and no token counts an order as paid that nobody has paid,
\* whichever old tokens the page's refreshes bring back (importSession,
\* verifyPayment, the settle route and the webhook).
THEOREM CountedPaidIsPaid == Spec => []PaidIsPaid
<1>1. ASSUME SessionInv
      PROVE  PaidIsPaid
  BY <1>1 DEF SessionInv, FactsInv, KnownInv, Recorded, Good, Sound, PaidIsPaid
<1>2. SessionInv => PaidIsPaid
  BY <1>1
<1> QED
  BY <1>2, SessionInvariant, PTL

\* Until a token is rolled back, a logical order is charged at most once over
\* both rails, whichever instances serve its requests (initiatePayment, the
\* settle route, importSession).
THEOREM ChargedOnce == Spec => []OneCharge
<1>1. ASSUME SessionInv
      PROVE  OneCharge
  <2>1. SUFFICES ASSUME CourseInv, NEW o \in Orders
                 PROVE  LET razorpay == {k \in Checkouts : charged[k] = o} IN
                        Cardinality(razorpay) + (IF o \in spent THEN 1 ELSE 0) <= 1
    BY <1>1 DEF OneCharge, SessionInv
  <2> DEFINE razorpay == {k \in Checkouts : charged[k] = o}
  <2>2. CASE razorpay = {}
    <3>1. Cardinality(razorpay) = 0
      BY <2>2, FS_EmptySet
    <3> QED
      BY <3>1
  <2>3. CASE razorpay # {}
    <3>1. PICK k : k \in razorpay
      BY <2>3
    <3>2. \A l \in razorpay : l = k
      BY <2>1, <3>1, NoneAssumption DEF CourseInv, ChargeInv
    <3>3. razorpay = {k}
      BY <3>1, <3>2
    <3>4. Cardinality(razorpay) = 1
      BY <3>3, FS_Singleton
    <3>5. o \notin spent
      BY <2>1, <3>1 DEF CourseInv, ChargeInv
    <3> QED
      BY <3>4, <3>5
  <2> QED
    BY <2>2, <2>3
<1>2. SessionInv => OneCharge
  BY <1>1
<1> QED
  BY <1>2, SessionInvariant, PTL

\* Until then a quote that an accepted change has withdrawn is never approved
\* again, although other instances still hold its envelope (importSession,
\* approve).
THEOREM WithdrawnStaysDead == Spec => []WithdrawnIsDead
<1>1. ASSUME SessionInv
      PROVE  WithdrawnIsDead
  <2>1. SUFFICES ASSUME CourseInv, token # None
                 PROVE  token.s.approved \notin withdrawn
    BY <1>1 DEF WithdrawnIsDead, SessionInv
  <2>2. CASE token.order = order
    BY <2>1, <2>2 DEF CourseInv, LiveInv, Live
  <2>3. CASE token.order # order
    BY <2>1, <2>3 DEF CourseInv, AdriftInv, Adrift
  <2> QED
    BY <2>2, <2>3
<1>2. SessionInv => WithdrawnIsDead
  BY <1>1
<1> QED
  BY <1>2, SessionInvariant, PTL

\* Until then no reply of any instance shows a paid order as unpaid
\* (restoreSession and the page's setOrderState).
THEOREM PaidIsShownPaid == Spec => PaidUntilRolledBack
<1> DEFINE Stays == ~rolledBack /\ order' = order /\ shown \in PaidStates => shown' \in PaidStates
<1>1. ASSUME SessionInv, [Next]_vars
      PROVE  Stays
  <2>1. SUFFICES ASSUME FactsInv, CourseInv
                 PROVE  order' = order /\ shown \in PaidStates => shown' \in PaidStates
    BY <1>1 DEF SessionInv
  <2>2. ASSUME Deliver
        PROVE  shown \in PaidStates => shown' \in PaidStates
    <3>1. /\ Answering /\ reply.how # "crash" /\ reply \in Reply
          /\ shown' = (IF reply.state = None THEN shown ELSE reply.state)
      BY <2>1, <2>2 DEF Deliver, Answering, FactsInv, SessionTypeOK
    <3>2. CASE reply.how = "sealed"
      BY <2>1, <3>1, <3>2 DEF FactsInv, PageInv, CourseInv, LiveInv, Live, Sealed
    <3>3. CASE reply.how \in {"plain", "bare"}
      BY <2>1, <3>1, <3>3 DEF FactsInv, PageInv, CourseInv, PlainInv
    <3> QED
      BY <3>1, <3>2, <3>3 DEF Reply
  <2>3. ASSUME DeliverStart
        PROVE  order' # order
    BY <2>1, <2>3 DEF DeliverStart, FactsInv, StartInv, Starting
  <2>4. CASE UNCHANGED shown
    BY <2>4
  <2>5. CASE \E i \in Instances : Shop(i) \/ Buy(i)
    BY <2>4, <2>5 DEF Shop, Buy, Load, SendRestart, SendMessage, SendPatch, SendQuote, SendApprove,
                      SendInitiate, SendSettle, SendCompensate, SendVerify, SendFulfil, Request
  <2>6. CASE CustomerPays \/ Servers
    BY <2>4, <2>6 DEF CustomerPays, Servers, Webhook, Evict, ColdStart, pageVars
  <2>7. CASE Replies \/ Refreshing
    BY <2>2, <2>3, <2>4, <2>7 DEF Replies, Refreshing, DeliverRestart, LoseReply, RefreshArrives, ServeRefresh
  <2>8. CASE UNCHANGED vars
    BY <2>4, <2>8 DEF vars, pageVars
  <2> QED
    BY <1>1, <2>5, <2>6, <2>7, <2>8 DEF Next
<1>2. SessionInv /\ [Next]_vars => [Stays]_vars
  BY <1>1
<1> QED
  BY <1>2, SessionInvariant, PTL DEF Spec, PaidUntilRolledBack
=============================================================================
