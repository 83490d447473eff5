------------------------- MODULE MachineSpendProofs -------------------------
(***************************************************************************)
(* The client of the paid resource is charged a second time for a slot     *)
(* only where the first payment was misjudged, posts nothing but the       *)
(* payment the table retains, and shows only results that are paid, for    *)
(* any number of versions, payments and workers.                           *)
(*                                                                         *)
(* The argument: rows are only inserted by the staging call of the client, *)
(* which posts nothing meanwhile; it inserts into a slot in which every    *)
(* attempt has been given up as mismatched; a call that accepts works on   *)
(* the row that is bound to its payment.  So a slot has one attempt that   *)
(* is not mismatched, and an attempt that is mismatched on its own hash    *)
(* with its payer known has not been paid.                                 *)
(***************************************************************************)
EXTENDS MachineSpend, X402AnswerProofs, X402EvidenceProofs

\* The labels of a call that may still insert or stamp a row.
Intake == {"insert", "stage"}
Outside == {"idle"} \cup Intake

\* No further payment can be made for the attempt, and none was.
Closed(o) == rows[o].status \in {"absent", "mismatch"}

\* A row past its staging is bound to a payment signed for its slot.
RowBound(o) ==
    /\ rows[o].status = "absent" => rows[o].payload = None
    /\ rows[o].status \notin {"absent", "pending"} => rows[o].payload # None
    /\ rows[o].status # "released"
    /\ rows[o].payload # None =>
          /\ rows[o].payload \in signed
          /\ rows[o].pid = PidOf[rows[o].payload]
          /\ SlotOf[rows[o].payload] = SlotOfOp(o)

RowsBound == \A o \in Ops : RowBound(o)

\* The unique index on payment identifiers.
PidsOnce == \A o, q \in Ops : Present(o) /\ Present(q) /\ rows[o].pid = rows[q].pid => o = q

\* A slot has one attempt that can still be paid, or was.
OneOpen ==
    \A o, q \in Ops : SlotOfOp(o) = SlotOfOp(q) /\ ~Closed(o) /\ ~Closed(q) => o = q

\* A payment is sent only for a row that is bound to it.
SentBound ==
    \A p \in sent : \E o \in Ops : rows[o].payload = p /\ rows[o].status \notin Untouched

\* The chain settles only what was sent.
ChainBound == landed \subseteq sent /\ expired = {}

\* What is true of the table.
TableInv ==
    /\ RowsBound /\ PidsOnce /\ OneOpen
    /\ SentBound /\ ChainBound

\* A call past its intake works on the row that is bound to its payment.
Accepting ==
    \A w \in Workers : pc[w] \notin Outside => rows[job[w].op].payload = job[w].payload

\* A call in its intake is the one the client waits for to stage its payment.
Staging ==
    \A w \in Workers : pc[w] \in Intake =>
        /\ job[w].kind = "stage"
        /\ client.step = "stage" /\ client.worker = w /\ client.payload = job[w].payload
        /\ SlotOfOp(job[w].op) = SlotOf[job[w].payload]
        /\ pc[w] = "insert" => \A o \in Ops : SlotOfOp(o) = SlotOfOp(job[w].op) => Closed(o)
        /\ pc[w] = "stage" => rows[job[w].op].status = "pending" /\ rows[job[w].op].payload = None

\* The payment that the client posts, or waits for, is bound to a row.
Posting ==
    /\ client.step \in {"post", "wait"} =>
          client.payload # None /\ \E o \in Ops : rows[o].payload = client.payload
    /\ client.step = "stage" =>
          client.worker \in Workers /\ pc[client.worker] \in Intake /\ client.payload \in signed
    /\ client.step = "wait" =>
          /\ client.worker \in Workers /\ pc[client.worker] \notin Outside
          /\ job[client.worker].payload = client.payload
    /\ client.step \notin {"stage", "wait"} => client.worker = None

\* The scores of a session come from a settled row of their slot.
Scored(s) ==
    s.scores \in Slots =>
        \E o \in Ops : SlotOfOp(o) = s.scores /\ rows[o].status = "settled" /\ rows[o].tx \in landed

\* The types of what the client holds.
ClientType ==
    /\ session \in Session
    /\ client \in Client
    /\ signed \subseteq Payloads
    /\ mode \in Modes

\* The inductive invariant of the client and its table.
SpendInv ==
    /\ ClientType
    /\ TableInv
    /\ Accepting /\ Staging /\ Posting
    /\ PostedIsRetained
    /\ Scored(session) /\ Scored(client.saved)

\* What X402Accept guarantees of its state, whoever its callers are.
ServerInv == IndType /\ OperPaid /\ OnceInv /\ SettledIsPaid

---------------------------------------------------------------------------
(* The client makes no step that X402Accept does not have *)

\* Every step of the client is one of its calls, a step of the route or none.
LEMMA SpendStepIsStep ==
  ASSUME SpendInv, [SpendNext]_spendVars
  PROVE  [Next]_vars
<1>1. "accept" \in Kinds /\ "stage" \in Kinds
  BY SpendKindsAssumption
<1>2. CASE UNCHANGED spendVars
  BY <1>2 DEF spendVars
<1>3. CASE \E change, complete, fit, enough \in BOOLEAN : RespondMessage(change, complete, fit, enough)
  BY <1>3 DEF RespondMessage
<1>4. CASE Restart \/ FindAttempt \/ TransportFails
  BY <1>4 DEF Restart, FindAttempt, TransportFails
<1>5. ASSUME NEW w \in Workers, SignAndStage(w)
      PROVE  [Next]_vars
  <2>1. PICK p \in Payloads : Call(w, "stage", p, None)
    BY <1>5 DEF SignAndStage
  <2> QED
    BY <1>1, <2>1 DEF Next
<1>6. ASSUME NEW w \in Workers, Post(w)
      PROVE  [Next]_vars
  <2>1. Call(w, "accept", client.payload, None)
    BY <1>6 DEF Post
  <2>2. client.payload \in Payloads
    BY <1>6 DEF Post, SpendInv, Posting, ClientType, Client
  <2> QED
    BY <1>1, <2>1, <2>2 DEF Next
<1>7. ASSUME NEW w \in Workers, RouteStep(w) \/ RouteFails(w)
      PROVE  [Next]_vars
  <2>1. WorkerStep(w) \/ Crash(w)
    BY <1>7 DEF RouteStep, RouteFails
  <2> QED
    BY <2>1 DEF Next, Environment
<1>8. CASE ClientDies
  <2>1. CASE client.step = "stage"
    <3>1. Crash(client.worker) /\ client.worker \in Workers
      BY <1>8, <2>1 DEF ClientDies, SpendInv, Posting
    <3> QED
      BY <3>1 DEF Next, Environment
  <2>2. CASE client.step # "stage"
    BY <1>8, <2>2 DEF ClientDies
  <2> QED
    BY <2>1, <2>2
<1>9. CASE (\E p \in Payloads : Land(p)) \/ (\E o \in Ops : LapseLease(o))
  BY <1>9 DEF Next, Environment
<1> QED
  BY <1>2, <1>3, <1>4, <1>5, <1>6, <1>7, <1>8, <1>9 DEF SpendNext

---------------------------------------------------------------------------
(* What a step that inserts and stamps nothing does to the table *)

\* The step neither inserts, binds nor removes the row.
RowFixed(o) ==
    /\ rows'[o].payload = rows[o].payload
    /\ rows'[o].pid = rows[o].pid
    /\ rows'[o].status = "absent" <=> rows[o].status = "absent"
    /\ rows[o].status = "pending" /\ rows[o].payload = None => rows'[o] = rows[o]

\* The row keeps its payment, and payments sent are bound to a row.
TableStep ==
    /\ \A o \in Ops : RowFixed(o)
    /\ \A p \in sent' \ sent : \E o \in Ops : rows[o].payload = p /\ rows[o].status \notin Untouched
    /\ landed' \subseteq sent' /\ expired' = expired
    /\ signed \subseteq signed'

\* No open attempt comes in, and none changes its slot.
LEMMA ClosedStays ==
  ASSUME RowsStep, NEW o \in Ops, RowFixed(o), Closed(o)
  PROVE  Closed(o)'
  BY DEF RowsStep, RowStep, RowChange, RowFixed, Closed, InFlight

\* Such a step preserves what is true of the table.
LEMMA TablePreserved ==
  ASSUME RoleGuarded, ServerInv, TableInv, RowsStep, TableStep, NoneRejected'
  PROVE  TableInv'
<1>1. \A o \in Ops : RowFixed(o) /\ RowStep(o) /\ RowChange(rows[o], rows'[o])
  BY DEF TableStep, RowsStep, RowStep
<1>2. expired = {} /\ expired' = {}
  BY DEF TableInv, ChainBound, TableStep
<1>3. ASSUME NEW o \in Ops
      PROVE  RowBound(o)'
  <2>1. RowBound(o)
    BY DEF TableInv, RowsBound
  <2>2. rows'[o].status = "absent" => rows'[o].payload = None
    BY <1>1, <2>1 DEF RowFixed, RowBound
  <2>3. rows'[o].status \notin {"absent", "pending"} => rows'[o].payload # None
    <3>1. CASE rows[o].status = "pending" /\ rows[o].payload = None
      BY <1>1, <3>1 DEF RowFixed
    <3>2. CASE rows[o].status # "pending" \/ rows[o].payload # None
      BY <1>1, <2>1, <3>2 DEF RowFixed, RowBound
    <3> QED
      BY <3>1, <3>2
  <2>4. rows'[o].status # "released"
    BY <1>1, <1>2, <2>1 DEF RowStep, RowBound
  <2>5. rows'[o].payload # None =>
              /\ rows'[o].payload \in signed'
              /\ rows'[o].pid = PidOf[rows'[o].payload]
              /\ SlotOf[rows'[o].payload] = SlotOfOp(o)
    BY <1>1, <2>1 DEF RowFixed, RowBound, TableStep
  <2> QED
    BY <2>2, <2>3, <2>4, <2>5 DEF RowBound
<1>4. PidsOnce'
  BY <1>1 DEF TableInv, PidsOnce, Present, RowFixed
<1>5. OneOpen'
  <2>1. \A o \in Ops : Closed(o) => Closed(o)'
    BY <1>1, ClosedStays
  <2> QED
    BY <2>1 DEF TableInv, OneOpen
<1>6. SentBound'
  <2>1. \A o \in Ops : rows[o].status \notin Untouched => rows'[o].status \notin Untouched
    BY RowsPreserve DEF ServerInv
  <2>2. \A p \in sent' : \E o \in Ops : rows[o].payload = p /\ rows[o].status \notin Untouched
    BY DEF TableInv, SentBound, TableStep
  <2> QED
    BY <1>1, <2>1, <2>2 DEF SentBound, RowFixed
<1>7. ChainBound'
  BY <1>2 DEF TableInv, ChainBound, TableStep
<1> QED
  BY <1>3, <1>4, <1>5, <1>6, <1>7 DEF TableInv, RowsBound

\* Nor does it touch what has been paid.
LEMMA ScoredStays ==
  ASSUME RowsStep, ChainStep, NEW s, Scored(s)
  PROVE  Scored(s)'
<1>1. \A o \in Ops : rows[o].status = "settled" => rows'[o] = rows[o]
  BY DEF RowsStep, RowStep, RowChange, InFlight
<1>2. landed \subseteq landed'
  BY DEF ChainStep
<1> QED
  BY <1>1, <1>2 DEF Scored

---------------------------------------------------------------------------
(* The table, as a call past its intake writes it *)

\* The write of the worker of row o: its own row only, which keeps its payment.
OwnRow(o) ==
    /\ \A q \in Ops : q # o => rows'[q] = rows[q]
    /\ rows'[o].payload = rows[o].payload
    /\ rows'[o].pid = rows[o].pid
    /\ rows'[o].status = "absent" <=> rows[o].status = "absent"

\* No write at all.
LEMMA NoWrite ==
  ASSUME NEW o \in Ops, UNCHANGED rows
  PROVE  OwnRow(o)
  BY DEF OwnRow

\* A lease-bound transition of the worker's row.
LEMMA TransitionOwn ==
  ASSUME RoleGuarded, StoreTypeOK, NEW o \in Ops,
         NEW from \in SUBSET InFlight, NEW fence, NEW new \in Row,
         rows' = AfterTransition(o, from, fence, new),
         new.payload = rows[o].payload, new.pid = rows[o].pid,
         new.status # "absent"
  PROVE  OwnRow(o)
<1>1. rows[o] \in Row /\ rows \in [Ops -> Row]
  BY DEF StoreTypeOK
<1>2. CASE TransitionResult(o, from, fence, new) # "ok"
  BY <1>2, NoWrite DEF AfterTransition
<1>3. CASE TransitionResult(o, from, fence, new) = "ok"
  <2>1. rows' = [rows EXCEPT ![o] = Kept(new)]
    BY <1>3 DEF AfterTransition
  <2>2. rows[o].status \in from
    BY <1>3 DEF TransitionResult, HoldsLease
  <2>3. /\ Kept(new).status = new.status /\ Kept(new).payload = new.payload
        /\ Kept(new).pid = new.pid
    BY DEF Kept, Row
  <2>4. rows'[o] = Kept(new) /\ \A q \in Ops : q # o => rows'[q] = rows[q]
    BY <1>1, <2>1
  <2>5. rows[o].status # "absent" /\ rows'[o].status # "absent"
    BY <2>2, <2>3, <2>4 DEF InFlight
  <2> QED
    BY <2>3, <2>4, <2>5 DEF OwnRow
<1> QED
  BY <1>2, <1>3

\* A takeover or a claim of the worker's row.
LEMMA LeaseOwn ==
  ASSUME StoreTypeOK, NEW o \in Ops, NEW new \in Row,
         rows' = [rows EXCEPT ![o] = new],
         new.payload = rows[o].payload, new.pid = rows[o].pid,
         rows[o].status # "absent", new.status # "absent"
  PROVE  OwnRow(o)
<1>1. rows'[o] = new /\ \A q \in Ops : q # o => rows'[q] = rows[q]
  BY DEF StoreTypeOK
<1> QED
  BY <1>1 DEF OwnRow

\* What a call past its intake may write.
LEMMA WorkRows ==
  ASSUME RoleGuarded, IndType, Accepting, NEW w \in Workers, pc[w] \notin Outside, WorkerStep(w),
         NEW o \in Ops, o = job[w].op
  PROVE  OwnRow(o)
<1> DEFINE r == rows[o]
<1>1. StoreTypeOK /\ r \in Row /\ rows \in [Ops -> Row] /\ job[w] \in Job /\ pc[w] # "idle"
      /\ job[w].payload \in Payloads
  BY JobType DEF IndType, StoreTypeOK, Outside
<1>2. r.payload = job[w].payload
  BY DEF Accepting
<1>3. /\ {"settling"} \in SUBSET InFlight /\ InFlight \in SUBSET InFlight
      /\ {"awaiting_evidence"} \in SUBSET InFlight
  BY DEF InFlight
<1> DEFINE with(status) == [r EXCEPT !.status = status]
           withTx(status, h) == [r EXCEPT !.status = status, !.tx = h]
           withAll(h, b) == [r EXCEPT !.status = "awaiting_evidence", !.tx = h, !.payer = b]
<1>4. \A status \in AttemptStatus :
         /\ with(status) \in Row /\ with(status).payload = r.payload /\ with(status).pid = r.pid
         /\ with(status).status = status
  BY <1>1 DEF Row
<1>5. \A status \in AttemptStatus, h \in Payloads \cup {None} :
         /\ withTx(status, h) \in Row /\ withTx(status, h).payload = r.payload
         /\ withTx(status, h).pid = r.pid
         /\ withTx(status, h).status = status
  BY <1>1 DEF Row
<1>6. \A b \in BOOLEAN, h \in Payloads \cup {None} :
         /\ withAll(h, b) \in Row /\ withAll(h, b).payload = r.payload
         /\ withAll(h, b).pid = r.pid
         /\ withAll(h, b).status = "awaiting_evidence"
  BY ZenonT(60), <1>1 DEF Row, AttemptStatus
<1>7. ASSUME NEW h \in Reported[job[w].payload]
      PROVE  h \in Payloads
  BY <1>1, ReportedAssumption
<1>8. job[w].tx \in Payloads \cup {None} /\ job[w].payer \in BOOLEAN
  BY <1>1 DEF Job
<1>9. /\ {"pending", "rejected", "manual", "settled", "awaiting_evidence", "mismatch"} \subseteq AttemptStatus
      /\ "absent" \notin AttemptStatus
  BY DEF AttemptStatus
<1> HIDE DEF with, withTx, withAll
<1>10. ASSUME NEW status \in AttemptStatus, NEW fence,
              rows' = AfterTransition(o, {"settling"}, fence, with(status))
       PROVE  OwnRow(o)
  BY <1>1, <1>3, <1>4, <1>9, <1>10, TransitionOwn
<1>11. ASSUME NEW status \in AttemptStatus, NEW h \in Payloads \cup {None}, NEW fence,
              NEW from \in SUBSET InFlight,
              rows' = AfterTransition(o, from, fence, withTx(status, h))
       PROVE  OwnRow(o)
  BY <1>1, <1>5, <1>9, <1>11, TransitionOwn
<1>12. ASSUME NEW b \in BOOLEAN, NEW h \in Payloads \cup {None}, NEW fence,
              rows' = AfterTransition(o, {"settling"}, fence, withAll(h, b))
       PROVE  OwnRow(o)
  BY <1>1, <1>3, <1>6, <1>12, TransitionOwn
<1>13. CASE UNCHANGED rows
  BY <1>1, <1>13, NoWrite
<1>14. CASE Reopen(w) \/ Abandon(w) \/ VerifyInvalid(w)
  <2>1. \/ rows' = AfterTransition(o, {"settling"}, job[w].fence, with("pending"))
        \/ rows' = AfterTransition(o, {"settling"}, job[w].fence, with("rejected"))
    BY <1>14 DEF Reopen, Abandon, VerifyInvalid, with
  <2> QED
    BY <1>9, <1>10, <2>1
<1>15. CASE Blockhash(w) \/ \E named \in BOOLEAN : VerifyValid(w, named)
  <2> DEFINE hashed == [r EXCEPT !.blockhash = TRUE]
             payed == [r EXCEPT !.payer = TRUE]
  <2>1. \/ UNCHANGED rows
        \/ rows' = AfterTransition(o, {"settling"}, job[w].fence, hashed)
        \/ rows' = AfterTransition(o, {"settling"}, job[w].fence, payed)
    BY <1>15 DEF Blockhash, VerifyValid
  <2>2. /\ hashed \in Row /\ hashed.payload = r.payload /\ hashed.pid = r.pid
        /\ hashed.tx = r.tx /\ hashed.status = r.status
    BY <1>1 DEF Row
  <2>3. /\ payed \in Row /\ payed.payload = r.payload /\ payed.pid = r.pid
        /\ payed.tx = r.tx /\ payed.status = r.status
    BY <1>1 DEF Row
  <2> HIDE DEF hashed, payed
  <2>4. ASSUME NEW new \in Row, rows' = AfterTransition(o, {"settling"}, job[w].fence, new),
               new.payload = r.payload, new.pid = r.pid, new.tx = r.tx, new.status = r.status
        PROVE  OwnRow(o)
    <3>1. CASE r.status = "settling"
      BY <1>1, <1>3, <2>4, <3>1, TransitionOwn
    <3>2. CASE r.status # "settling"
      BY <1>13, <2>4, <3>2 DEF AfterTransition, TransitionResult, HoldsLease
    <3> QED
      BY <3>1, <3>2
  <2> QED
    BY <1>13, <2>1, <2>2, <2>3, <2>4
<1>16. CASE SettleFails(w)
  <2>1. \/ rows' = AfterTransition(o, {"settling"}, job[w].fence, with("manual"))
        \/ \E h \in Reported[job[w].payload] \cup {None} :
              rows' = AfterTransition(o, {"settling"}, job[w].fence, withTx("manual", h))
        \/ \E h \in Reported[job[w].payload], b \in {job[w].payer, TRUE} :
              rows' = AfterTransition(o, {"settling"}, job[w].fence, withAll(h, b))
    BY <1>16 DEF SettleFails, SettleOutcome, with, withTx, withAll
  <2> QED
    BY <1>3, <1>7, <1>8, <1>9, <1>10, <1>11, <1>12, <2>1
<1>17. CASE Complete(w) \/ LostFailClosed(w)
  <2>1. \/ rows' = AfterTransition(o, InFlight, job[w].fence, withTx("settled", job[w].tx))
        \/ rows' = AfterTransition(o, InFlight, job[w].fence, withTx("manual", job[w].tx))
        \/ rows' = AfterTransition(o, InFlight, job[w].fence, withTx("awaiting_evidence", job[w].tx))
    BY <1>17 DEF Complete, LostFailClosed, PersistSettled, FailClosed, withTx
  <2> QED
    BY <1>2, <1>3, <1>8, <1>9, <1>11, <2>1
<1>18. CASE Reconcile(w)
  <2>1. \/ rows' = AfterTransition(o, InFlight, job[w].fence, withTx("settled", job[w].tx))
        \/ rows' = AfterTransition(o, {"awaiting_evidence"}, job[w].fence, with("mismatch"))
        \/ UNCHANGED rows
    BY <1>18 DEF Reconcile, PersistSettled, withTx, with
  <2>2. ASSUME rows' = AfterTransition(o, {"awaiting_evidence"}, job[w].fence, with("mismatch"))
        PROVE  OwnRow(o)
    BY <1>1, <1>3, <1>4, <1>9, <2>2, TransitionOwn
  <2> QED
    BY <1>2, <1>3, <1>8, <1>9, <1>11, <1>13, <2>1, <2>2
<1>19. CASE TakeOver(w)
  <2> DEFINE new == TakenRow(r, FreshFence)
  <2>1. CASE CanTakeOver(o) /\ FenceAvailable /\ rows' = [rows EXCEPT ![o] = new]
    <3>1. /\ new \in Row /\ new.payload = r.payload /\ new.pid = r.pid /\ new.tx = r.tx
          /\ new.status = r.status
      BY <1>1, <2>1, FreshFenceType DEF TakenRow, Row
    <3>2. r.status \in InFlight
      BY <2>1 DEF CanTakeOver
    <3> HIDE DEF new
    <3> QED
      BY <1>1, <2>1, <3>1, <3>2, LeaseOwn DEF InFlight
  <2> QED
    BY <1>13, <1>19, <2>1 DEF TakeOver
<1>20. CASE Claim(w)
  <2> DEFINE new == ClaimedRow(r, FreshFence, job[w].payload)
  <2>1. CASE CanClaim(o) /\ FenceAvailable /\ rows' = [rows EXCEPT ![o] = new]
    <3>1. /\ new \in Row /\ new.payload = r.payload /\ new.pid = r.pid /\ new.tx = r.tx
          /\ new.status = "settling"
      <4>1. r.payload # None
        BY <1>1, <1>2, NoneAssumption
      <4>2. new = [r EXCEPT !.status = "settling", !.lease = "live", !.fence = FreshFence,
                            !.payload = r.payload]
        BY <4>1 DEF ClaimedRow
      <4>3. FreshFence \in Fences /\ r \in Row
        BY <1>1, <2>1, FreshFenceType
      <4> HIDE DEF new
      <4> QED
        BY ZenonT(60), <4>2, <4>3 DEF Row, AttemptStatus
    <3>2. r.status = "pending"
      BY <2>1 DEF CanClaim
    <3> HIDE DEF new
    <3> QED
      BY <1>1, <2>1, <3>1, <3>2, LeaseOwn
  <2> QED
    BY <1>13, <1>20, <2>1 DEF Claim
<1>21. CASE Insert(w) \/ Stage(w)
  BY <1>21 DEF Insert, Stage, Outside, Intake
<1>22. CASE Revalidate(w) \/ Submit(w) \/ SettleSucceeds(w) \/ LostWrite(w)
  BY <1>13, <1>22 DEF Revalidate, Submit, SettleSucceeds, LostWrite, storeVars
<1> QED
  BY <1>14, <1>15, <1>16, <1>17, <1>18, <1>19, <1>20, <1>21, <1>22 DEF WorkerStep

---------------------------------------------------------------------------
(* Where a call past its intake may go *)

\* Worker w goes on with row o and payment p, or has ended; the others rest.
Worked(w, o, p) ==
    /\ \A v \in Workers \ {w} : pc'[v] = pc[v] /\ job'[v] = job[v]
    /\ pc'[w] \notin Intake
    /\ pc'[w] # "idle" => job'[w].op = o /\ job'[w].payload = p

\* The call ends.
LEMMA EndWorked ==
  ASSUME LocalOK, NEW w \in Workers, NEW o, NEW p,
         pc' = [pc EXCEPT ![w] = "idle"], job' = [job EXCEPT ![w] = NoJob]
  PROVE  Worked(w, o, p)
  BY DEF LocalOK, Worked, NoJob, Intake

\* The call ends with a response.
LEMMA RespondWorked ==
  ASSUME LocalOK, NEW w \in Workers, NEW o, NEW p, NEW j, NEW s, Respond(w, j, s)
  PROVE  Worked(w, o, p)
  BY EndWorked DEF Respond

\* The call goes on with its row and payment.
LEMMA GotoWorked ==
  ASSUME LocalOK, NEW w \in Workers, NEW l, l \notin Intake, NEW j, Goto(w, l, j)
  PROVE  Worked(w, j.op, j.payload)
<1>1. /\ pc'[w] = l /\ job'[w] = j
      /\ \A v \in Workers \ {w} : pc'[v] = pc[v] /\ job'[v] = job[v]
  BY DEF Goto, LocalOK
<1> QED
  BY <1>1 DEF Worked

\* The call claims its row or gives up.
LEMMA NothingWorked ==
  ASSUME LocalOK, NEW w \in Workers, NEW j \in Job, JoinedNothing(w, j)
  PROVE  Worked(w, j.op, j.payload)
<1> DEFINE k == [NoJob EXCEPT !.kind = j.kind, !.payload = j.payload, !.op = j.op]
<1>1. k.op = j.op /\ k.payload = j.payload
  BY DEF NoJob
<1>2. Respond(w, j, 202) \/ Goto(w, "claim", k)
  BY DEF JoinedNothing
<1>3. "claim" \notin Intake
  BY DEF Intake
<1> HIDE DEF k
<1> QED
  BY <1>1, <1>2, <1>3, RespondWorked, GotoWorked

\* The call joins the row it has read.
LEMMA JoinWorked ==
  ASSUME LocalOK, NEW w \in Workers, NEW j \in Job, JoinStoredRow(w, j)
  PROVE  Worked(w, j.op, j.payload)
<1> DEFINE r == rows[j.op]
           k == [j EXCEPT !.seen = r.status, !.tx = r.tx, !.payer = r.payer, !.fence = None]
           m == [k EXCEPT !.fence = r.fence]
<1>1. /\ k.op = j.op /\ k.payload = j.payload
      /\ m.op = j.op /\ m.payload = j.payload
  BY DEF Job
<1>2. \/ Respond(w, j, JoinResponse(r.status)) \/ JoinedNothing(w, j)
      \/ Goto(w, "reconcile", m) \/ Goto(w, "takeover", k)
  BY DEF JoinStoredRow
<1>3. "reconcile" \notin Intake /\ "takeover" \notin Intake
  BY DEF Intake
<1> HIDE DEF k, m
<1> QED
  BY <1>1, <1>2, <1>3, RespondWorked, NothingWorked, GotoWorked

\* Every step of a call past its intake.
LEMMA WorkMoves ==
  ASSUME IndType, NEW w \in Workers, pc[w] \notin Outside, WorkerStep(w),
         NEW o \in Ops, o = job[w].op, NEW p \in Payloads, p = job[w].payload
  PROVE  Worked(w, o, p)
<1> DEFINE j == job[w]
           again == [j EXCEPT !.retry = TRUE]
           fenced == [j EXCEPT !.fence = FreshFence]
           payed == [j EXCEPT !.payer = TRUE]
           named(h) == [j EXCEPT !.tx = h, !.payer = TRUE]
<1>1. LocalOK /\ j \in Job /\ rows[o] \in Row
  BY DEF IndType, LocalOK, StoreTypeOK
<1>4. /\ again \in Job /\ again.op = o /\ again.payload = p
      /\ fenced.op = o /\ fenced.payload = p
      /\ payed.op = o /\ payed.payload = p
      /\ \A h : named(h).op = o /\ named(h).payload = p
  BY <1>1 DEF Job
<1>6. Intake \cap {"claim", "reopen", "reconcile", "abandon", "revalidate", "blockhash", "verify",
                   "submit", "revalidate2", "settle", "complete", "lost", "failclosed"} = {}
  BY DEF Intake
<1> HIDE DEF j, again, fenced, payed, named
<1>7. j.op = o /\ j.payload = p
  BY DEF j
<1>8. ASSUME NEW l, l \notin Intake, Goto(w, l, j) \/ Goto(w, l, fenced) \/ Goto(w, l, payed)
      PROVE  Worked(w, o, p)
  BY <1>1, <1>4, <1>7, <1>8, GotoWorked
<1>9. ASSUME NEW s, Respond(w, j, s)
      PROVE  Worked(w, o, p)
  BY <1>1, <1>9, RespondWorked
<1>10. ASSUME JoinedNothing(w, j)
       PROVE  Worked(w, o, p)
  BY <1>1, <1>7, <1>10, NothingWorked
<1>11. ASSUME JoinStoredRow(w, j) \/ Rejoin(w)
       PROVE  Worked(w, o, p)
  <2>1. JoinStoredRow(w, j) \/ JoinStoredRow(w, again)
    BY <1>11 DEF Rejoin, j, again
  <2> QED
    BY <1>1, <1>4, <1>7, <2>1, JoinWorked
<1>12. CASE TakeOver(w) \/ Reopen(w)
  <2>1. \/ Goto(w, "reopen", fenced) \/ Goto(w, "reconcile", fenced)
        \/ Respond(w, j, 202) \/ Respond(w, j, 500)
        \/ JoinedNothing(w, j) \/ JoinStoredRow(w, j)
    BY <1>12 DEF TakeOver, Reopen, fenced, j
  <2> QED
    BY <1>6, <1>8, <1>9, <1>10, <1>11, <2>1
<1>13. CASE Claim(w) \/ Abandon(w) \/ Blockhash(w) \/ Revalidate(w)
  <2>1. \/ \E l \in {"abandon", "revalidate", "blockhash"} : Goto(w, l, fenced)
        \/ \E l \in {"revalidate", "verify", "submit"} : Goto(w, l, j)
        \/ Respond(w, j, 409) \/ Respond(w, j, 500)
        \/ Rejoin(w)
    BY <1>13 DEF Claim, Abandon, Blockhash, Revalidate, fenced, j
  <2> QED
    BY <1>6, <1>8, <1>9, <1>11, <2>1
<1>14. CASE VerifyInvalid(w) \/ \E name \in BOOLEAN : VerifyValid(w, name)
  <2>1. \/ Respond(w, j, 402) \/ Respond(w, j, 500)
        \/ Goto(w, "revalidate2", j) \/ Goto(w, "revalidate2", payed)
        \/ Rejoin(w)
    BY <1>14 DEF VerifyInvalid, VerifyValid, payed, j
  <2> QED
    BY <1>6, <1>8, <1>9, <1>11, <2>1
<1>15. CASE Submit(w) \/ SettleFails(w)
  <2>1. Goto(w, "settle", j) \/ Respond(w, j, 202) \/ Respond(w, j, 502)
    BY <1>15 DEF Submit, SettleFails, SettleOutcome, j
  <2> QED
    BY <1>6, <1>8, <1>9, <2>1
<1>16. CASE SettleSucceeds(w)
  <2>1. PICK h \in Reported[p] : Goto(w, "complete", named(h))
    BY <1>16 DEF SettleSucceeds, named, j
  <2> QED
    BY <1>1, <1>4, <1>6, <2>1, GotoWorked
<1>17. CASE Complete(w) \/ LostWrite(w) \/ LostFailClosed(w) \/ Reconcile(w)
  <2>1. \/ \E l \in {"lost", "failclosed"} : Goto(w, l, j)
        \/ \E s : Respond(w, j, s)
    BY <1>17 DEF Complete, LostWrite, LostFailClosed, Reconcile, PersistSettled, FailClosed, j
  <2> QED
    BY <1>6, <1>8, <1>9, <2>1
<1>18. CASE Insert(w) \/ Stage(w)
  BY <1>18 DEF Insert, Stage, Outside, Intake
<1> QED
  BY <1>12, <1>13, <1>14, <1>15, <1>16, <1>17, <1>18 DEF WorkerStep

---------------------------------------------------------------------------
(* The table over a step *)

\* The guarantees of X402Accept over a step of the client.
LEMMA ServerStep ==
  ASSUME RoleGuarded, ServerInv, SpendInv, [SpendNext]_spendVars
  PROVE  ServerInv' /\ RowsStep /\ ChainStep
<1>1. [Next]_vars
  BY SpendStepIsStep
<1>2. IndType' /\ OperPaid' /\ RowsStep /\ ChainStep
  BY <1>1, NextStep DEF ServerInv, StepOK
<1>3. OnceInv'
  BY <1>1, OnceStep DEF ServerInv
<1>4. SettledIsPaid'
  BY <1>2 DEF ServerInv, SettledIsPaid, RowsStep, RowStep, Paid, ChainStep
<1> QED
  BY <1>2, <1>3, <1>4 DEF ServerInv

\* A step that writes no row and sends nothing.
LEMMA QuietTable ==
  ASSUME TableInv, UNCHANGED <<rows, sent, expired>>, landed' \subseteq sent, signed \subseteq signed'
  PROVE  TableInv'
<1>1. RowsBound'
  <2>1. ASSUME NEW o \in Ops
        PROVE  RowBound(o)'
    <3>1. RowBound(o)
      BY DEF TableInv, RowsBound
    <3> QED
      BY <3>1 DEF RowBound
  <2> QED
    BY <2>1 DEF RowsBound
<1>2. PidsOnce'
  BY DEF TableInv, PidsOnce, Present
<1>3. OneOpen'
  BY DEF TableInv, OneOpen, Closed
<1>4. SentBound' /\ ChainBound'
  BY DEF TableInv, SentBound, ChainBound
<1> QED
  BY <1>1, <1>2, <1>3, <1>4 DEF TableInv

\* A call past its intake writes its own row and sends its own payment.
LEMMA WorkTable ==
  ASSUME RoleGuarded, ServerInv, TableInv, RowsStep, NoneRejected', Accepting,
         NEW w \in Workers, pc[w] \notin Outside, WorkerStep(w), signed \subseteq signed'
  PROVE  TableInv' /\ \A q \in Ops : RowFixed(q)
<1>0. PICK o \in Ops : o = job[w].op /\ pc[w] # "idle" /\ job[w].payload \in Payloads
  BY JobType DEF ServerInv, Outside
<1>1. OwnRow(o)
  BY <1>0, WorkRows DEF ServerInv
<1>2. rows[o].payload = job[w].payload /\ rows[o].payload # None
  BY <1>0, NoneAssumption DEF Accepting
<1>3. ASSUME NEW q \in Ops
      PROVE  RowFixed(q)
  <2>1. CASE q = o
    BY <1>1, <1>2, <2>1 DEF OwnRow, RowFixed
  <2>2. CASE q # o
    <3>1. rows'[q] = rows[q]
      BY <1>1, <2>2 DEF OwnRow
    <3> QED
      BY <3>1 DEF RowFixed
  <2> QED
    BY <2>1, <2>2
<1>4. \A p \in sent' \ sent : \E q \in Ops : rows[q].payload = p /\ rows[q].status \notin Untouched
  <2>1. CASE Submit(w)
    <3>1. sent' = sent \cup {job[w].payload} /\ pc[w] \in PreSubmit
      BY <2>1 DEF Submit, PreSubmit
    <3>2. rows[o].status \notin Untouched
      BY <1>0, <3>1 DEF ServerInv, OnceInv, ClaimerUnsent
    <3> QED
      BY <1>2, <3>1, <3>2
  <2>2. CASE ~Submit(w)
    <3>1. sent' = sent
      BY <2>2 DEF WorkerStep, Insert, Stage, TakeOver, Reopen, Claim, Abandon, Blockhash, Revalidate,
         VerifyInvalid, VerifyValid, SettleFails, SettleSucceeds, Complete, LostWrite,
         LostFailClosed, Reconcile, chainVars
    <3> QED
      BY <3>1
  <2> QED
    BY <2>1, <2>2
<1>5. sent \subseteq sent' /\ landed' = landed /\ expired' = expired
  BY DEF WorkerStep, Insert, Stage, TakeOver, Reopen, Claim, Abandon, Blockhash, Revalidate,
     VerifyInvalid, VerifyValid, Submit, SettleFails, SettleSucceeds, Complete, LostWrite,
     LostFailClosed, Reconcile, chainVars
<1>6. landed' \subseteq sent'
  BY <1>5 DEF TableInv, ChainBound
<1>8. TableStep
  BY <1>3, <1>4, <1>5, <1>6 DEF TableStep
<1> QED
  BY <1>3, <1>8, TablePreserved

\* A lease that lapses leaves everything else of its row.
LEMMA LapseTable ==
  ASSUME RoleGuarded, ServerInv, TableInv, RowsStep, NoneRejected',
         NEW o \in Ops, LapseLease(o), UNCHANGED signed
  PROVE  TableInv' /\ \A q \in Ops : RowFixed(q)
<1> DEFINE new == [rows[o] EXCEPT !.lease = "lapsed"]
<1>1. rows \in [Ops -> Row] /\ rows' = [rows EXCEPT ![o] = new] /\ UNCHANGED <<sent, landed, expired>>
  BY DEF ServerInv, IndType, StoreTypeOK, LapseLease, chainVars
<1>2. /\ new.status = rows[o].status /\ new.pid = rows[o].pid /\ new.payload = rows[o].payload
      /\ new.tx = rows[o].tx
  BY <1>1 DEF Row
<1>3. rows[o].status \in InFlight
  BY DEF LapseLease
<1> HIDE DEF new
<1>4. rows'[o] = new /\ \A q \in Ops : q # o => rows'[q] = rows[q]
  BY <1>1
<1>5. ASSUME NEW q \in Ops
      PROVE  RowFixed(q)
  <2>1. CASE q = o
    BY <1>2, <1>3, <1>4, <2>1 DEF RowFixed, InFlight
  <2>2. CASE q # o
    <3>1. rows'[q] = rows[q]
      BY <1>4, <2>2
    <3> QED
      BY <3>1 DEF RowFixed
  <2> QED
    BY <2>1, <2>2
<1>7. TableStep
  BY <1>1, <1>5 DEF TableStep, TableInv, ChainBound
<1> QED
  BY <1>5, <1>7, TablePreserved

\* A new attempt comes into a slot whose attempts are closed.
LEMMA InsertTable ==
  ASSUME ServerInv, TableInv, NEW o \in Ops, NEW pid \in Pids, ~InsertConflict(o, pid),
         rows' = [rows EXCEPT ![o] = NewRow(pid)],
         \A q \in Ops : SlotOfOp(q) = SlotOfOp(o) => Closed(q),
         UNCHANGED <<sent, landed, expired>>, signed \subseteq signed'
  PROVE  TableInv'
<1> DEFINE new == NewRow(pid)
<1>1. rows'[o] = new /\ \A q \in Ops : q # o => rows'[q] = rows[q]
  BY DEF ServerInv, IndType, StoreTypeOK
<1>2. new.status = "pending" /\ new.pid = pid /\ new.payload = None /\ new.tx = None
  BY DEF NewRow, AbsentRow
<1>3. ~Present(o) /\ \A q \in Ops : Present(q) => rows[q].pid # pid
  BY DEF InsertConflict, FindByPaymentId
<1>4. rows[o].payload = None
  BY <1>3 DEF TableInv, RowsBound, RowBound, Present
<1> HIDE DEF new
<1>5. ASSUME NEW q \in Ops
      PROVE  RowBound(q)'
  <2>1. CASE q = o
    BY <1>1, <1>2, <2>1 DEF RowBound
  <2>2. CASE q # o
    <3>1. RowBound(q) /\ rows'[q] = rows[q]
      BY <1>1, <2>2 DEF TableInv, RowsBound
    <3> QED
      BY <3>1 DEF RowBound
  <2> QED
    BY <2>1, <2>2
<1>6. PidsOnce'
  BY <1>1, <1>2, <1>3 DEF TableInv, PidsOnce, Present
<1>7. OneOpen'
  BY <1>1 DEF TableInv, OneOpen, Closed
<1>8. SentBound' /\ ChainBound'
  BY <1>1, <1>4, NoneAssumption DEF TableInv, SentBound, ChainBound, ServerInv, IndType, ChainOK
<1> QED
  BY <1>5, <1>6, <1>7, <1>8 DEF TableInv, RowsBound

\* The staged payment goes into a pending attempt that has none.
LEMMA StampTable ==
  ASSUME ServerInv, TableInv, NEW o \in Ops, NEW p \in signed, p \in Payloads,
         rows[o].status = "pending", rows[o].payload = None,
         rows[o].pid = PidOf[p], SlotOf[p] = SlotOfOp(o),
         rows' = [rows EXCEPT ![o] = StagedRow(rows[o], PidOf[p], p)],
         UNCHANGED <<sent, landed, expired>>, signed \subseteq signed'
  PROVE  TableInv'
<1> DEFINE new == StagedRow(rows[o], PidOf[p], p)
<1>1. /\ rows'[o] = new /\ \A q \in Ops : q # o => rows'[q] = rows[q]
      /\ rows[o] \in Row
  BY DEF ServerInv, IndType, StoreTypeOK
<1>2. new.status = "pending" /\ new.pid = rows[o].pid /\ new.payload = p /\ new.tx = rows[o].tx
  BY <1>1 DEF StagedRow, Row
<1> HIDE DEF new
<1>3. ASSUME NEW q \in Ops
      PROVE  RowBound(q)'
  <2>1. CASE q = o
    <3>1. p \in signed'
      OBVIOUS
    <3> QED
      BY <1>1, <1>2, <2>1, <3>1 DEF RowBound
  <2>2. CASE q # o
    <3>1. RowBound(q) /\ rows'[q] = rows[q]
      BY <1>1, <2>2 DEF TableInv, RowsBound
    <3> QED
      BY <3>1 DEF RowBound
  <2> QED
    BY <2>1, <2>2
<1>4. PidsOnce'
  BY <1>1, <1>2 DEF TableInv, PidsOnce, Present
<1>5. OneOpen'
  BY <1>1, <1>2 DEF TableInv, OneOpen, Closed
<1>6. SentBound' /\ ChainBound'
  BY <1>1, <1>2, NoneAssumption DEF TableInv, SentBound, ChainBound, ServerInv, IndType, ChainOK
<1> QED
  BY <1>3, <1>4, <1>5, <1>6 DEF TableInv, RowsBound

---------------------------------------------------------------------------
(* The workers and the client over a step *)

\* No row loses its payment.
PayloadsStay == \A o \in Ops : rows[o].payload # None => rows'[o].payload = rows[o].payload

\* Calls that this step does not move stay on their rows.
LEMMA AcceptingStays ==
  ASSUME IndType, Accepting, PayloadsStay,
         \A v \in Workers : pc'[v] \notin Outside =>
             \/ pc'[v] = pc[v] /\ job'[v] = job[v]
             \/ rows'[job'[v].op].payload = job'[v].payload
  PROVE  Accepting'
<1> SUFFICES ASSUME NEW v \in Workers, pc'[v] = pc[v], job'[v] = job[v], pc[v] \notin Outside
             PROVE  rows'[job[v].op].payload = job[v].payload
  BY DEF Accepting
<1>1. job[v].op \in Ops /\ job[v].payload # None
  BY JobType, NoneAssumption DEF Outside
<1> QED
  BY <1>1 DEF Accepting, PayloadsStay

\* The attempts of a staging call stay as they are while others work.
LEMMA StagingStays ==
  ASSUME IndType, Staging, RowsStep, \A o \in Ops : RowFixed(o),
         \A v \in Workers : pc'[v] \in Intake =>
             /\ pc'[v] = pc[v] /\ job'[v] = job[v]
             /\ client'.step = client.step /\ client'.worker = client.worker
             /\ client'.payload = client.payload
  PROVE  Staging'
<1> SUFFICES ASSUME NEW v \in Workers, pc[v] \in Intake, pc'[v] = pc[v], job'[v] = job[v]
             PROVE  /\ pc[v] = "insert" => \A o \in Ops : SlotOfOp(o) = SlotOfOp(job[v].op) => Closed(o)'
                    /\ pc[v] = "stage" => /\ rows'[job[v].op].status = "pending"
                                          /\ rows'[job[v].op].payload = None
  BY DEF Staging, Closed
<1>1. job[v].op \in Ops
  BY JobType DEF Intake
<1>2. \A o \in Ops : Closed(o) => Closed(o)'
  BY ClosedStays
<1>3. pc[v] = "insert" => \A o \in Ops : SlotOfOp(o) = SlotOfOp(job[v].op) => Closed(o)'
  BY <1>2 DEF Staging
<1>4. pc[v] = "stage" => rows'[job[v].op] = rows[job[v].op]
  BY <1>1 DEF Staging, RowFixed
<1> QED
  BY <1>3, <1>4 DEF Staging

\* No attempt comes in beside the payment that the client has posted.
LEMMA RetainedStays ==
  ASSUME PostedIsRetained, RowsStep, \A o \in Ops : RowFixed(o),
         client'.step \in {"post", "wait"} =>
             client.step \in {"post", "wait"} /\ client'.payload = client.payload
  PROVE  PostedIsRetained'
<1>1. \A o \in Ops : Active(o)' => Active(o)
  BY DEF Active, Present, RowFixed, RowsStep, RowStep, RowChange, TerminalResolved, InFlight
<1>2. \A o \in Ops : rows'[o].payload = rows[o].payload
  BY DEF RowFixed
<1> QED
  BY <1>1, <1>2 DEF PostedIsRetained, FindActiveAttempt

\* The result shown stays paid.
LEMMA ScoresKept ==
  ASSUME RowsStep, ChainStep
  PROVE  \A s \in Session : Scored(s) => Scored(s)'
  BY ScoredStays

\* A client that is idle owes the table nothing.
LEMMA IdleClient ==
  ASSUME client'.step \in {"idle", "find", "sign"}, client'.worker = None
  PROVE  Posting' /\ PostedIsRetained'
  BY DEF Posting, PostedIsRetained

\* Idle(s) is a state of the client.
LEMMA IdleType ==
  ASSUME NEW s \in Session
  PROVE  /\ Idle(s) \in Client /\ Idle(s).step = "idle" /\ Idle(s).worker = None
         /\ Idle(s).saved = s
  BY DEF Idle, Client

\* A client that is not staging has no call in its intake.
LEMMA QuietClient ==
  ASSUME TableInv, Accepting, Staging, client.step # "stage", UNCHANGED <<vars, signed>>
  PROVE  TableInv' /\ Accepting' /\ Staging'
<1>1. UNCHANGED <<rows, pc, job, sent, landed, expired>>
  BY DEF vars
<1>2. TableInv'
  <2>1. landed' \subseteq sent
    BY <1>1 DEF TableInv, ChainBound
  <2> QED
    BY <1>1, <2>1, QuietTable
<1>3. Accepting'
  BY <1>1 DEF Accepting
<1>4. Staging'
  BY <1>1 DEF Staging
<1> QED
  BY <1>2, <1>3, <1>4

---------------------------------------------------------------------------
(* The steps of the client between its calls *)

\* The respond call returns with session s.
LEMMA ReturnInv ==
  ASSUME TableInv', Accepting', Staging', NEW s \in Session, Scored(s)', Return(s),
         signed' \subseteq Payloads, mode' \in Modes
  PROVE  SpendInv'
<1>1. session' = s /\ client' = Idle(s)
  BY DEF Return
<1>2. client' \in Client /\ client'.step = "idle" /\ client'.worker = None /\ client'.saved = s
  BY <1>1, IdleType
<1>3. Posting' /\ PostedIsRetained'
  BY <1>2, IdleClient
<1>4. ClientType'
  BY <1>1, <1>2 DEF ClientType
<1>5. Scored(session)' /\ Scored(client.saved)'
  BY <1>1, <1>2 DEF Scored
<1> QED
  BY <1>3, <1>4, <1>5 DEF SpendInv

\* The fields that a step of the client writes keep their types.
LEMMA SessionType ==
  ASSUME NEW s \in Session
  PROVE  /\ \A m \in {"none", "pending", "manual", "rejected", "settled"},
               v \in Slots \cup {"mock", None} :
               /\ [s EXCEPT !.mirror = m, !.scores = v] \in Session
               /\ [s EXCEPT !.mirror = m, !.scores = v].scores = v
         /\ \A m \in {"none", "pending", "manual", "rejected", "settled"} :
               /\ [s EXCEPT !.mirror = m] \in Session
               /\ [s EXCEPT !.mirror = m].scores = s.scores
         /\ \A b \in BOOLEAN, n \in 1..Len(Versions) :
               /\ [s EXCEPT !.ranked = b, !.version = n] \in Session
               /\ [s EXCEPT !.ranked = b, !.version = n].scores = s.scores
         /\ [s EXCEPT !.scores = "mock"] \in Session
         /\ [s EXCEPT !.scores = "mock"].scores = "mock"
  BY DEF Session

\* "Start over" keeps the result and the mirror.
LEMMA RestartStep ==
  ASSUME ServerInv, SpendInv, RowsStep, ChainStep, Restart
  PROVE  SpendInv'
<1> DEFINE t == [session EXCEPT !.version = 1, !.ranked = FALSE]
<1>1. session \in Session /\ UNCHANGED vars /\ UNCHANGED <<signed, mode>> /\ client.step = "idle"
  BY DEF SpendInv, ClientType, Restart
<1>2. TableInv' /\ Accepting' /\ Staging'
  BY <1>1, QuietClient DEF SpendInv
<1>3. 1 \in 1..Len(Versions)
  BY <1>1, VersionsAssumption DEF Session
<1>4. t \in Session /\ t.scores = session.scores
  BY <1>1, <1>3 DEF Session
<1>5. Return(t)
  BY DEF Restart, Return
<1> HIDE DEF t
<1>6. PICK s \in Session : s = t /\ s.scores = session.scores
  BY <1>4
<1>7. Scored(s)
  BY <1>6 DEF SpendInv, Scored
<1>8. Scored(s)'
  BY <1>7, ScoresKept
<1>9. signed' \subseteq Payloads /\ mode' \in Modes
  BY <1>1 DEF SpendInv, ClientType
<1>10. Return(s)
  BY <1>5, <1>6
<1> QED
  BY <1>2, <1>8, <1>9, <1>10, ReturnInv

\* A message ends with the ranking, with the mock's result or with the search
\* for an attempt.
LEMMA MessageStep ==
  ASSUME ServerInv, SpendInv, RowsStep, ChainStep,
         NEW change \in BOOLEAN, NEW complete \in BOOLEAN, NEW fit \in BOOLEAN, NEW enough \in BOOLEAN,
         RespondMessage(change, complete, fit, enough)
  PROVE  SpendInv'
<1> DEFINE t == [session EXCEPT !.ranked = complete, !.version = IF change THEN @ + 1 ELSE @]
           n == IF change THEN session.version + 1 ELSE session.version
<1>1. /\ session \in Session /\ UNCHANGED vars /\ UNCHANGED <<signed, mode>> /\ client.step = "idle"
      /\ client \in Client
  BY DEF SpendInv, ClientType, RespondMessage
<1>2. TableInv' /\ Accepting' /\ Staging'
  BY <1>1, QuietClient DEF SpendInv
<1>3. Len(Versions) \in Nat /\ session.version \in 1..Len(Versions)
      /\ (change => session.version < Len(Versions))
  BY <1>1, VersionsAssumption DEF Session, RespondMessage
<1>4. n \in 1..Len(Versions)
  BY <1>3
<1>5. t = [session EXCEPT !.ranked = complete, !.version = n]
  BY <1>1 DEF Session
<1>6. \/ session' = t /\ client' = Idle(t)
      \/ session' = t /\ client' = [client EXCEPT !.step = "find"]
      \/ session' = [t EXCEPT !.scores = "mock"] /\ client' = Idle(session')
  BY DEF RespondMessage, MockSpend
<1> HIDE DEF t, n
<1>7. t \in Session /\ t.scores = session.scores
  BY <1>1, <1>4, <1>5 DEF Session
<1>8. PICK s \in Session : s = t /\ s.scores = session.scores
  BY <1>7
<1>9. Scored(s) /\ Scored(client.saved)
  BY <1>8 DEF SpendInv, Scored
<1>10. signed' \subseteq Payloads /\ mode' \in Modes
  BY <1>1 DEF SpendInv, ClientType
<1>11. CASE session' = t /\ client' = Idle(t)
  <2>1. Return(s)
    BY <1>8, <1>11 DEF Return
  <2>2. Scored(s)'
    BY <1>9, ScoresKept
  <2> QED
    BY <1>2, <1>10, <2>1, <2>2, ReturnInv
<1>12. CASE session' = t /\ client' = [client EXCEPT !.step = "find"]
  <2>1. /\ client' \in Client /\ client'.step = "find" /\ client'.worker = client.worker
        /\ client'.saved = client.saved /\ client.saved \in Session
    BY <1>1, <1>12 DEF Client
  <2>2. client.worker = None
    BY <1>1 DEF SpendInv, Posting
  <2>3. Posting' /\ PostedIsRetained'
    BY <2>1, <2>2, IdleClient
  <2>4. ClientType'
    BY <1>7, <1>10, <1>12, <2>1 DEF ClientType
  <2>5. Scored(s)' /\ session' = s
    BY <1>8, <1>9, <1>12, ScoresKept
  <2>6. PICK u \in Session : u = client.saved /\ client'.saved = u
    BY <2>1
  <2>7. Scored(u)'
    BY <1>9, <2>6, ScoresKept
  <2>8. Scored(session)' /\ Scored(client.saved)'
    BY <2>5, <2>6, <2>7 DEF Scored
  <2> QED
    BY <1>2, <2>3, <2>4, <2>8 DEF SpendInv
<1>13. CASE session' = [t EXCEPT !.scores = "mock"] /\ client' = Idle(session')
  <2>1. PICK u \in Session : u = [t EXCEPT !.scores = "mock"] /\ u.scores = "mock"
    BY ZenonT(60), <1>7, SessionType
  <2>2. Return(u)
    BY <1>13, <2>1 DEF Return
  <2>3. Scored(u)'
    BY <2>1, SpendNoneAssumption DEF Scored
  <2> QED
    BY <1>2, <1>10, <2>2, <2>3, ReturnInv
<1> QED
  BY <1>6, <1>11, <1>12, <1>13

\* findActiveAttempt of the current version finds the one attempt to go on with.
LEMMA FindStep ==
  ASSUME ServerInv, SpendInv, RowsStep, ChainStep, FindAttempt
  PROVE  SpendInv'
<1>1. /\ session \in Session /\ UNCHANGED vars /\ UNCHANGED <<signed, mode>> /\ client.step = "find"
      /\ client \in Client /\ UNCHANGED rows
  BY DEF SpendInv, ClientType, FindAttempt, vars
<1>2. TableInv' /\ Accepting' /\ Staging'
  BY <1>1, QuietClient DEF SpendInv
<1>3. signed' \subseteq Payloads /\ mode' \in Modes
  BY <1>1 DEF SpendInv, ClientType
<1>4. client.worker = None
  BY <1>1 DEF SpendInv, Posting
<1>5. PICK s \in Session : s = session
  BY <1>1
<1>6. PICK u \in Session : u = client.saved
  BY <1>1 DEF Client
<1>7. Scored(s)' /\ Scored(u)'
  BY <1>5, <1>6, ScoresKept DEF SpendInv
<1>8. CASE Return(session)
  <2>1. Return(s)
    BY <1>5, <1>8
  <2> QED
    BY <1>2, <1>3, <1>7, <2>1, ReturnInv
<1>9. CASE \E pid \in Pids \cup {None} :
              client' = [client EXCEPT !.step = "sign", !.pid = pid] /\ UNCHANGED session
  <2>1. /\ client' \in Client /\ client'.step = "sign" /\ client'.worker = client.worker
        /\ client'.saved = u
    BY <1>1, <1>6, <1>9 DEF Client
  <2>2. Posting' /\ PostedIsRetained'
    BY <1>4, <2>1, IdleClient
  <2>3. ClientType'
    BY <1>1, <1>3, <1>9, <2>1 DEF ClientType
  <2>4. Scored(session)' /\ Scored(client.saved)'
    BY <1>5, <1>7, <1>9, <2>1 DEF Scored
  <2> QED
    BY <1>2, <2>2, <2>3, <2>4 DEF SpendInv
<1>10. ASSUME NEW o \in FindActiveAttempt(CurrentSlot), rows[o].payload # None,
              session' = [session EXCEPT !.mirror = "pending"],
              client' = [client EXCEPT !.step = "post", !.payload = rows[o].payload]
       PROVE  SpendInv'
  <2>1. /\ o \in Ops /\ SlotOfOp(o) = CurrentSlot /\ Active(o) /\ rows[o].payload \in Payloads
    BY <1>10 DEF FindActiveAttempt, ServerInv, IndType, StoreTypeOK, Row
  <2>2. /\ client' \in Client /\ client'.step = "post" /\ client'.worker = client.worker
        /\ client'.saved = u /\ client'.payload = rows[o].payload
    BY <1>1, <1>6, <1>10, <2>1 DEF Client
  <2>3. SlotOf[rows[o].payload] = SlotOfOp(o)
    BY <1>10, <2>1 DEF SpendInv, TableInv, RowsBound, RowBound
  <2>4. Posting'
    BY <1>1, <1>4, <1>10, <2>1, <2>2 DEF Posting
  <2>5. \A q \in FindActiveAttempt(SlotOfOp(o)) : q = o
    BY <2>1 DEF FindActiveAttempt, Active, Present, TerminalResolved, SpendInv, TableInv, OneOpen, Closed
  <2>6. FindActiveAttempt(SlotOfOp(o))' = FindActiveAttempt(SlotOfOp(o))
    BY <1>1 DEF FindActiveAttempt, Active, Present
  <2>7. PostedIsRetained'
    BY <1>1, <2>2, <2>3, <2>5, <2>6 DEF PostedIsRetained
  <2>8. session' \in Session /\ session'.scores = s.scores
    <3>1. PICK m : m = "pending"
      OBVIOUS
    <3>2. session' = [s EXCEPT !.mirror = m] /\ m \in {"none", "pending"}
      BY <1>5, <1>10, <3>1
    <3> QED
      BY <3>2 DEF Session
  <2>9. ClientType'
    BY <1>3, <2>2, <2>8 DEF ClientType
  <2>10. Scored(session)' /\ Scored(client.saved)'
    BY <1>7, <2>2, <2>8 DEF Scored
  <2> QED
    BY <1>2, <2>4, <2>7, <2>9, <2>10 DEF SpendInv
<1>11. \/ Return(session)
       \/ \E pid \in Pids \cup {None} :
             client' = [client EXCEPT !.step = "sign", !.pid = pid] /\ UNCHANGED session
       \/ \E o \in FindActiveAttempt(CurrentSlot) :
             /\ rows[o].payload # None
             /\ session' = [session EXCEPT !.mirror = "pending"]
             /\ client' = [client EXCEPT !.step = "post", !.payload = rows[o].payload]
  <2>1. \A o \in FindActiveAttempt(CurrentSlot) : rows[o].pid \in Pids \cup {None}
    BY DEF FindActiveAttempt, ServerInv, IndType, StoreTypeOK, Row
  <2> QED
    BY <2>1 DEF FindAttempt
<1>12. ASSUME NEW o \in FindActiveAttempt(CurrentSlot),
              /\ rows[o].payload # None
              /\ session' = [session EXCEPT !.mirror = "pending"]
              /\ client' = [client EXCEPT !.step = "post", !.payload = rows[o].payload]
       PROVE  SpendInv'
  BY <1>10, <1>12
<1> QED
  BY <1>8, <1>9, <1>11, <1>12, Zenon

\* The client returns with the session that it has.
LEMMA GiveUpInv ==
  ASSUME SpendInv, RowsStep, ChainStep, TableInv', Accepting', Staging',
         UNCHANGED <<signed, mode>>, Return(session) \/ Return(client.saved)
  PROVE  SpendInv'
<1>1. session \in Session /\ client.saved \in Session /\ Scored(session) /\ Scored(client.saved)
  BY DEF SpendInv, ClientType, Client
<1>2. PICK s \in Session : Return(s) /\ Scored(s)
  BY <1>1
<1>3. Scored(s)'
  BY <1>2, ScoresKept
<1>4. signed' \subseteq Payloads /\ mode' \in Modes
  BY DEF SpendInv, ClientType
<1> QED
  BY <1>2, <1>3, <1>4, ReturnInv

\* An answer that is no success is mirrored, and nothing else of the session
\* changes.
LEMMA MirrorInv ==
  ASSUME SpendInv, RowsStep, ChainStep, TableInv', Accepting', Staging',
         UNCHANGED <<signed, mode>>, NEW outcome \in {"pending", "manual", "rejected"}, Mirror(outcome)
  PROVE  SpendInv'
<1> DEFINE t == [session EXCEPT !.mirror = outcome, !.scores = session.scores]
<1>1. session \in Session /\ Scored(session)
  BY DEF SpendInv, ClientType
<1>2. t \in Session /\ t.scores = session.scores
  BY <1>1 DEF Session
<1>3. Return(t)
  BY DEF Mirror
<1> HIDE DEF t
<1>4. PICK s \in Session : s = t /\ Return(s) /\ Scored(s)
  BY <1>1, <1>2, <1>3 DEF Scored
<1>5. Scored(s)'
  BY <1>4, ScoresKept
<1>6. signed' \subseteq Payloads /\ mode' \in Modes
  BY DEF SpendInv, ClientType
<1> QED
  BY <1>4, <1>5, <1>6, ReturnInv

\* A call dies; the client, if it staged by this call, does not wait for it.
LEMMA CrashServer ==
  ASSUME ServerInv, SpendInv, RowsStep, NEW w \in Workers, Crash(w), UNCHANGED signed,
         client.worker = w \/ UNCHANGED client
  PROVE  /\ TableInv' /\ Accepting' /\ Staging'
         /\ pc' = [pc EXCEPT ![w] = "idle"] /\ UNCHANGED rows
         /\ \A v \in Workers \ {w} : pc'[v] = pc[v] /\ job'[v] = job[v]
<1>1. UNCHANGED <<rows, sent, landed, expired>> /\ pc' = [pc EXCEPT ![w] = "idle"]
      /\ job' = [job EXCEPT ![w] = NoJob]
  BY DEF Crash, storeVars, chainVars
<1>2. /\ pc'[w] = "idle"
      /\ \A v \in Workers \ {w} : pc'[v] = pc[v] /\ job'[v] = job[v]
  BY <1>1 DEF ServerInv, IndType, LocalOK
<1>3. TableInv'
  <2>1. landed' \subseteq sent
    BY <1>1 DEF SpendInv, TableInv, ChainBound
  <2> QED
    BY <1>1, <2>1, QuietTable DEF SpendInv
<1>4. PayloadsStay /\ \A o \in Ops : RowFixed(o)
  BY <1>1 DEF PayloadsStay, RowFixed
<1>5. Accepting'
  <2>1. pc'[w] \in Outside
    BY <1>2 DEF Outside
  <2> QED
    BY <1>2, <1>4, <2>1, AcceptingStays DEF ServerInv, SpendInv
<1>6. ASSUME NEW v \in Workers, pc'[v] \in Intake
      PROVE  v # w /\ pc[v] \in Intake /\ UNCHANGED client
  <2>1. v # w
    BY <1>2, <1>6 DEF Intake
  <2>2. pc[v] \in Intake
    BY <1>2, <1>6, <2>1
  <2>3. client.worker = v
    BY <2>2 DEF SpendInv, Staging
  <2> QED
    BY <2>1, <2>2, <2>3
<1>7. Staging'
  BY <1>2, <1>4, <1>6, StagingStays DEF ServerInv, SpendInv
<1> QED
  BY <1>1, <1>2, <1>3, <1>5, <1>7

\* The route's instance dies, or the staging call throws.
LEMMA FailStep ==
  ASSUME ServerInv, SpendInv, RowsStep, ChainStep, NEW w \in Workers, RouteFails(w)
  PROVE  SpendInv'
<1>1. Crash(w) /\ UNCHANGED <<signed, mode>>
  BY DEF RouteFails
<1>2. client.worker = w \/ UNCHANGED client
  BY DEF RouteFails
<1>3. /\ TableInv' /\ Accepting' /\ Staging' /\ UNCHANGED rows
      /\ \A v \in Workers \ {w} : pc'[v] = pc[v] /\ job'[v] = job[v]
  BY <1>1, <1>2, CrashServer
<1>4. CASE client.worker # w /\ UNCHANGED <<session, client>>
  <2>1. \A o \in Ops : RowFixed(o)
    BY <1>3 DEF RowFixed
  <2>2. PostedIsRetained'
    BY <1>4, <2>1, RetainedStays DEF SpendInv
  <2>3. Posting'
    BY <1>1, <1>3, <1>4 DEF SpendInv, Posting
  <2>4. ClientType'
    BY <1>1, <1>4 DEF SpendInv, ClientType
  <2>5. Scored(session)' /\ Scored(client.saved)'
    BY <1>3, <1>4 DEF SpendInv, Scored, ChainStep
  <2> QED
    BY <1>3, <2>2, <2>3, <2>4, <2>5 DEF SpendInv
<1>5. CASE Return(session)
  BY <1>1, <1>3, <1>5, GiveUpInv
<1>6. CASE Mirror("manual") \/ Mirror("rejected")
  BY <1>1, <1>3, <1>6, MirrorInv
<1> QED
  BY <1>4, <1>5, <1>6 DEF RouteFails

\* The connection breaks, or the instance that runs respond dies.
LEMMA BreakStep ==
  ASSUME ServerInv, SpendInv, RowsStep, ChainStep, TransportFails \/ ClientDies
  PROVE  SpendInv'
<1>1. CASE TransportFails
  <2>1. client.step # "stage" /\ UNCHANGED <<vars, signed, mode>> /\ Mirror("manual")
    BY <1>1 DEF TransportFails
  <2>2. TableInv' /\ Accepting' /\ Staging'
    BY <2>1, QuietClient DEF SpendInv
  <2> QED
    BY <2>1, <2>2, MirrorInv
<1>2. CASE ClientDies /\ client.step # "stage"
  <2>1. UNCHANGED <<vars, signed, mode>> /\ Return(client.saved)
    BY <1>2 DEF ClientDies
  <2>2. TableInv' /\ Accepting' /\ Staging'
    BY <1>2, <2>1, QuietClient DEF SpendInv
  <2> QED
    BY <2>1, <2>2, GiveUpInv
<1>3. CASE ClientDies /\ client.step = "stage"
  <2>1. UNCHANGED <<signed, mode>> /\ Return(client.saved) /\ Crash(client.worker)
        /\ client.worker \in Workers
    BY <1>3 DEF ClientDies, SpendInv, Posting
  <2>2. PICK w \in Workers : w = client.worker /\ Crash(w)
    BY <2>1
  <2>3. TableInv' /\ Accepting' /\ Staging'
    BY <2>1, <2>2, CrashServer
  <2> QED
    BY <2>1, <2>3, GiveUpInv
<1> QED
  BY <1>1, <1>2, <1>3

\* A payment lands, or a lease lapses.
LEMMA EnvironmentStep ==
  ASSUME RoleGuarded, ServerInv, ServerInv', SpendInv, RowsStep, ChainStep, UNCHANGED clientVars,
         (\E p \in Payloads : Land(p)) \/ (\E o \in Ops : LapseLease(o))
  PROVE  SpendInv'
<1>1. UNCHANGED <<session, client, signed, mode>>
  BY DEF clientVars
<1>2. UNCHANGED <<pc, job>>
  BY DEF Land, LapseLease
<1>3. TableInv' /\ \A o \in Ops : RowFixed(o)
  <2>1. ASSUME NEW p \in Payloads, Land(p)
        PROVE  TableInv' /\ \A o \in Ops : RowFixed(o)
    <3>1. UNCHANGED <<rows, sent, expired>> /\ landed' = landed \cup {p} /\ p \in sent
      BY <2>1 DEF Land, storeVars
    <3>2. landed' \subseteq sent
      BY <3>1 DEF SpendInv, TableInv, ChainBound
    <3>3. TableInv'
      BY <1>1, <3>1, <3>2, QuietTable DEF SpendInv
    <3> QED
      BY <3>1, <3>3 DEF RowFixed
  <2>2. ASSUME NEW o \in Ops, LapseLease(o)
        PROVE  TableInv' /\ \A q \in Ops : RowFixed(q)
    <3>1. NoneRejected'
      BY DEF ServerInv, OnceInv
    <3> QED
      BY <1>1, <2>2, <3>1, LapseTable DEF SpendInv
  <2> QED
    BY <2>1, <2>2
<1>4. PayloadsStay
  BY <1>3 DEF RowFixed, PayloadsStay
<1>5. Accepting'
  BY <1>2, <1>4, AcceptingStays DEF ServerInv, SpendInv
<1>6. Staging'
  BY <1>1, <1>2, <1>3, StagingStays DEF ServerInv, SpendInv
<1>7. PostedIsRetained'
  BY <1>1, <1>3, RetainedStays DEF SpendInv
<1>8. Posting'
  BY <1>1, <1>2, <1>3 DEF SpendInv, Posting, RowFixed
<1>9. ClientType'
  BY <1>1 DEF SpendInv, ClientType
<1>10. PICK s \in Session, u \in Session : s = session /\ u = client.saved
  BY DEF SpendInv, ClientType, Client
<1>11. Scored(s)' /\ Scored(u)'
  BY <1>10, ScoresKept DEF SpendInv
<1>12. Scored(session)' /\ Scored(client.saved)'
  BY <1>1, <1>10, <1>11 DEF Scored
<1> QED
  BY <1>3, <1>5, <1>6, <1>7, <1>8, <1>9, <1>12 DEF SpendInv

---------------------------------------------------------------------------
(* The calls of the client *)

\* What the client makes of an answer; success is a settlement by this call.
LEMMA OutcomeKinds ==
  ASSUME NEW w \in Workers, NEW outcome \in Outcomes(w)
  PROVE  \/ outcome \in {"pending", "manual", "rejected"}
         \/ outcome = "settled" /\ reply'.status = 200 /\ pc[w] \in {"complete", "reconcile"}
<1>1. CASE reply'.status = 200
  BY <1>1 DEF Outcomes
<1>2. CASE reply'.status = 202
  BY <1>2 DEF Outcomes
<1>3. CASE reply'.status \notin {200, 202}
  <2>1. outcome \in {"manual", "rejected"}
    BY <1>3 DEF Outcomes
  <2> QED
    BY <2>1
<1> QED
  BY <1>1, <1>2, <1>3

\* A payment that is bound to a row is found there and nowhere else.
LEMMA BoundFound ==
  ASSUME TableInv, NEW o \in Ops, NEW p \in Payloads, rows[o].payload = p
  PROVE  /\ FindByPaymentId(PidOf[p]) = {o} /\ SlotOfOp(o) = SlotOf[p]
         /\ ResolveCandidates(SlotOf[p], PidOf[p]) = {o}
<1>1. /\ rows[o].pid = PidOf[p] /\ SlotOf[p] = SlotOfOp(o) /\ Present(o)
  BY NoneAssumption DEF TableInv, RowsBound, RowBound, Present
<1>2. \A q \in Ops : Present(q) /\ rows[q].pid = PidOf[p] => q = o
  BY <1>1 DEF TableInv, PidsOnce
<1>3. FindByPaymentId(PidOf[p]) = {o}
  BY <1>1, <1>2 DEF FindByPaymentId
<1>4. FindByDigestPayment(SlotOf[p], PidOf[p]) = {o}
  BY <1>1, <1>3 DEF FindByDigestPayment
<1> QED
  BY <1>1, <1>3, <1>4 DEF ResolveCandidates

\* The post of a payment that is bound to a row joins that row.
LEMMA PostMoves ==
  ASSUME IndType, TableInv, NEW w \in Workers, NEW o \in Ops, NEW p \in Payloads,
         rows[o].payload = p, Call(w, "accept", p, None)
  PROVE  Worked(w, o, p)
<1> DEFINE j == [NoJob EXCEPT !.kind = "accept", !.payload = p, !.approval = None]
           k == [j EXCEPT !.op = o]
<1>1. LocalOK
  BY DEF IndType
<1>2. /\ k \in Job /\ k.op = o /\ k.payload = p /\ j.payload = p /\ j.kind = "accept"
      /\ k.kind = "accept"
  BY SpendKindsAssumption DEF NoJob, Job
<1>3. /\ FindByPaymentId(PidOf[p]) = {o} /\ SlotOfOp(o) = SlotOf[p]
      /\ ResolveCandidates(SlotOf[p], PidOf[p]) = {o}
  BY BoundFound
<1>4. Resolved(w, j, o)
  BY <1>3 DEF Call
<1>5. (\E s : Respond(w, k, s)) \/ JoinStoredRow(w, k)
  BY <1>2, <1>4 DEF Resolved
<1> HIDE DEF j, k
<1> QED
  BY <1>1, <1>2, <1>5, RespondWorked, JoinWorked

\* The client posts the payment that the table retains.
LEMMA PostStep ==
  ASSUME ServerInv, SpendInv, RowsStep, ChainStep, NEW w \in Workers, Post(w)
  PROVE  SpendInv'
<1> DEFINE p == client.payload
<1>1. /\ client.step = "post" /\ Call(w, "accept", p, None) /\ UNCHANGED <<signed, mode>>
      /\ client \in Client /\ session \in Session
  BY DEF Post, SpendInv, ClientType
<1>2. p \in Payloads /\ \E o \in Ops : rows[o].payload = p
  BY <1>1 DEF SpendInv, Posting, Client
<1>3. PICK o \in Ops, x \in Payloads : x = p /\ rows[o].payload = x
  BY <1>2
<1>4. Call(w, "accept", x, None)
  BY <1>1, <1>3
<1>5. Worked(w, o, x)
  BY <1>3, <1>4, PostMoves DEF ServerInv, SpendInv
<1>6. UNCHANGED <<rows, sent, landed, expired>>
  BY <1>4 DEF Call, storeVars, chainVars
<1>7. TableInv'
  <2>1. landed' \subseteq sent
    BY <1>6 DEF SpendInv, TableInv, ChainBound
  <2> QED
    BY <1>1, <1>6, <2>1, QuietTable DEF SpendInv
<1>8. PayloadsStay /\ \A q \in Ops : RowFixed(q)
  BY <1>6 DEF PayloadsStay, RowFixed
<1>9. Accepting'
  <2>1. IndType /\ Accepting
    BY DEF ServerInv, SpendInv
  <2>2. ASSUME NEW v \in Workers, pc'[v] \notin Outside
        PROVE  \/ pc'[v] = pc[v] /\ job'[v] = job[v]
               \/ rows'[job'[v].op].payload = job'[v].payload
    <3>1. CASE v = w
      <4>1. job'[v].op = o /\ job'[v].payload = x
        BY <1>5, <2>2, <3>1 DEF Worked, Outside
      <4> QED
        BY <1>3, <1>6, <4>1
    <3>2. CASE v # w
      BY <1>5, <3>2 DEF Worked
    <3> QED
      BY <3>1, <3>2
  <2> QED
    BY <1>8, <2>1, <2>2, AcceptingStays
<1>10. Staging'
  <2>1. \A v \in Workers : pc'[v] \notin Intake
    BY <1>1, <1>5 DEF Worked, SpendInv, Staging
  <2> QED
    BY <2>1 DEF Staging
<1>11. CASE \E outcome \in Outcomes(w) : Mirror(outcome)
  <2>1. PICK outcome \in Outcomes(w) : Mirror(outcome)
    BY <1>11
  <2>2. pc[w] = "idle"
    BY <1>4 DEF Call
  <2>3. outcome \in {"pending", "manual", "rejected"}
    BY <2>2, OutcomeKinds
  <2> QED
    BY <1>1, <1>7, <1>9, <1>10, <2>1, <2>3, MirrorInv
<1>12. CASE /\ pc'[w] # "idle" /\ UNCHANGED session
            /\ client' = [client EXCEPT !.step = "wait", !.worker = w]
  <2>1. /\ client' \in Client /\ client'.step = "wait" /\ client'.worker = w
        /\ client'.payload = p /\ client'.saved = client.saved
    BY <1>1, <1>12 DEF Client
  <2>2. PostedIsRetained'
    BY <1>1, <1>8, <2>1, RetainedStays DEF SpendInv
  <2>3. pc'[w] \notin Outside /\ job'[w].payload = x
    BY <1>5, <1>12 DEF Worked, Outside
  <2>4. rows'[o].payload = p /\ p # None
    BY <1>2, <1>3, <1>6, NoneAssumption
  <2> HIDE DEF p
  <2>5. Posting'
    BY <1>3, <2>1, <2>3, <2>4 DEF Posting
  <2>6. ClientType'
    BY <1>1, <1>12, <2>1 DEF SpendInv, ClientType
  <2>7. PICK s \in Session, u \in Session : s = session /\ u = client.saved
    BY <1>1 DEF Client
  <2>8. Scored(s)' /\ Scored(u)'
    BY <2>7, ScoresKept DEF SpendInv
  <2>9. Scored(session)' /\ Scored(client.saved)'
    BY <1>12, <2>1, <2>7, <2>8 DEF Scored
  <2> QED
    BY <1>7, <1>9, <1>10, <2>2, <2>5, <2>6, <2>9 DEF SpendInv
<1> QED
  BY <1>11, <1>12 DEF Post

\* A settlement that a call itself records names the row of the call.
LEMMA SettledByCall ==
  ASSUME IndType, NEW w \in Workers, WorkerStep(w), reply'.status = 200,
         pc[w] \in {"complete", "reconcile"}
  PROVE  reply'.op = job[w].op /\ rows'[job[w].op].status = "settled"
<1>1. Complete(w) \/ Reconcile(w)
  BY DEF WorkerStep, Insert, Stage, TakeOver, Reopen, Claim, Abandon, Blockhash, Revalidate,
     VerifyInvalid, VerifyValid, Submit, SettleFails, SettleSucceeds, LostWrite, LostFailClosed
<1>2. (\E s : Respond(w, job[w], s)) \/ Goto(w, "lost", job[w])
  BY <1>1 DEF Complete, Reconcile, PersistSettled, FailClosed
<1>3. NoReply.status = 0
  BY DEF NoReply
<1>4. reply'.op = job[w].op
  BY <1>2, <1>3 DEF Respond, Goto
<1>5. Honoured
  BY WorkerHonoured
<1>6. rows'[reply'.op].status = "settled"
  BY <1>5 DEF Honoured
<1> QED
  BY <1>4, <1>6

\* A success is shown for the slot of the payment that paid for it.
LEMMA PaidInv ==
  ASSUME ServerInv, ServerInv', SpendInv, RowsStep, ChainStep, TableInv', Accepting', Staging',
         UNCHANGED <<signed, mode>>, NEW o \in Ops, NEW p \in Payloads, p = client.payload,
         SlotOf[p] = SlotOfOp(o), rows'[o].status = "settled", Mirror("settled")
  PROVE  SpendInv'
<1> DEFINE t == [session EXCEPT !.mirror = "settled", !.scores = SlotOf[p]]
<1>1. session \in Session /\ SlotOf[p] \in Slots
  BY SlotAssumption DEF SpendInv, ClientType
<1>2. t \in Session /\ t.scores = SlotOf[p]
  BY <1>1 DEF Session
<1>3. Return(t)
  BY DEF Mirror
<1> HIDE DEF t
<1>4. PICK s \in Session : Return(s) /\ s.scores = SlotOf[p]
  BY <1>2, <1>3
<1>5. rows'[o].tx \in landed'
  BY DEF ServerInv, SettledIsPaid
<1>6. Scored(s)'
  BY <1>4, <1>5 DEF Scored
<1>7. signed' \subseteq Payloads /\ mode' \in Modes
  BY DEF SpendInv, ClientType
<1> QED
  BY <1>4, <1>6, <1>7, ReturnInv

\* A call past its intake works on; the client may be waiting for it.
LEMMA WorkStep ==
  ASSUME RoleGuarded, ServerInv, ServerInv', SpendInv, RowsStep, ChainStep, NEW w \in Workers,
         pc[w] \notin Outside, RouteStep(w)
  PROVE  SpendInv'
<1>1. WorkerStep(w) /\ UNCHANGED <<signed, mode>> /\ client \in Client /\ session \in Session
  BY DEF RouteStep, SpendInv, ClientType
<1>2. PICK o \in Ops, p \in Payloads : o = job[w].op /\ p = job[w].payload
  BY JobType DEF ServerInv, Outside
<1>3. Worked(w, o, p)
  BY <1>1, <1>2, WorkMoves DEF ServerInv, SpendInv
<1>4. TableInv' /\ \A q \in Ops : RowFixed(q)
  <2>1. NoneRejected'
    BY DEF ServerInv, OnceInv
  <2> QED
    BY <1>1, <2>1, WorkTable DEF SpendInv
<1>5. PayloadsStay
  BY <1>4 DEF RowFixed, PayloadsStay
<1>6. rows[o].payload = p /\ rows'[o].payload = p /\ p # None
  BY <1>2, <1>4, NoneAssumption DEF SpendInv, Accepting, RowFixed
<1>7. Accepting'
  <2>1. IndType /\ Accepting
    BY DEF ServerInv, SpendInv
  <2>2. ASSUME NEW v \in Workers, pc'[v] \notin Outside
        PROVE  \/ pc'[v] = pc[v] /\ job'[v] = job[v]
               \/ rows'[job'[v].op].payload = job'[v].payload
    <3>1. CASE v = w
      <4>1. job'[v].op = o /\ job'[v].payload = p
        BY <1>3, <2>2, <3>1 DEF Worked, Outside
      <4> QED
        BY <1>6, <4>1
    <3>2. CASE v # w
      BY <1>3, <3>2 DEF Worked
    <3> QED
      BY <3>1, <3>2
  <2> QED
    BY <1>5, <2>1, <2>2, AcceptingStays
<1>8. Staging'
  <2>1. IndType /\ Staging
    BY DEF ServerInv, SpendInv
  <2>2. ASSUME NEW v \in Workers, pc'[v] \in Intake
        PROVE  /\ pc'[v] = pc[v] /\ job'[v] = job[v]
               /\ client'.step = client.step /\ client'.worker = client.worker
               /\ client'.payload = client.payload
    <3>1. v # w /\ pc'[v] = pc[v] /\ job'[v] = job[v]
      BY <1>3, <2>2 DEF Worked
    <3>2. client.worker # w
      BY <2>1, <2>2, <3>1 DEF Staging
    <3> QED
      BY <3>1, <3>2 DEF RouteStep
  <2> QED
    BY <1>4, <2>1, <2>2, StagingStays
<1>9. \/ client.worker # w
      \/ client.worker = w /\ client.step = "wait" /\ client.payload = p
  <2>1. client.step = "stage" => client.worker # w
    BY DEF SpendInv, Posting, Outside
  <2>2. client.step \notin {"stage", "wait"} => client.worker # w
    BY SpendNoneAssumption DEF SpendInv, Posting
  <2> QED
    BY <1>2, <2>1, <2>2 DEF SpendInv, Posting
<1>10. CASE UNCHANGED <<session, client>> /\ (client.worker = w => pc'[w] # "idle")
  <2>1. PostedIsRetained'
    BY <1>4, <1>10, RetainedStays DEF SpendInv
  <2>2. ClientType'
    BY <1>1, <1>10 DEF SpendInv, ClientType
  <2>3. PICK s \in Session, u \in Session : s = session /\ u = client.saved
    BY <1>1 DEF Client
  <2>4. Scored(s)' /\ Scored(u)'
    BY <2>3, ScoresKept DEF SpendInv
  <2>5. Scored(session)' /\ Scored(client.saved)'
    BY <1>10, <2>3, <2>4 DEF Scored
  <2>6. client.step \in {"post", "wait"} =>
            client.payload # None /\ \E q \in Ops : rows'[q].payload = client.payload
    BY <1>4 DEF SpendInv, Posting, RowFixed
  <2>7. client.step \in {"stage", "wait"} /\ client.worker # w =>
            pc'[client.worker] = pc[client.worker] /\ job'[client.worker] = job[client.worker]
    BY <1>3 DEF Worked, SpendInv, Posting
  <2>8. client.worker = w => pc'[w] \notin Outside /\ job'[w].payload = p
    BY <1>3, <1>10 DEF Worked, Outside
  <2>9. Posting'
    BY <1>1, <1>9, <1>10, <2>6, <2>7, <2>8 DEF SpendInv, Posting
  <2> QED
    BY <1>4, <1>7, <1>8, <2>1, <2>2, <2>5, <2>9 DEF SpendInv
<1>11. ASSUME client.payload = p, NEW outcome \in Outcomes(w), Mirror(outcome)
       PROVE  SpendInv'
  <2>1. CASE outcome \in {"pending", "manual", "rejected"}
    BY <1>1, <1>4, <1>7, <1>8, <1>11, <2>1, MirrorInv
  <2>2. CASE outcome = "settled" /\ reply'.status = 200 /\ pc[w] \in {"complete", "reconcile"}
    <3>1. rows'[o].status = "settled"
      BY <1>1, <1>2, <2>2, SettledByCall DEF ServerInv
    <3>2. SlotOf[p] = SlotOfOp(o)
      BY <1>6, BoundFound DEF SpendInv
    <3> QED
      BY <1>1, <1>4, <1>7, <1>8, <1>11, <2>2, <3>1, <3>2, PaidInv
  <2> QED
    BY <2>1, <2>2, OutcomeKinds
<1> QED
  BY <1>9, <1>10, <1>11 DEF RouteStep

---------------------------------------------------------------------------
(* The staging call *)

\* Worker w is the only one that may be in its intake.
Alone(w) == \A v \in Workers \ {w} : pc[v] \notin Intake

\* The staging call goes on in its intake.
LEMMA StagesOn ==
  ASSUME ServerInv, SpendInv, RowsStep, ChainStep, TableInv', PayloadsStay,
         NEW w \in Workers, Alone(w), NEW l \in Intake, NEW k \in Job, Goto(w, l, k),
         NEW p \in Payloads, p \in signed', signed' \subseteq Payloads,
         k.kind = "stage", k.payload = p, SlotOfOp(k.op) = SlotOf[p],
         l = "insert" => \A o \in Ops : SlotOfOp(o) = SlotOfOp(k.op) => Closed(o)',
         l = "stage" => rows'[k.op].status = "pending" /\ rows'[k.op].payload = None,
         client' = [client EXCEPT !.step = "stage", !.payload = p, !.worker = w],
         UNCHANGED <<session, mode>>
  PROVE  SpendInv'
<1>1. /\ pc'[w] = l /\ job'[w] = k
      /\ \A v \in Workers \ {w} : pc'[v] = pc[v] /\ job'[v] = job[v]
  BY DEF Goto, ServerInv, IndType, LocalOK
<1>2. client \in Client /\ session \in Session /\ mode' \in Modes /\ session' \in Session
  BY DEF SpendInv, ClientType
<1>3. /\ client' \in Client /\ client'.step = "stage" /\ client'.worker = w
      /\ client'.payload = p /\ client'.saved = client.saved
  BY <1>2 DEF Client
<1>4. ClientType'
  BY <1>2, <1>3 DEF ClientType
<1>5. Accepting'
  <2>1. IndType /\ Accepting
    BY DEF ServerInv, SpendInv
  <2>2. \A v \in Workers : pc'[v] \notin Outside => pc'[v] = pc[v] /\ job'[v] = job[v]
    BY <1>1 DEF Outside
  <2> QED
    BY <2>1, <2>2, AcceptingStays
<1>6. Staging'
  <2>1. ASSUME NEW v \in Workers, pc'[v] \in Intake
        PROVE  v = w
    BY <1>1, <2>1 DEF Alone
  <2>2. /\ job'[w].kind = "stage"
        /\ client'.step = "stage" /\ client'.worker = w /\ client'.payload = job'[w].payload
        /\ SlotOfOp(job'[w].op) = SlotOf[job'[w].payload]
    BY <1>1, <1>3
  <2>3. pc'[w] = "insert" => \A o \in Ops : SlotOfOp(o) = SlotOfOp(job'[w].op) => Closed(o)'
    BY <1>1
  <2>4. pc'[w] = "stage" => rows'[job'[w].op].status = "pending" /\ rows'[job'[w].op].payload = None
    BY <1>1
  <2> QED
    BY <2>1, <2>2, <2>3, <2>4 DEF Staging, Closed
<1>7. Posting' /\ PostedIsRetained'
  BY <1>1, <1>3 DEF Posting, PostedIsRetained
<1>8. PICK s \in Session, u \in Session : s = session /\ u = client.saved
  BY <1>2 DEF Client
<1>9. Scored(s)' /\ Scored(u)'
  BY <1>8, ScoresKept DEF SpendInv
<1>10. Scored(session)' /\ Scored(client.saved)'
  BY <1>3, <1>8, <1>9 DEF Scored
<1> QED
  BY <1>4, <1>5, <1>6, <1>7, <1>10 DEF SpendInv

\* The staging call ends: nothing is in its intake any more.
LEMMA StagingEnds ==
  ASSUME ServerInv, SpendInv, PayloadsStay, NEW w \in Workers, Alone(w), NEW k, NEW s,
         Respond(w, k, s)
  PROVE  Accepting' /\ Staging' /\ pc'[w] = "idle" /\ reply'.status = s
<1>1. /\ pc'[w] = "idle" /\ reply'.status = s
      /\ \A v \in Workers \ {w} : pc'[v] = pc[v] /\ job'[v] = job[v]
  BY DEF Respond, ServerInv, IndType, LocalOK
<1>2. \A v \in Workers : pc'[v] \notin Outside => pc'[v] = pc[v] /\ job'[v] = job[v]
  BY <1>1 DEF Outside
<1>3. Accepting'
  <2>1. IndType /\ Accepting
    BY DEF ServerInv, SpendInv
  <2> QED
    BY <1>2, <2>1, AcceptingStays
<1>4. \A v \in Workers : pc'[v] \notin Intake
  BY <1>1 DEF Alone, Intake
<1> QED
  BY <1>1, <1>3, <1>4 DEF Staging

\* The payment is staged: it is the one that its slot retains.
LEMMA StagedInv ==
  ASSUME SpendInv, RowsStep, ChainStep, TableInv', Accepting', Staging',
         NEW p \in Payloads, signed' \subseteq Payloads, UNCHANGED mode,
         \E o \in Ops : rows'[o].payload = p,
         \A q \in Ops : Active(q)' /\ SlotOfOp(q) = SlotOf[p] => rows'[q].payload = p,
         session' = [session EXCEPT !.mirror = "pending"],
         client' = [client EXCEPT !.step = "post", !.pid = None, !.payload = p, !.worker = None]
  PROVE  SpendInv'
<1>1. client \in Client /\ session \in Session /\ mode' \in Modes
  BY DEF SpendInv, ClientType
<1>2. /\ client' \in Client /\ client'.step = "post" /\ client'.worker = None
      /\ client'.payload = p /\ client'.saved = client.saved
  BY <1>1 DEF Client
<1>3. session' \in Session /\ session'.scores = session.scores
  BY <1>1, SessionType
<1>4. ClientType'
  BY <1>1, <1>2, <1>3 DEF ClientType
<1>5. Posting'
  BY <1>2, NoneAssumption DEF Posting
<1>6. PostedIsRetained'
  BY <1>2 DEF PostedIsRetained, FindActiveAttempt
<1>7. PICK s \in Session, u \in Session : s = session /\ u = client.saved
  BY <1>1 DEF Client
<1>8. Scored(s)' /\ Scored(u)'
  BY <1>7, ScoresKept DEF SpendInv
<1>9. Scored(session)' /\ Scored(client.saved)'
  BY <1>2, <1>3, <1>7, <1>8 DEF Scored
<1> QED
  BY <1>4, <1>5, <1>6, <1>9 DEF SpendInv

\* What a staging call does with the row it resolved to.
LEMMA ResolvedStages ==
  ASSUME TableInv, NEW w \in Workers, NEW j \in Job, j.kind = "stage",
         NEW o \in Ops, Present(o), Resolved(w, j, o)
  PROVE  \/ \E k \in Job : /\ Goto(w, "stage", k)
                           /\ k.kind = "stage" /\ k.op = o /\ k.payload = j.payload
                           /\ rows[o].status = "pending" /\ rows[o].payload = None
                           /\ SlotOfOp(o) = SlotOf[j.payload]
         \/ \E k : Respond(w, k, 500)
         \/ (\E k : Respond(w, k, 201)) /\ rows[o].payload = j.payload
            /\ SlotOfOp(o) = SlotOf[j.payload]
<1> DEFINE k == [j EXCEPT !.op = o]
<1>1. k \in Job /\ k.kind = "stage" /\ k.op = o /\ k.payload = j.payload
  BY DEF Job
<1>2. \/ Respond(w, k, 500)
      \/ /\ SlotOfOp(o) = SlotOf[j.payload] /\ rows[o].payload = None /\ Goto(w, "stage", k)
      \/ /\ SlotOfOp(o) = SlotOf[j.payload] /\ rows[o].payload = j.payload /\ Respond(w, k, 201)
  BY DEF Resolved
<1>3. rows[o].payload = None => rows[o].status = "pending"
  BY DEF TableInv, RowsBound, RowBound, Present
<1> HIDE DEF k
<1> QED
  BY <1>1, <1>2, <1>3

\* What the staging call of a payment that is new to the table does first.
LEMMA CallStages ==
  ASSUME ServerInv, TableInv, NEW w \in Workers, NEW p \in Payloads, p \notin signed,
         Call(w, "stage", p, None)
  PROVE  \/ \E k : Respond(w, k, 500)
         \/ \E l \in Intake, k \in Job :
               /\ Goto(w, l, k)
               /\ k.kind = "stage" /\ k.payload = p /\ SlotOfOp(k.op) = SlotOf[p]
               /\ l = "insert" => \A o \in Ops : SlotOfOp(o) = SlotOfOp(k.op) => Closed(o)
               /\ l = "stage" => rows[k.op].status = "pending" /\ rows[k.op].payload = None
<1> DEFINE j == [NoJob EXCEPT !.kind = "stage", !.payload = p, !.approval = None]
           slot == SlotOf[p]
<1>1. j \in Job /\ j.kind = "stage" /\ j.payload = p /\ slot \in Slots
  BY SpendKindsAssumption, SlotAssumption DEF NoJob, Job
<1>2. \/ \E o \in ResolveCandidates(slot, PidOf[p]) : Resolved(w, j, o)
      \/ Respond(w, j, 500)
      \/ /\ ResolveCandidates(slot, PidOf[p]) = {}
         /\ \E a \in NewAuth(slot, None) : Goto(w, "insert", [j EXCEPT !.op = <<slot, a>>])
  BY DEF Call
<1> HIDE DEF j
<1>3. ASSUME NEW o \in ResolveCandidates(slot, PidOf[p]), Resolved(w, j, o)
      PROVE  \/ \E k : Respond(w, k, 500)
             \/ \E k \in Job :
                   /\ Goto(w, "stage", k)
                   /\ k.kind = "stage" /\ k.payload = p /\ SlotOfOp(k.op) = SlotOf[p]
                   /\ rows[k.op].status = "pending" /\ rows[k.op].payload = None
  <2>1. o \in Ops /\ Present(o)
    BY <1>3 DEF ResolveCandidates, FindByDigestPayment, FindByPaymentId, FindActiveAttempt,
       FindSettledAttempt, Active, Present
  <2>2. rows[o].payload # p
    BY <2>1, NoneAssumption DEF TableInv, RowsBound, RowBound
  <2> QED
    BY <1>1, <1>3, <2>1, <2>2, ResolvedStages
<1>4. ASSUME ResolveCandidates(slot, PidOf[p]) = {}, NEW a \in NewAuth(slot, None),
             Goto(w, "insert", [j EXCEPT !.op = <<slot, a>>])
      PROVE  \E k \in Job :
                /\ Goto(w, "insert", k)
                /\ k.kind = "stage" /\ k.payload = p /\ SlotOfOp(k.op) = SlotOf[p]
                /\ \A o \in Ops : SlotOfOp(o) = SlotOfOp(k.op) => Closed(o)
  <2> DEFINE k == [j EXCEPT !.op = <<slot, a>>]
  <2>1. a \in Mints
    BY <1>4 DEF NewAuth
  <2>2. <<slot, a>> \in Ops /\ SlotOfOp(<<slot, a>>) = slot
    BY <1>1, <2>1 DEF Ops, SlotOfOp
  <2>3. k \in Job /\ k.kind = "stage" /\ k.payload = p /\ k.op = <<slot, a>>
    BY <1>1, <2>2 DEF Job
  <2>4. FindActiveAttempt(slot) = {} /\ FindSettledAttempt(slot) = {}
    BY <1>4 DEF ResolveCandidates
  <2>5. ASSUME NEW o \in Ops, SlotOfOp(o) = slot
        PROVE  Closed(o)
    <3>1. ~Active(o) /\ rows[o].status # "settled"
      BY <2>4, <2>5 DEF FindActiveAttempt, FindSettledAttempt
    <3>2. rows[o].status \notin {"released", "rejected"}
      BY DEF TableInv, RowsBound, RowBound, ServerInv, OnceInv, NoneRejected
    <3> QED
      BY <3>1, <3>2 DEF Active, Present, Closed, TerminalResolved
  <2> HIDE DEF k
  <2> QED
    BY <1>4, <2>2, <2>3, <2>5 DEF k
<1>5. "insert" \in Intake /\ "stage" \in Intake
  BY DEF Intake
<1>6. CASE \E o \in ResolveCandidates(slot, PidOf[p]) : Resolved(w, j, o)
  BY <1>3, <1>5, <1>6
<1>7. CASE /\ ResolveCandidates(slot, PidOf[p]) = {}
           /\ \E a \in NewAuth(slot, None) : Goto(w, "insert", [j EXCEPT !.op = <<slot, a>>])
  BY <1>4, <1>5, <1>7
<1> QED
  BY <1>2, <1>6, <1>7

\* The client signs a payment and hands it to the staging call.
LEMMA SignStep ==
  ASSUME ServerInv, SpendInv, RowsStep, ChainStep, NEW w \in Workers, SignAndStage(w)
  PROVE  SpendInv'
<1>1. PICK p \in Payloads \ signed :
         /\ signed' = signed \cup {p}
         /\ Call(w, "stage", p, None)
         /\ StageReturns(w, p)
  BY DEF SignAndStage
<1>2. /\ client.step = "sign" /\ UNCHANGED mode /\ UNCHANGED <<rows, sent, landed, expired>>
      /\ client \in Client /\ session \in Session
  BY <1>1 DEF SignAndStage, Call, storeVars, chainVars, SpendInv, ClientType
<1>3. signed \subseteq signed' /\ signed' \subseteq Payloads /\ p \in signed'
  BY <1>1 DEF SpendInv, ClientType
<1>4. TableInv'
  <2>1. landed' \subseteq sent
    BY <1>2 DEF SpendInv, TableInv, ChainBound
  <2> QED
    BY <1>2, <1>3, <2>1, QuietTable DEF SpendInv
<1>5. Alone(w) /\ PayloadsStay
  BY <1>2 DEF SpendInv, Staging, Alone, PayloadsStay
<1>6. ASSUME NEW k, Respond(w, k, 500)
      PROVE  SpendInv'
  <2>1. Accepting' /\ Staging' /\ pc'[w] = "idle" /\ reply'.status = 500
    BY <1>5, <1>6, StagingEnds
  <2>2. Return(session)
    BY <1>1, <2>1 DEF StageReturns
  <2>3. PICK s \in Session : s = session
    BY <1>2
  <2>4. Return(s) /\ Scored(s)'
    BY <2>2, <2>3, ScoresKept DEF SpendInv
  <2>5. mode' \in Modes
    BY <1>2 DEF SpendInv, ClientType
  <2> QED
    BY <1>3, <1>4, <2>1, <2>4, <2>5, ReturnInv
<1>7. ASSUME NEW l \in Intake, NEW k \in Job, Goto(w, l, k),
             k.kind = "stage", k.payload = p, SlotOfOp(k.op) = SlotOf[p],
             l = "insert" => \A o \in Ops : SlotOfOp(o) = SlotOfOp(k.op) => Closed(o),
             l = "stage" => rows[k.op].status = "pending" /\ rows[k.op].payload = None
      PROVE  SpendInv'
  <2>1. pc'[w] # "idle"
    BY <1>7 DEF Goto, Intake, ServerInv, IndType, LocalOK
  <2>2. client' = [client EXCEPT !.step = "stage", !.payload = p, !.worker = w] /\ UNCHANGED session
    BY <1>1, <2>1 DEF StageReturns
  <2>3. l = "insert" => \A o \in Ops : SlotOfOp(o) = SlotOfOp(k.op) => Closed(o)'
    BY <1>2, <1>7 DEF Closed
  <2>4. l = "stage" => rows'[k.op].status = "pending" /\ rows'[k.op].payload = None
    BY <1>2, <1>7
  <2>5. /\ Goto(w, l, k) /\ k.kind = "stage" /\ k.payload = p /\ SlotOfOp(k.op) = SlotOf[p]
        /\ p \in Payloads
    BY <1>7
  <2>6. UNCHANGED <<session, mode>>
    BY <1>2, <2>2
  <2> QED
    BY <1>3, <1>4, <1>5, <2>2, <2>3, <2>4, <2>5, <2>6, StagesOn
<1> QED
  BY <1>1, <1>6, <1>7, CallStages DEF SpendInv

\* What the client makes of a step of its own staging call.
LEMMA StagingClient ==
  ASSUME ServerInv, SpendInv, NEW w \in Workers, pc[w] \in Intake, RouteStep(w),
         NEW p, p = job[w].payload
  PROVE  /\ StageReturns(w, p) /\ UNCHANGED <<signed, mode>> /\ Alone(w)
         /\ p \in Payloads /\ p \in signed /\ signed \subseteq Payloads
         /\ job[w] \in Job /\ job[w].op \in Ops /\ job[w].kind = "stage"
         /\ SlotOfOp(job[w].op) = SlotOf[p]
<1>1. client.step = "stage" /\ client.worker = w /\ client.payload = p
  BY DEF SpendInv, Staging
<1>2. StageReturns(w, p) /\ UNCHANGED <<signed, mode>>
  BY <1>1 DEF RouteStep
<1>3. Alone(w)
  BY <1>1 DEF Alone, SpendInv, Staging
<1>4. p \in signed /\ signed \subseteq Payloads
  BY <1>1 DEF SpendInv, Posting, ClientType
<1>5. job[w] \in Job /\ job[w].op \in Ops
  BY JobType DEF Intake, ServerInv
<1> QED
  BY <1>2, <1>3, <1>4, <1>5 DEF SpendInv, Staging

\* The staging call throws.
LEMMA StagingThrows ==
  ASSUME ServerInv, SpendInv, RowsStep, ChainStep, TableInv', PayloadsStay, NEW w \in Workers,
         Alone(w), NEW k, Respond(w, k, 500), NEW p, StageReturns(w, p), UNCHANGED <<signed, mode>>
  PROVE  SpendInv'
<1>1. Accepting' /\ Staging' /\ pc'[w] = "idle" /\ reply'.status = 500
  BY StagingEnds
<1>2. Return(session)
  BY <1>1 DEF StageReturns
<1> QED
  BY <1>1, <1>2, GiveUpInv

\* The staging call has bound the payment.
LEMMA StagingSucceeds ==
  ASSUME ServerInv, SpendInv, RowsStep, ChainStep, TableInv', PayloadsStay, NEW w \in Workers,
         Alone(w), NEW k, Respond(w, k, 201), NEW p \in Payloads, StageReturns(w, p),
         UNCHANGED <<signed, mode>>,
         \E o \in Ops : rows'[o].payload = p,
         \A q \in Ops : Active(q)' /\ SlotOfOp(q) = SlotOf[p] => rows'[q].payload = p
  PROVE  SpendInv'
<1>1. Accepting' /\ Staging' /\ pc'[w] = "idle" /\ reply'.status = 201
  BY StagingEnds
<1>2. /\ session' = [session EXCEPT !.mirror = "pending"]
      /\ client' = [client EXCEPT !.step = "post", !.pid = None, !.payload = p, !.worker = None]
  BY <1>1 DEF StageReturns
<1>3. signed' \subseteq Payloads
  BY DEF SpendInv, ClientType
<1> QED
  BY <1>1, <1>2, <1>3, StagedInv

\* The insert of the staging call, or the row that won the race for it.
LEMMA SpendInsert ==
  ASSUME RoleGuarded, ServerInv, SpendInv, RowsStep, ChainStep, NEW w \in Workers,
         pc[w] = "insert", RouteStep(w)
  PROVE  SpendInv'
<1>0. PICK o, p : o = job[w].op /\ p = job[w].payload
  OBVIOUS
<1>1. /\ StageReturns(w, p) /\ UNCHANGED <<signed, mode>> /\ Alone(w)
      /\ p \in Payloads /\ p \in signed /\ signed \subseteq Payloads
      /\ job[w] \in Job /\ o \in Ops /\ job[w].kind = "stage"
      /\ SlotOfOp(o) = SlotOf[p]
  BY <1>0, StagingClient DEF Intake
<1>2. \A q \in Ops : SlotOfOp(q) = SlotOfOp(o) => Closed(q)
  BY <1>0 DEF SpendInv, Staging, Intake
<1>3. Insert(w)
  BY DEF RouteStep, WorkerStep, Insert, Stage, TakeOver, Reopen, Claim, Abandon, Blockhash,
     Revalidate, VerifyInvalid, VerifyValid, Submit, SettleFails, SettleSucceeds, Complete,
     LostWrite, LostFailClosed, Reconcile
<1>4. UNCHANGED <<sent, landed, expired>> /\ TableInv
  BY <1>3 DEF Insert, chainVars, SpendInv
<1>5. CASE /\ ~InsertConflict(o, PidOf[p])
           /\ rows' = [rows EXCEPT ![o] = NewRow(PidOf[p])]
           /\ Goto(w, "stage", job[w])
  <2>1. PidOf[p] \in Pids
    BY <1>1, PidAssumption
  <2>2. TableInv'
    BY <1>1, <1>2, <1>4, <1>5, <2>1, InsertTable
  <2>3. rows'[o] = NewRow(PidOf[p]) /\ \A q \in Ops : q # o => rows'[q] = rows[q]
    BY <1>1, <1>5 DEF ServerInv, IndType, StoreTypeOK
  <2>4. rows[o].payload = None
    BY <1>1, <1>4, <1>5 DEF InsertConflict, Present, TableInv, RowsBound, RowBound
  <2>5. PayloadsStay
    BY <2>3, <2>4 DEF PayloadsStay
  <2>6. rows'[o].status = "pending" /\ rows'[o].payload = None
    BY <2>3 DEF NewRow, AbsentRow
  <2>7. pc'[w] # "idle"
    BY <1>5 DEF Goto, ServerInv, IndType, LocalOK
  <2>8. /\ client' = [client EXCEPT !.step = "stage", !.payload = p, !.worker = w]
        /\ UNCHANGED <<session, mode>>
    BY <1>1, <2>7 DEF StageReturns
  <2>9. PICK k \in Job : k = job[w]
    BY <1>1
  <2>10. /\ Goto(w, "stage", k) /\ k.kind = "stage" /\ k.payload = p /\ SlotOfOp(k.op) = SlotOf[p]
         /\ rows'[k.op].status = "pending" /\ rows'[k.op].payload = None
    BY <1>0, <1>1, <1>5, <2>6, <2>9
  <2>11. p \in signed' /\ signed' \subseteq Payloads /\ "stage" \in Intake /\ "stage" # "insert"
    BY <1>1 DEF Intake
  <2> QED
    BY ZenonT(60), <1>1, <2>2, <2>5, <2>8, <2>10, <2>11, StagesOn
<1>6. ASSUME NEW q \in ConflictWinner(o, PidOf[p]), Resolved(w, job[w], q), UNCHANGED rows,
             InsertConflict(o, PidOf[p])
      PROVE  SpendInv'
  <2>1. q \in Ops /\ Present(q)
    BY <1>1, <1>6 DEF ConflictWinner, FindByPaymentId, FindActiveAttempt, Active, Present
  <2>2. TableInv'
    <3>1. landed' \subseteq sent
      BY <1>4 DEF TableInv, ChainBound
    <3> QED
      BY <1>1, <1>4, <1>6, <3>1, QuietTable
  <2>3. PayloadsStay
    BY <1>6 DEF PayloadsStay
  <2>4. PICK j \in Job : j = job[w] /\ j.kind = "stage" /\ j.payload = p /\ Resolved(w, j, q)
    BY <1>0, <1>1, <1>6
  <2>5. \/ \E k \in Job : /\ Goto(w, "stage", k)
                          /\ k.kind = "stage" /\ k.op = q /\ k.payload = p
                          /\ rows[q].status = "pending" /\ rows[q].payload = None
                          /\ SlotOfOp(q) = SlotOf[p]
        \/ \E k : Respond(w, k, 500)
        \/ (\E k : Respond(w, k, 201)) /\ rows[q].payload = p /\ SlotOfOp(q) = SlotOf[p]
    BY <1>4, <2>1, <2>4, ResolvedStages
  <2>6. ASSUME NEW k, Respond(w, k, 500)
        PROVE  SpendInv'
    BY <1>1, <2>2, <2>3, <2>6, StagingThrows
  <2>7. ASSUME SlotOfOp(q) = SlotOf[p], rows[q].status = "pending"
        PROVE  FALSE
    BY <1>1, <1>2, <2>1, <2>7 DEF Closed
  <2>8. ASSUME NEW k, Respond(w, k, 201), rows[q].payload = p
        PROVE  SpendInv'
    <3>1. \A r \in Ops : Active(r)' /\ SlotOfOp(r) = SlotOf[p] => rows'[r].payload = p
      BY <1>1, <1>2, <1>6 DEF Closed, Active, Present, TerminalResolved
    <3>2. \E r \in Ops : rows'[r].payload = p
      BY <1>6, <2>1, <2>8
    <3> QED
      BY <1>1, <2>2, <2>3, <2>8, <3>1, <3>2, StagingSucceeds
  <2> QED
    BY <2>5, <2>6, <2>7, <2>8
<1> QED
  BY <1>0, <1>1, <1>3, <1>5, <1>6 DEF Insert

\* stagePreparedAttempt binds the payment to its row.
LEMMA SpendStage ==
  ASSUME RoleGuarded, ServerInv, SpendInv, RowsStep, ChainStep, NEW w \in Workers,
         pc[w] = "stage", RouteStep(w)
  PROVE  SpendInv'
<1>0. PICK o, p : o = job[w].op /\ p = job[w].payload
  OBVIOUS
<1>1. /\ StageReturns(w, p) /\ UNCHANGED <<signed, mode>> /\ Alone(w)
      /\ p \in Payloads /\ p \in signed /\ signed \subseteq Payloads
      /\ job[w] \in Job /\ o \in Ops /\ job[w].kind = "stage"
      /\ SlotOfOp(o) = SlotOf[p]
  BY <1>0, StagingClient DEF Intake
<1>2. rows[o].status = "pending" /\ rows[o].payload = None
  BY <1>0 DEF SpendInv, Staging, Intake
<1>3. Stage(w)
  BY DEF RouteStep, WorkerStep, Insert, Stage, TakeOver, Reopen, Claim, Abandon, Blockhash,
     Revalidate, VerifyInvalid, VerifyValid, Submit, SettleFails, SettleSucceeds, Complete,
     LostWrite, LostFailClosed, Reconcile
<1>4. UNCHANGED <<sent, landed, expired>> /\ TableInv
  BY <1>3 DEF Stage, chainVars, SpendInv
<1> DEFINE new == StagedRow(rows[o], PidOf[p], p)
<1>5. CASE UNCHANGED rows /\ Respond(w, job[w], 500)
  <2>1. TableInv'
    <3>1. landed' \subseteq sent
      BY <1>4 DEF TableInv, ChainBound
    <3> QED
      BY <1>1, <1>4, <1>5, <3>1, QuietTable
  <2>2. PayloadsStay
    BY <1>5 DEF PayloadsStay
  <2>3. PICK k : Respond(w, k, 500)
    BY <1>5
  <2> QED
    BY <1>1, <2>1, <2>2, <2>3, StagingThrows
<1>6. CASE RoleAllows(rows[o], new) /\ rows' = [rows EXCEPT ![o] = new] /\ Respond(w, job[w], 201)
  <2>1. rows[o] \in Row /\ new.pid = PidOf[p] /\ new.payload = p
    BY <1>1 DEF ServerInv, IndType, StoreTypeOK, StagedRow, Row
  <2>2. rows[o].pid = PidOf[p]
    BY <1>6, <2>1 DEF RoleAllows
  <2>3. TableInv'
    BY <1>1, <1>2, <1>4, <1>6, <2>2, StampTable
  <2>4. rows'[o] = new /\ \A q \in Ops : q # o => rows'[q] = rows[q]
    BY <1>1, <1>6 DEF ServerInv, IndType, StoreTypeOK
  <2>5. PayloadsStay
    BY <1>2, <2>4 DEF PayloadsStay
  <2>6. \E q \in Ops : rows'[q].payload = p
    BY <1>1, <2>1, <2>4
  <2>7. ASSUME NEW q \in Ops, Active(q)', SlotOfOp(q) = SlotOf[p]
        PROVE  rows'[q].payload = p
    <3>1. CASE q = o
      BY <2>1, <2>4, <3>1
    <3>2. CASE q # o
      <4>1. ~Closed(q) /\ ~Closed(o)
        BY <1>2, <2>4, <2>7, <3>2 DEF Active, Present, Closed, TerminalResolved
      <4> QED
        BY <1>1, <1>4, <2>7, <3>2, <4>1 DEF TableInv, OneOpen
    <3> QED
      BY <3>1, <3>2
  <2>8. PICK k : Respond(w, k, 201)
    BY <1>6
  <2> QED
    BY <1>1, <2>3, <2>5, <2>6, <2>7, <2>8, StagingSucceeds
<1> QED
  BY <1>0, <1>2, <1>3, <1>5, <1>6 DEF Stage

---------------------------------------------------------------------------
(* The invariant and what follows from it *)

\* A step of the route.
LEMMA RouteStepInv ==
  ASSUME RoleGuarded, ServerInv, ServerInv', SpendInv, RowsStep, ChainStep, NEW w \in Workers,
         RouteStep(w)
  PROVE  SpendInv'
<1>1. pc[w] # "idle"
  BY DEF RouteStep, WorkerStep, Insert, Stage, TakeOver, Reopen, Claim, Abandon, Blockhash,
     Revalidate, VerifyInvalid, VerifyValid, Submit, SettleFails, SettleSucceeds, Complete,
     LostWrite, LostFailClosed, Reconcile
<1>2. pc[w] = "insert" \/ pc[w] = "stage" \/ pc[w] \notin Outside
  BY <1>1 DEF Outside, Intake
<1> QED
  BY <1>2, SpendInsert, SpendStage, WorkStep

\* Every step keeps the invariant of the client.
LEMMA SpendInvStep ==
  ASSUME RoleGuarded, ServerInv, SpendInv, [SpendNext]_spendVars
  PROVE  ServerInv' /\ SpendInv'
<1>1. ServerInv' /\ RowsStep /\ ChainStep
  BY ServerStep
<1>2. CASE \E change, complete, fit, enough \in BOOLEAN : RespondMessage(change, complete, fit, enough)
  BY <1>1, <1>2, MessageStep
<1>3. CASE Restart \/ FindAttempt
  BY <1>1, <1>3, RestartStep, FindStep
<1>4. ASSUME NEW w \in Workers, SignAndStage(w) \/ Post(w) \/ RouteStep(w) \/ RouteFails(w)
      PROVE  SpendInv'
  BY <1>1, <1>4, SignStep, PostStep, RouteStepInv, FailStep
<1>5. CASE TransportFails \/ ClientDies
  BY <1>1, <1>5, BreakStep
<1>6. CASE \/ \E p \in Payloads : Land(p) /\ UNCHANGED clientVars
           \/ \E o \in Ops : LapseLease(o) /\ UNCHANGED clientVars
  BY <1>1, <1>6, EnvironmentStep
<1>7. CASE UNCHANGED spendVars
  <2>1. UNCHANGED <<rows, pc, job, sent, landed, expired, session, client, signed, mode>>
        /\ UNCHANGED <<vars, signed>>
    BY <1>7 DEF spendVars, vars, clientVars
  <2>2. TableInv'
    <3>1. landed' \subseteq sent
      BY <2>1 DEF SpendInv, TableInv, ChainBound
    <3> QED
      BY <2>1, <3>1, QuietTable DEF SpendInv
  <2>3. ClientType' /\ Accepting'
    BY <2>1 DEF SpendInv, ClientType, Accepting
  <2>4. Staging' /\ Posting'
    BY <2>1 DEF SpendInv, Staging, Posting, Closed
  <2>5. PostedIsRetained'
    BY <2>1 DEF SpendInv, PostedIsRetained, FindActiveAttempt, Active, Present
  <2>6. Scored(session)' /\ Scored(client.saved)'
    BY <2>1 DEF SpendInv, Scored
  <2> QED
    BY <1>1, <2>2, <2>3, <2>4, <2>5, <2>6 DEF SpendInv
<1> QED
  BY <1>1, <1>2, <1>3, <1>4, <1>5, <1>6, <1>7 DEF SpendNext

\* The empty table and the new session satisfy it.
LEMMA SpendInitOK ==
  ASSUME SpendInit
  PROVE  ServerInv /\ SpendInv
<1>1. Init /\ session = NewSession /\ client = Idle(NewSession) /\ signed = {} /\ mode \in Modes
  BY DEF SpendInit
<1>2. \A o \in Ops : /\ rows[o].status = "absent" /\ rows[o].payload = None /\ rows[o].tx = None
  BY <1>1 DEF Init, StoreInit, AbsentRow
<1>3. SettledIsPaid
  BY <1>2 DEF SettledIsPaid
<1>4. ServerInv
  BY <1>1, <1>3, InitOK, OnceInit DEF ServerInv
<1>5. NewSession \in Session /\ NewSession.scores = None
  <2>1. 1 \in 1..Len(Versions)
    BY VersionsAssumption
  <2> QED
    BY <2>1 DEF NewSession, Session
<1>6. ClientType /\ client.step = "idle" /\ client.worker = None /\ client.saved = NewSession
  BY <1>1, <1>5, IdleType DEF ClientType
<1>7. RowsBound
  BY <1>2 DEF RowsBound, RowBound
<1>8. PidsOnce /\ OneOpen
  BY <1>2 DEF PidsOnce, OneOpen, Present, Closed
<1>9. SentBound /\ ChainBound
  BY <1>1 DEF Init, SentBound, ChainBound
<1>11. \A w \in Workers : pc[w] = "idle"
  BY <1>1 DEF Init
<1>12. Accepting /\ Staging
  BY <1>11 DEF Accepting, Staging, Outside, Intake
<1>13. Posting /\ PostedIsRetained
  BY <1>6 DEF Posting, PostedIsRetained
<1>14. Scored(session) /\ Scored(client.saved)
  BY <1>1, <1>5, <1>6, SpendNoneAssumption DEF Scored
<1> QED
  BY <1>4, <1>6, <1>7, <1>8, <1>9, <1>12, <1>13, <1>14 DEF SpendInv, TableInv

\* The invariant holds in every state of the client.
LEMMA SpendInductive ==
  ASSUME RoleGuarded
  PROVE  SpendSpec => [](ServerInv /\ SpendInv)
<1>1. SpendInit => ServerInv /\ SpendInv
  BY SpendInitOK
<1>2. (ServerInv /\ SpendInv) /\ [SpendNext]_spendVars => (ServerInv /\ SpendInv)'
  BY SpendInvStep
<1> QED
  BY <1>1, <1>2, PTL DEF SpendSpec

\* The client is one of the environments that X402Accept allows, so that what
\* is proved of the paid resource holds of the resource behind respond().
THEOREM ClientIsAnEnvironment ==
  ASSUME RoleGuarded
  PROVE  SpendSpec => Spec
<1>1. SpendInit => Init
  BY DEF SpendInit
<1>2. (ServerInv /\ SpendInv) /\ [SpendNext]_spendVars => [Next]_vars
  BY SpendStepIsStep
<1> QED
  BY <1>1, <1>2, SpendInductive, PTL DEF SpendSpec, Spec

\* Type correctness of the client and the resource.
THEOREM SpendTypeCorrect ==
  ASSUME RoleGuarded
  PROVE  SpendSpec => []SpendTypeOK
<1>1. SpendInv => (TypeOK => SpendTypeOK)
  BY DEF SpendInv, ClientType, SpendTypeOK
<1> QED
  BY <1>1, SpendInductive, ClientIsAnEnvironment, TypeCorrect, PTL

\* The scores shown are paid: runFitScoreSpend takes no ambiguous, replayed or
\* lost answer for a success, and "start over", a dead instance and an older
\* token do not tie a result to another version.
THEOREM ShownScoresArePaid ==
  ASSUME RoleGuarded
  PROVE  SpendSpec => []ScoresArePaid
<1>1. SpendInv => ScoresArePaid
  BY DEF SpendInv, Scored, ScoresArePaid
<1> QED
  BY <1>1, SpendInductive, PTL

\* Every payment posted to the route is the one that the table retains for the
\* version, so a retry never signs a second one beside it.
THEOREM PostsOnlyTheRetained ==
  ASSUME RoleGuarded
  PROVE  SpendSpec => []PostedIsRetained
<1>1. SpendInv => PostedIsRetained
  BY DEF SpendInv
<1> QED
  BY <1>1, SpendInductive, PTL

\* Whatever the facilitator says of payers and hashes, whatever dies, and
\* however late the calls of the route go on, the client is charged a second
\* time for a slot only where the resource has misjudged the first payment.
THEOREM ChargedOncePerVersion ==
  ASSUME RoleGuarded
  PROVE  SpendSpec => []ClientChargedOnce
<1>1. ASSUME SpendInv, MismatchIsUnpaid
      PROVE  ClientChargedOnce
  <2> SUFFICES ASSUME NEW p \in landed \cap Conforming, NEW q \in landed \cap Conforming,
                      SlotOf[p] = SlotOf[q], p # q
               PROVE  \E x \in Ops : rows[x].payload \in {p, q} /\ Misjudged(x)
    BY DEF ClientChargedOnce
  <2>1. TableInv
    BY <1>1 DEF SpendInv
  <2>2. p \in sent /\ q \in sent /\ p \in Payloads /\ q \in Payloads
    BY <2>1, ConformingAssumption DEF TableInv, ChainBound
  <2>3. PICK o \in Ops : rows[o].payload = p /\ rows[o].status \notin Untouched
    BY <2>1, <2>2 DEF TableInv, SentBound
  <2>4. PICK r \in Ops : rows[r].payload = q /\ rows[r].status \notin Untouched
    BY <2>1, <2>2 DEF TableInv, SentBound
  <2>5. SlotOf[p] = SlotOfOp(o) /\ SlotOf[q] = SlotOfOp(r)
    BY <2>1, <2>2, <2>3, <2>4, BoundFound
  <2>6. rows[o].status = "mismatch" \/ rows[r].status = "mismatch"
    BY <2>1, <2>3, <2>4, <2>5 DEF TableInv, OneOpen, Closed, Untouched
  <2>7. ASSUME NEW x \in Ops, NEW y \in landed \cap Conforming, rows[x].status = "mismatch",
               rows[x].payload = y, SlotOf[y] = SlotOfOp(x)
        PROVE  Misjudged(x)
    BY <1>1, <2>7 DEF MismatchIsUnpaid, Misjudged
  <2> QED
    BY <2>3, <2>4, <2>5, <2>6, <2>7
<1>2. Spec => []MismatchIsUnpaid
  BY MismatchesAreUnpaid
<1> QED
  BY <1>1, <1>2, SpendInductive, ClientIsAnEnvironment, PTL
=============================================================================
