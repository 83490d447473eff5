------------------------- MODULE X402EvidenceProofs -------------------------
(***************************************************************************)
(* Under the role trigger of migration 005 the calls, the table and the    *)
(* operator implement the abstract attempts of PaymentAttempt, and an      *)
(* attempt that knows its payer is given up as mismatched only on evidence *)
(* that it is unpaid.                                                      *)
(*                                                                         *)
(* The argument: after the one settle request of an operation there is one *)
(* worker that may say what became of it, the settler; every other worker  *)
(* that writes the row has first read it as awaiting evidence, and holds   *)
(* the hash and the payer the row still has.                               *)
(***************************************************************************)
EXTENDS X402OnceProofs

\* A worker on its way from the settle request to the first record of it.
Settler(w) == pc[w] \in {"settle", "complete", "lost", "failclosed"} /\ job[w].seen = None

\* A worker that has read its row as awaiting evidence.
Witness(w) == pc[w] # "idle" /\ job[w].seen = "awaiting_evidence"

\* What a worker has read of its row, by where it is.
SeenOK ==
    \A w \in Workers :
        /\ pc[w] \in PreSubmit \cup {"insert", "claim", "settle", "complete"} => job[w].seen = None
        /\ pc[w] = "reconcile" => job[w].seen = "awaiting_evidence"
        /\ pc[w] = "takeover" => job[w].seen \in InFlight
        /\ pc[w] \in {"lost", "failclosed"} => job[w].seen # "settling"

SettlerOK ==
    \A w \in Workers : Settler(w) =>
        settleCalls[job[w].op] > 0 /\ rows[job[w].op].status # "awaiting_evidence"

OneSettler ==
    \A v, w \in Workers : Settler(v) /\ Settler(w) /\ job[v].op = job[w].op => v = w

Unsaid == {"absent", "pending", "rejected", "settling"}

WitnessOK ==
    \A w \in Workers : Witness(w) =>
        /\ settleCalls[job[w].op] > 0
        /\ rows[job[w].op].status \notin Unsaid
        /\ rows[job[w].op].status = "awaiting_evidence" =>
              rows[job[w].op].tx = job[w].tx /\ rows[job[w].op].payer = job[w].payer

AwaitingSent == \A o \in Ops : rows[o].status = "awaiting_evidence" => settleCalls[o] > 0

OperTask == oper.step \in {"checked", "claimed"} => "reconcile" \in Tasks

\* The inductive invariant of the evidence.
EvidenceInv ==
    /\ SeenOK
    /\ SettlerOK
    /\ OneSettler
    /\ WitnessOK
    /\ AwaitingSent
    /\ OperTask

\* The stronger form of MismatchIsUnpaid: the hash will never pay.
MismatchOK ==
    \A o \in Ops : rows[o].status = "mismatch" /\ rows[o].payer =>
        ~ (rows[o].tx \in Conforming /\ SlotOf[rows[o].tx] = SlotOfOp(o))

---------------------------------------------------------------------------
(* How a step may move a worker *)

\* The move of worker w to label l with locals k brings in no settler, and
\* nothing about the row but what the worker knew or has just read.
MoveOK(w, l, k) ==
    /\ l \in PreSubmit \cup {"insert", "claim", "settle", "complete"} => k.seen = None
    /\ l = "reconcile" => k.seen = "awaiting_evidence"
    /\ l = "takeover" => k.seen \in InFlight
    /\ l \in {"lost", "failclosed"} => k.seen # "settling"
    /\ l \in {"settle", "complete", "lost", "failclosed"} /\ k.seen = None =>
          Settler(w) /\ k.op = job[w].op
    /\ l # "idle" /\ k.seen = "awaiting_evidence" =>
          \/ Witness(w) /\ k.op = job[w].op /\ k.tx = job[w].tx /\ k.payer = job[w].payer
          \/ /\ rows[k.op].status = "awaiting_evidence"
             /\ k.tx = rows[k.op].tx /\ k.payer = rows[k.op].payer

Moved(w, l, k) ==
    /\ pc' = [pc EXCEPT ![w] = l]
    /\ job' = [job EXCEPT ![w] = k]
    /\ MoveOK(w, l, k)

CalmJobs == UNCHANGED <<pc, job>> \/ \E w \in Workers : \E l, k : Moved(w, l, k)

\* A response ends the call.
LEMMA RespondMoves ==
  ASSUME NEW w \in Workers, NEW j, NEW s, Respond(w, j, s)
  PROVE  CalmJobs
<1>1. MoveOK(w, "idle", NoJob)
  BY DEF MoveOK, PreSubmit
<1> QED
  BY <1>1 DEF Respond, Moved, CalmJobs

\* A move to another label.
LEMMA GotoMoves ==
  ASSUME NEW w \in Workers, NEW j, NEW l, Goto(w, l, j), MoveOK(w, l, j)
  PROVE  CalmJobs
  BY DEF Goto, Moved, CalmJobs

\* A join that returns null forgets what it has read.
LEMMA JoinedNothingMoves ==
  ASSUME NEW w \in Workers, NEW j, JoinedNothing(w, j)
  PROVE  CalmJobs
<1> DEFINE k == [NoJob EXCEPT !.kind = j.kind, !.payload = j.payload, !.op = j.op]
<1>1. k.seen = None
  BY DEF NoJob
<1>2. None # "awaiting_evidence"
  BY StatusAssumption DEF AttemptStatus
<1> QED
  BY <1>1, <1>2, RespondMoves, GotoMoves DEF JoinedNothing, MoveOK, PreSubmit

\* joinStoredRow knows of the row what it has just read.
LEMMA JoinMoves ==
  ASSUME NEW w \in Workers, NEW j \in Job, JoinStoredRow(w, j)
  PROVE  CalmJobs
<1> DEFINE r == rows[j.op]
           k == [j EXCEPT !.seen = r.status, !.tx = r.tx, !.payer = r.payer, !.fence = None]
           m == [k EXCEPT !.fence = r.fence]
<1>1. /\ k.seen = r.status /\ k.tx = r.tx /\ k.payer = r.payer /\ k.op = j.op
      /\ m.seen = r.status /\ m.tx = r.tx /\ m.payer = r.payer /\ m.op = j.op
  BY DEF Job
<1>2. \/ Respond(w, j, JoinResponse(r.status))
      \/ JoinedNothing(w, j)
      \/ r.status = "awaiting_evidence" /\ Goto(w, "reconcile", m)
      \/ r.status \in InFlight /\ Goto(w, "takeover", k)
  BY DEF JoinStoredRow
<1>3. r.status = "awaiting_evidence" => MoveOK(w, "reconcile", m)
  BY <1>1 DEF MoveOK, PreSubmit
<1>4. r.status \in InFlight => MoveOK(w, "takeover", k)
  BY <1>1 DEF MoveOK, PreSubmit
<1> HIDE DEF k, m
<1> QED
  BY <1>2, <1>3, <1>4, RespondMoves, JoinedNothingMoves, GotoMoves

\* The re-read and the second join.
LEMMA RejoinMoves ==
  ASSUME IndType, NEW w \in Workers, pc[w] # "idle", Rejoin(w)
  PROVE  CalmJobs
<1> DEFINE j == [job[w] EXCEPT !.retry = TRUE]
<1>1. j \in Job /\ JoinStoredRow(w, j)
  BY JobType DEF Job, Rejoin
<1> HIDE DEF j
<1> QED
  BY <1>1, JoinMoves

\* What is done with a resolved row.
LEMMA ResolvedMoves ==
  ASSUME NEW w \in Workers, NEW j \in Job, NEW o \in Ops, j.seen = None, Resolved(w, j, o)
  PROVE  CalmJobs
<1> DEFINE k == [j EXCEPT !.op = o]
<1>1. k \in Job /\ k.seen = None
  BY DEF Job
<1>2. (\E s : Respond(w, k, s)) \/ JoinStoredRow(w, k) \/ Goto(w, "stage", k)
  BY DEF Resolved
<1>3. MoveOK(w, "stage", k)
  BY <1>1, StatusAssumption DEF MoveOK, PreSubmit, AttemptStatus
<1> HIDE DEF k
<1> QED
  BY <1>1, <1>2, <1>3, RespondMoves, JoinMoves, GotoMoves

\* accept and the reads of resolveOrCreate.
LEMMA CallMoves ==
  ASSUME NEW w \in Workers, NEW kind \in Kinds, NEW p \in Payloads,
         NEW approval \in Approvals \cup {None}, Call(w, kind, p, approval)
  PROVE  CalmJobs
<1> DEFINE j == [NoJob EXCEPT !.kind = kind, !.payload = p, !.approval = approval]
           m(a) == [j EXCEPT !.op = <<SlotOf[p], a>>]
<1>1. j \in Job /\ j.seen = None /\ \A a : m(a).seen = None
  BY DEF NoJob, Job
<1>2. ASSUME NEW o \in ResolveCandidates(SlotOf[p], PidOf[p]), Resolved(w, j, o)
      PROVE  CalmJobs
  <2>1. o \in Ops
    BY DEF ResolveCandidates, FindByDigestPayment, FindByPaymentId, FindActiveAttempt,
           FindSettledAttempt
  <2> QED
    BY <1>1, <1>2, <2>1, ResolvedMoves
<1>3. \/ \E s : Respond(w, j, s)
      \/ \E o \in ResolveCandidates(SlotOf[p], PidOf[p]) : Resolved(w, j, o)
      \/ \E a \in NewAuth(SlotOf[p], approval) : Goto(w, "insert", m(a))
  BY ZenonT(60) DEF Call
<1>4. \A a : MoveOK(w, "insert", m(a))
  BY <1>1, StatusAssumption DEF MoveOK, PreSubmit, AttemptStatus
<1> HIDE DEF j, m
<1> QED
  BY <1>2, <1>3, <1>4, RespondMoves, GotoMoves

\* The insert, the staging, the takeover and the reopening.
LEMMA IntakeMoves ==
  ASSUME IndType, SeenOK, NEW w \in Workers,
         Insert(w) \/ Stage(w) \/ TakeOver(w) \/ Reopen(w)
  PROVE  CalmJobs
<1>1. job[w] \in Job /\ job[w].op \in Ops
  BY JobType DEF Insert, Stage, TakeOver, Reopen
<1>2. CASE Insert(w)
  <2>1. job[w].seen = None
    BY <1>2 DEF Insert, SeenOK
  <2>2. ASSUME NEW q \in ConflictWinner(job[w].op, PidOf[job[w].payload]), Resolved(w, job[w], q)
        PROVE  CalmJobs
    <3>1. q \in Ops
      BY <1>1 DEF ConflictWinner, FindByPaymentId, FindActiveAttempt
    <3> QED
      BY <1>1, <2>1, <2>2, <3>1, ResolvedMoves
  <2>3. MoveOK(w, "stage", job[w])
    BY <2>1, StatusAssumption DEF MoveOK, PreSubmit, AttemptStatus
  <2> QED
    BY <1>2, <2>2, <2>3, JoinedNothingMoves, GotoMoves DEF Insert
<1>3. CASE Stage(w)
  BY <1>3, RespondMoves DEF Stage
<1>4. CASE TakeOver(w)
  <2> DEFINE k == [job[w] EXCEPT !.fence = FreshFence]
             l == IF job[w].seen = "settling" THEN "reopen" ELSE "reconcile"
  <2>1. k.seen = job[w].seen /\ k.op = job[w].op /\ k.tx = job[w].tx /\ k.payer = job[w].payer
    BY <1>1 DEF Job
  <2>2. job[w].seen \in InFlight /\ pc[w] # "idle"
    BY <1>4 DEF TakeOver, SeenOK
  <2>3. MoveOK(w, l, k)
    BY <2>1, <2>2 DEF MoveOK, PreSubmit, InFlight, Witness
  <2>4. Goto(w, l, k) \/ Respond(w, job[w], 202) \/ JoinStoredRow(w, job[w])
    BY <1>4 DEF TakeOver
  <2> HIDE DEF k, l
  <2> QED
    BY <1>1, <2>3, <2>4, GotoMoves, RespondMoves, JoinMoves
<1>5. CASE Reopen(w)
  BY <1>5, RespondMoves, JoinedNothingMoves DEF Reopen
<1> QED
  BY <1>2, <1>3, <1>4, <1>5

\* A claimer has read nothing as awaiting evidence.
LEMMA ClaimerMoves ==
  ASSUME IndType, SeenOK, NEW w \in Workers,
         Claim(w) \/ Abandon(w) \/ Blockhash(w) \/ Revalidate(w) \/ VerifyInvalid(w)
  PROVE  CalmJobs
<1>1. job[w] \in Job /\ pc[w] # "idle" /\ job[w].seen = None /\ None # "awaiting_evidence"
  BY JobType, StatusAssumption
     DEF Claim, Abandon, Blockhash, Revalidate, VerifyInvalid, SeenOK, PreSubmit, AttemptStatus
<1>2. CASE Claim(w)
  <2> DEFINE k == [job[w] EXCEPT !.fence = FreshFence]
             new == ClaimedRow(rows[job[w].op], FreshFence, job[w].payload)
             l == IF new.payload # job[w].payload THEN "abandon"
                  ELSE IF new.blockhash THEN "revalidate" ELSE "blockhash"
  <2>1. k.seen = None /\ l \in {"abandon", "revalidate", "blockhash"}
    BY <1>1 DEF Job
  <2>2. Goto(w, l, k) \/ Rejoin(w)
    BY <1>2 DEF Claim
  <2> HIDE DEF k, l
  <2>3. MoveOK(w, l, k)
    BY <1>1, <2>1 DEF MoveOK
  <2> QED
    BY <1>1, <2>2, <2>3, GotoMoves, RejoinMoves
<1>3. CASE Abandon(w) \/ VerifyInvalid(w)
  BY <1>3, RespondMoves DEF Abandon, VerifyInvalid
<1>4. CASE Blockhash(w)
  <2>1. MoveOK(w, "revalidate", job[w])
    BY <1>1 DEF MoveOK
  <2> QED
    BY <1>4, <2>1, GotoMoves DEF Blockhash
<1>5. CASE Revalidate(w)
  <2>1. MoveOK(w, "verify", job[w])
    BY <1>1 DEF MoveOK
  <2>2. pc[w] = "revalidate2" => MoveOK(w, "submit", job[w])
    BY <1>1 DEF MoveOK
  <2> QED
    BY <1>1, <1>5, <2>1, <2>2, GotoMoves, RejoinMoves DEF Revalidate
<1> QED
  BY <1>2, <1>3, <1>4, <1>5

\* A call whose payment is approved has read no row.
LEMMA VerifyValidMoves ==
  ASSUME IndType, SeenOK, NEW w \in Workers, NEW named \in BOOLEAN, VerifyValid(w, named)
  PROVE  CalmJobs
<1> DEFINE k == [job[w] EXCEPT !.payer = TRUE]
<1>1. job[w] \in Job /\ pc[w] # "idle" /\ job[w].seen = None /\ None # "awaiting_evidence"
  BY JobType, StatusAssumption DEF VerifyValid, SeenOK, PreSubmit, AttemptStatus
<1>2. k.seen = None
  BY <1>1 DEF Job
<1>3. Goto(w, "revalidate2", job[w]) \/ Goto(w, "revalidate2", k) \/ Rejoin(w)
  BY DEF VerifyValid
<1> HIDE DEF k
<1>4. MoveOK(w, "revalidate2", job[w]) /\ MoveOK(w, "revalidate2", k)
  BY <1>1, <1>2 DEF MoveOK
<1> QED
  BY <1>1, <1>3, <1>4, GotoMoves, RejoinMoves

\* After the settle request the call keeps what it knows.
LEMMA SettlingMoves ==
  ASSUME IndType, SeenOK, NEW w \in Workers,
         \/ SettleFails(w) \/ SettleSucceeds(w) \/ Complete(w) \/ LostWrite(w)
         \/ LostFailClosed(w) \/ Reconcile(w)
  PROVE  CalmJobs
<1>1. job[w] \in Job /\ pc[w] \in {"settle", "complete", "lost", "failclosed", "reconcile"}
  BY JobType DEF SettleFails, SettleSucceeds, Complete, LostWrite, LostFailClosed, Reconcile
<1>2. /\ pc[w] # "idle" /\ job[w].seen \in {None, "awaiting_evidence"}
      /\ job[w].seen = None => Settler(w)
      /\ job[w].seen = "awaiting_evidence" => Witness(w)
      /\ None \notin {"awaiting_evidence", "settling"}
  BY <1>1, StatusAssumption DEF SeenOK, Settler, Witness, Job, InFlight, AttemptStatus
<1>3. ASSUME NEW h, SettleSucceeds(w), Goto(w, "complete", [job[w] EXCEPT !.tx = h, !.payer = TRUE])
      PROVE  CalmJobs
  <2> DEFINE k == [job[w] EXCEPT !.tx = h, !.payer = TRUE]
  <2>1. k.seen = job[w].seen /\ k.op = job[w].op
    BY <1>1 DEF Job
  <2>2. job[w].seen = None
    BY <1>3 DEF SettleSucceeds, SeenOK
  <2>3. MoveOK(w, "complete", k)
    BY <1>2, <2>1, <2>2 DEF MoveOK
  <2> QED
    BY <1>3, <2>3, GotoMoves
<1>4. MoveOK(w, "lost", job[w]) /\ MoveOK(w, "failclosed", job[w])
  BY <1>2 DEF MoveOK, PreSubmit
<1>5. CASE SettleSucceeds(w)
  BY <1>3, <1>5 DEF SettleSucceeds
<1>6. CASE ~SettleSucceeds(w)
  <2>1. \/ \E s : Respond(w, job[w], s)
        \/ Goto(w, "lost", job[w]) \/ Goto(w, "failclosed", job[w])
    BY ZenonT(60), <1>6 DEF SettleFails, SettleOutcome, Complete, LostWrite, LostFailClosed, Reconcile,
                PersistSettled, FailClosed
  <2> QED
    BY <1>4, <2>1, RespondMoves, GotoMoves
<1> QED
  BY <1>5, <1>6

\* Every step but a settle request moves the workers this way.
LEMMA JobsCalm ==
  ASSUME IndType, SeenOK, [Next]_vars, \A w \in Workers : ~Submit(w)
  PROVE  CalmJobs
<1>1. CASE \E w \in Workers, k \in Kinds, p \in Payloads, a \in Approvals \cup {None} :
              Call(w, k, p, a)
  BY <1>1, CallMoves
<1>2. ASSUME NEW w \in Workers, WorkerStep(w)
      PROVE  CalmJobs
  BY <1>2, IntakeMoves, ClaimerMoves, VerifyValidMoves, SettlingMoves DEF WorkerStep
<1>3. CASE Environment
  <2>1. ASSUME NEW w \in Workers, Crash(w)
        PROVE  CalmJobs
    <3>1. MoveOK(w, "idle", NoJob)
      BY DEF MoveOK, PreSubmit
    <3> QED
      BY <2>1, <3>1 DEF Crash, Moved, CalmJobs
  <2> QED
    BY <1>3, <2>1 DEF Environment, Land, ExpireBlockhash, LapseLease, CalmJobs
<1>4. CASE Operator \/ UNCHANGED vars
  BY <1>4 DEF Operator, ReleaseCheck, Release, ReconcileCheck, ReconcileClaim, ReconcileSettled,
              CalmJobs, vars
<1> QED
  BY <1>1, <1>2, <1>3, <1>4 DEF Next

---------------------------------------------------------------------------
(* How a step may write a row *)

\* A write that is not the settler's.
CalmRow(old, new) ==
    /\ new.status = "awaiting_evidence" =>
          old.status = "awaiting_evidence" /\ new.tx = old.tx /\ new.payer = old.payer
    /\ old.status \notin Unsaid => new.status \notin Unsaid

CalmRows == \A o \in Ops : CalmRow(rows[o], rows'[o])

\* What the abstract attempts ask of a step that writes the row of o.
Lawful(o) ==
    /\ \A q \in Ops : q # o => rows'[q] = rows[q]
    /\ rows[o].status = "absent" =>
          rows'[o].status = "absent" \/ FindActiveAttempt(SlotOfOp(o)) = {}
    /\ rows'[o].status = "settled" /\ rows[o].status # "settled" =>
          /\ \A q \in FindSettledAttempt(SlotOfOp(o)) : q = o
          /\ settleCalls[o] > 0 \/ "reconcile" \in Tasks
    /\ rows'[o].status = "manual" => rows[o].status = "manual" \/ settleCalls[o] > 0
    /\ rows'[o].status = "mismatch" /\ rows[o].status # "mismatch" =>
          \E w \in Workers :
             /\ pc[w] = "reconcile" /\ job[w].op = o /\ "mismatch" \in Inspection(w)
             /\ rows[o].status = "awaiting_evidence"
             /\ rows'[o].tx = rows[o].tx /\ rows'[o].payer = rows[o].payer

LawfulRows == UNCHANGED rows \/ \E o \in Ops : Lawful(o)

\* A step that writes no row.
LEMMA SameRows ==
  ASSUME UNCHANGED rows
  PROVE  CalmRows /\ LawfulRows
  BY DEF CalmRows, CalmRow, LawfulRows

\* A step that writes one row and gives no verdict on it.
LEMMA OneRow ==
  ASSUME StoreTypeOK, NEW o \in Ops, NEW new, rows' = [rows EXCEPT ![o] = new],
         CalmRow(rows[o], new), rows[o].status # "absent",
         new.status \notin {"settled", "manual", "mismatch"} \/ new.status = rows[o].status
  PROVE  CalmRows /\ LawfulRows
<1>1. rows'[o] = new /\ \A q \in Ops : q # o => rows'[q] = rows[q]
  BY DEF StoreTypeOK
<1>2. CalmRows
  BY <1>1 DEF CalmRows, CalmRow
<1>3. Lawful(o)
  BY <1>1 DEF Lawful
<1> QED
  BY <1>2, <1>3 DEF LawfulRows

\* A takeover, by a worker or by the operator.
LEMMA TakeOverCalm ==
  ASSUME StoreTypeOK, NEW o \in Ops, CanTakeOver(o),
         rows' = [rows EXCEPT ![o] = TakenRow(rows[o], FreshFence)]
  PROVE  CalmRows /\ LawfulRows
<1> DEFINE new == TakenRow(rows[o], FreshFence)
<1>1. rows[o] \in Row
  BY DEF StoreTypeOK
<1>2. new.status = rows[o].status /\ new.tx = rows[o].tx /\ new.payer = rows[o].payer
  BY <1>1 DEF TakenRow, Row
<1>3. CalmRow(rows[o], new) /\ rows[o].status # "absent"
  BY <1>2 DEF CalmRow, CanTakeOver, InFlight
<1> HIDE DEF new
<1> QED
  BY <1>2, <1>3, OneRow DEF new

\* A lease-bound update of a column.
LEMMA ColumnCalm ==
  ASSUME StoreTypeOK, NEW o \in Ops, NEW new \in Row, NEW fence,
         new.status = rows[o].status, new.tx = rows[o].tx,
         rows' = AfterTransition(o, {"settling"}, fence, new)
  PROVE  CalmRows /\ LawfulRows
<1>1. CASE TransitionResult(o, {"settling"}, fence, new) # "ok"
  BY <1>1, SameRows DEF AfterTransition
<1>2. CASE TransitionResult(o, {"settling"}, fence, new) = "ok"
  <2>1. rows[o].status = "settling"
    BY <1>2 DEF TransitionResult, HoldsLease
  <2>2. rows' = [rows EXCEPT ![o] = new]
    BY <1>2, <2>1 DEF AfterTransition, Kept, InFlight
  <2>3. CalmRow(rows[o], new)
    BY <2>1 DEF CalmRow
  <2> QED
    BY <2>1, <2>2, <2>3, OneRow
<1> QED
  BY <1>1, <1>2

\* Under the trigger a row in flight is not handed back.
LEMMA HandBackCalm ==
  ASSUME RoleGuarded, IndType, NEW o \in Ops, NEW s \in {"pending", "rejected"}, NEW fence,
         rows' = AfterTransition(o, {"settling"}, fence, [rows[o] EXCEPT !.status = s])
  PROVE  CalmRows /\ LawfulRows
<1> DEFINE new == [rows[o] EXCEPT !.status = s]
<1>1. rows[o] \in Row
  BY DEF IndType, StoreTypeOK
<1>2. new.status = s
  BY <1>1 DEF Row
<1> HIDE DEF new
<1>3. rows[o].status = "settling" => ~RoleAllows(rows[o], new)
  BY <1>2 DEF RoleAllows, InFlight
<1>4. TransitionResult(o, {"settling"}, fence, new) # "ok"
  BY <1>3 DEF TransitionResult, HoldsLease
<1>5. UNCHANGED rows
  BY <1>4 DEF AfterTransition, new
<1> QED
  BY <1>5, SameRows

\* A settled write, for an attempt that has been sent or by the operator.
LEMMA SettledCalm ==
  ASSUME StoreTypeOK, NEW o \in Ops, NEW tx, NEW fence,
         settleCalls[o] > 0 \/ "reconcile" \in Tasks,
         rows' = AfterTransition(o, InFlight, fence,
                                 [rows[o] EXCEPT !.status = "settled", !.tx = tx])
  PROVE  CalmRows /\ LawfulRows
<1> DEFINE new == [rows[o] EXCEPT !.status = "settled", !.tx = tx]
<1>1. rows[o] \in Row
  BY DEF StoreTypeOK
<1>2. /\ new.status = "settled" /\ new.payer = rows[o].payer
      /\ Kept(new).status = "settled" /\ Kept(new).payer = rows[o].payer
  BY <1>1 DEF Row, Kept, InFlight
<1> HIDE DEF new
<1>3. CASE TransitionResult(o, InFlight, fence, new) # "ok"
  BY <1>3, SameRows DEF AfterTransition, new
<1>4. CASE TransitionResult(o, InFlight, fence, new) = "ok"
  <2>1. rows[o].status \in InFlight /\ ~SettledTwice(o, new)
    BY <1>4 DEF TransitionResult, HoldsLease
  <2>2. rows' = [rows EXCEPT ![o] = Kept(new)]
    BY <1>4 DEF AfterTransition, new
  <2>3. rows'[o] = Kept(new) /\ \A q \in Ops : q # o => rows'[q] = rows[q]
    BY <2>2 DEF StoreTypeOK
  <2>4. CalmRow(rows[o], Kept(new))
    BY <1>2 DEF CalmRow, Unsaid
  <2>5. CalmRows
    BY <2>3, <2>4 DEF CalmRows, CalmRow
  <2>6. \A q \in FindSettledAttempt(SlotOfOp(o)) : q = o
    BY <1>2, <2>1 DEF SettledTwice
  <2>7. Lawful(o)
    BY <1>2, <2>1, <2>3, <2>6 DEF Lawful, InFlight
  <2> QED
    BY <2>5, <2>7 DEF LawfulRows
<1> QED
  BY <1>3, <1>4

\* The insert opens the only attempt of its slot under way.
LEMMA InsertRows ==
  ASSUME IndType, NEW w \in Workers, Insert(w)
  PROVE  CalmRows /\ LawfulRows
<1> DEFINE o == job[w].op
           new == NewRow(PidOf[job[w].payload])
<1>1. o \in Ops /\ rows \in [Ops -> Row]
  BY JobType DEF Insert, IndType, StoreTypeOK
<1>2. CASE UNCHANGED rows
  BY <1>2, SameRows
<1>3. CASE ~InsertConflict(o, PidOf[job[w].payload]) /\ rows' = [rows EXCEPT ![o] = new]
  <2>1. new.status = "pending"
    BY DEF NewRow, AbsentRow
  <2> HIDE DEF new
  <2>2. rows'[o] = new /\ \A q \in Ops : q # o => rows'[q] = rows[q]
    BY <1>1, <1>3
  <2>3. rows[o].status = "absent" /\ FindActiveAttempt(SlotOfOp(o)) = {}
    BY <1>3 DEF InsertConflict, Present
  <2>4. CalmRow(rows[o], new)
    BY <2>1, <2>3 DEF CalmRow, Unsaid
  <2>5. CalmRows
    BY <2>2, <2>4 DEF CalmRows, CalmRow
  <2>6. Lawful(o)
    BY <2>1, <2>2, <2>3 DEF Lawful
  <2> QED
    BY <1>1, <2>5, <2>6 DEF LawfulRows
<1> QED
  BY <1>2, <1>3 DEF Insert

\* Staging stamps a pending row, a claim makes it settling.
LEMMA PendingRows ==
  ASSUME IndType, NEW w \in Workers, Stage(w) \/ Claim(w)
  PROVE  CalmRows /\ LawfulRows
<1> DEFINE o == job[w].op
           staged == StagedRow(rows[o], PidOf[job[w].payload], job[w].payload)
           claimed == ClaimedRow(rows[o], FreshFence, job[w].payload)
<1>1. o \in Ops /\ StoreTypeOK /\ rows[o] \in Row
  BY JobType DEF Stage, Claim, IndType
<1>2. /\ staged.status = rows[o].status /\ staged.payer = rows[o].payer
      /\ claimed.status = "settling" /\ claimed.payer = rows[o].payer
  BY <1>1 DEF StagedRow, ClaimedRow, Row
<1>3. \/ UNCHANGED rows
      \/ rows[o].status = "pending" /\ rows' = [rows EXCEPT ![o] = staged]
      \/ rows[o].status = "pending" /\ rows' = [rows EXCEPT ![o] = claimed]
  BY DEF Stage, Claim, CanClaim
<1> HIDE DEF staged, claimed
<1>4. rows[o].status = "pending" => CalmRow(rows[o], staged) /\ CalmRow(rows[o], claimed)
  BY <1>2 DEF CalmRow, Unsaid
<1> QED
  BY <1>1, <1>2, <1>3, <1>4, SameRows, OneRow

\* The takeover, the reopening and the claimer's writes.
LEMMA ClaimerRows ==
  ASSUME RoleGuarded, IndType, NEW w \in Workers,
         \/ TakeOver(w) \/ Reopen(w) \/ Abandon(w) \/ VerifyInvalid(w)
         \/ Blockhash(w) \/ \E named \in BOOLEAN : VerifyValid(w, named)
  PROVE  CalmRows /\ LawfulRows
<1> DEFINE o == job[w].op
<1>1. o \in Ops /\ StoreTypeOK /\ rows[o] \in Row
  BY JobType DEF TakeOver, Reopen, Abandon, VerifyInvalid, Blockhash, VerifyValid, IndType
<1>2. CASE TakeOver(w)
  BY <1>1, <1>2, TakeOverCalm, SameRows DEF TakeOver
<1>3. CASE Reopen(w) \/ Abandon(w) \/ VerifyInvalid(w)
  BY <1>1, <1>3, HandBackCalm DEF Reopen, Abandon, VerifyInvalid
<1>4. ASSUME NEW new \in {[rows[o] EXCEPT !.blockhash = TRUE], [rows[o] EXCEPT !.payer = TRUE]},
             rows' = AfterTransition(o, {"settling"}, job[w].fence, new)
      PROVE  CalmRows /\ LawfulRows
  <2>1. new \in Row /\ new.status = rows[o].status /\ new.tx = rows[o].tx
    BY ZenonT(60), <1>1, <1>4 DEF Row
  <2> QED
    BY <1>1, <1>4, <2>1, ColumnCalm
<1>5. CASE Blockhash(w)
  BY <1>4, <1>5, SameRows DEF Blockhash
<1>6. CASE \E named \in BOOLEAN : VerifyValid(w, named)
  BY <1>4, <1>6, SameRows DEF VerifyValid
<1> QED
  BY <1>2, <1>3, <1>5, <1>6

\* Landing, expiry, lapsing leases, crashes and the operator.
LEMMA OtherRows ==
  ASSUME IndType, EvidenceInv, Environment \/ Operator \/ UNCHANGED vars
  PROVE  CalmRows /\ LawfulRows
<1>1. StoreTypeOK /\ OperOK
  BY DEF IndType
<1>2. ASSUME NEW o \in Ops, LapseLease(o)
      PROVE  CalmRows /\ LawfulRows
  <2> DEFINE new == [rows[o] EXCEPT !.lease = "lapsed"]
  <2>1. rows' = [rows EXCEPT ![o] = new] /\ rows[o].status \in InFlight /\ rows[o] \in Row
    BY <1>1, <1>2 DEF LapseLease, StoreTypeOK
  <2>2. new.status = rows[o].status /\ new.tx = rows[o].tx /\ new.payer = rows[o].payer
    BY <2>1 DEF Row
  <2> HIDE DEF new
  <2>3. CalmRow(rows[o], new) /\ rows[o].status # "absent"
    BY <2>1, <2>2 DEF CalmRow, InFlight
  <2> QED
    BY <1>1, <2>1, <2>2, <2>3, OneRow
<1>3. CASE Environment
  BY <1>2, <1>3, SameRows DEF Environment, Land, ExpireBlockhash, Crash, storeVars
<1>4. CASE Release
  <2> DEFINE o == oper.op
             new == ReleasedRow(rows[o], oper.approval)
  <2>1. o \in Ops /\ rows[o] \in Row
    BY <1>1, <1>4 DEF Release, OperOK, StoreTypeOK
  <2>2. new.status = "released" /\ new.payer = rows[o].payer
    BY <2>1 DEF ReleasedRow, Row
  <2>3. CASE ~(rows[o].payload \in expired /\ rows[o].status = "manual")
    BY <1>4, <2>3, SameRows DEF Release, storeVars
  <2> HIDE DEF new
  <2>4. rows[o].status = "manual" => CalmRow(rows[o], new)
    BY <2>2 DEF CalmRow, Unsaid
  <2>5. CASE rows[o].payload \in expired /\ rows[o].status = "manual"
    <3>1. rows' = [rows EXCEPT ![o] = new]
      BY <1>4, <2>5 DEF Release, new
    <3> QED
      BY <1>1, <2>1, <2>2, <2>4, <2>5, <3>1, OneRow
  <2> QED
    BY <2>3, <2>5
<1>5. CASE ReconcileClaim
  <2>1. oper.op \in Ops
    BY <1>1, <1>5 DEF ReconcileClaim, OperOK
  <2> QED
    BY <1>1, <1>5, <2>1, TakeOverCalm, SameRows DEF ReconcileClaim
<1>6. CASE ReconcileSettled
  <2>1. oper.op \in Ops /\ "reconcile" \in Tasks
    BY <1>1, <1>6 DEF ReconcileSettled, OperOK, EvidenceInv, OperTask
  <2> QED
    BY <1>1, <1>6, <2>1, SettledCalm DEF ReconcileSettled
<1>7. CASE UNCHANGED rows
  BY <1>7, SameRows
<1> QED
  BY <1>3, <1>4, <1>5, <1>6, <1>7 DEF Operator, ReleaseCheck, ReconcileCheck, storeVars, vars

---------------------------------------------------------------------------
(* The verdict on a settle request *)

\* The settled write of a settler or of a witness.
LEMMA PersistRows ==
  ASSUME IndType, EvidenceInv, NEW w \in Workers, pc[w] \in {"complete", "reconcile"},
         PersistSettled(w)
  PROVE  CalmRows /\ LawfulRows
<1>1. job[w].op \in Ops /\ StoreTypeOK
  BY JobType DEF IndType
<1>2. Settler(w) \/ Witness(w)
  BY DEF EvidenceInv, SeenOK, Settler, Witness
<1>3. settleCalls[job[w].op] > 0
  BY <1>2 DEF EvidenceInv, SettlerOK, WitnessOK
<1> QED
  BY <1>1, <1>3, SettledCalm DEF PersistSettled

\* A witness of a row that finds it paid, mismatched, or still unsettled.
LEMMA WitnessRows ==
  ASSUME IndType, EvidenceInv, NEW w \in Workers,
         Reconcile(w) \/ (LostFailClosed(w) /\ ~Settler(w))
  PROVE  CalmRows /\ LawfulRows
<1> DEFINE o == job[w].op
<1>1. o \in Ops /\ StoreTypeOK /\ rows[o] \in Row /\ rows \in [Ops -> Row] /\ job[w] \in Job
  BY JobType DEF Reconcile, LostFailClosed, IndType, StoreTypeOK
<1>2. Witness(w)
  BY <1>1 DEF Reconcile, LostFailClosed, EvidenceInv, SeenOK, Settler, Witness, Job, InFlight
<1>3. /\ rows[o].status \notin Unsaid
      /\ rows[o].status = "awaiting_evidence" =>
            rows[o].tx = job[w].tx /\ rows[o].payer = job[w].payer
  BY <1>2 DEF EvidenceInv, WitnessOK
<1>4. CASE Reconcile(w)
  <2> DEFINE new == [rows[o] EXCEPT !.status = "mismatch"]
  <2>1. CASE PersistSettled(w)
    BY <1>4, <2>1, PersistRows DEF Reconcile
  <2>2. CASE UNCHANGED rows
    BY <2>2, SameRows
  <2>3. CASE /\ "mismatch" \in Inspection(w)
             /\ rows' = AfterTransition(o, {"awaiting_evidence"}, job[w].fence, new)
    <3>1. /\ Kept(new).status = "mismatch" /\ Kept(new).payer = rows[o].payer
          /\ Kept(new).tx = rows[o].tx
      BY <1>1 DEF Row, Kept, InFlight
    <3> HIDE DEF new
    <3>2. CASE TransitionResult(o, {"awaiting_evidence"}, job[w].fence, new) # "ok"
      BY <2>3, <3>2, SameRows DEF AfterTransition
    <3>3. CASE TransitionResult(o, {"awaiting_evidence"}, job[w].fence, new) = "ok"
      <4>1. rows[o].status = "awaiting_evidence"
        BY <3>3 DEF TransitionResult, HoldsLease
      <4>2. rows'[o] = Kept(new) /\ \A q \in Ops : q # o => rows'[q] = rows[q]
        BY <1>1, <2>3, <3>3 DEF AfterTransition
      <4>3. CalmRow(rows[o], Kept(new))
        BY <3>1 DEF CalmRow, Unsaid
      <4>4. CalmRows
        BY <4>2, <4>3 DEF CalmRows, CalmRow
      <4>5. pc[w] = "reconcile"
        BY <1>4 DEF Reconcile
      <4>6. Lawful(o)
        BY <2>3, <3>1, <4>1, <4>2, <4>5 DEF Lawful
      <4> QED
        BY <1>1, <4>4, <4>6 DEF LawfulRows
    <3> QED
      BY <3>2, <3>3
  <2> QED
    BY <1>4, <2>1, <2>2, <2>3 DEF Reconcile
<1>5. CASE LostFailClosed(w)
  <2> DEFINE new == [rows[o] EXCEPT !.status = "awaiting_evidence", !.tx = job[w].tx]
  <2>1. new.status = "awaiting_evidence" /\ new.tx = job[w].tx /\ new.payer = rows[o].payer
    BY <1>1 DEF Row
  <2>2. rows' = AfterTransition(o, InFlight, job[w].fence, new)
    BY <1>5 DEF LostFailClosed, FailClosed
  <2> HIDE DEF new
  <2>3. CASE TransitionResult(o, InFlight, job[w].fence, new) # "ok"
    BY <2>2, <2>3, SameRows DEF AfterTransition
  <2>4. CASE TransitionResult(o, InFlight, job[w].fence, new) = "ok"
    <3>1. rows[o].status = "awaiting_evidence"
      BY <1>3, <2>4 DEF TransitionResult, HoldsLease, InFlight, Unsaid
    <3>2. rows' = [rows EXCEPT ![o] = new]
      BY <2>1, <2>2, <2>4 DEF AfterTransition, Kept, InFlight
    <3>3. CalmRow(rows[o], new)
      BY <1>3, <2>1, <3>1 DEF CalmRow, Unsaid
    <3> QED
      BY <1>1, <2>1, <3>1, <3>2, <3>3, OneRow
  <2> QED
    BY <2>3, <2>4
<1> QED
  BY <1>4, <1>5

\* The workers after a step that is no settle request: settlers and witnesses
\* were there before, or have just read an awaiting row.
LEMMA CalmWorkers ==
  ASSUME LocalOK, SeenOK, CalmJobs
  PROVE  /\ SeenOK'
         /\ \A v \in Workers : Settler(v)' => Settler(v) /\ job'[v].op = job[v].op
         /\ \A v \in Workers : Witness(v)' =>
               \/ /\ Witness(v) /\ job'[v].op = job[v].op
                  /\ job'[v].tx = job[v].tx /\ job'[v].payer = job[v].payer
               \/ /\ rows[job'[v].op].status = "awaiting_evidence"
                  /\ job'[v].tx = rows[job'[v].op].tx /\ job'[v].payer = rows[job'[v].op].payer
<1>1. CASE UNCHANGED <<pc, job>>
  BY <1>1 DEF SeenOK, Settler, Witness
<1>2. ASSUME NEW w \in Workers, NEW l, NEW k, Moved(w, l, k)
      PROVE  /\ SeenOK'
             /\ \A v \in Workers : Settler(v)' => Settler(v) /\ job'[v].op = job[v].op
             /\ \A v \in Workers : Witness(v)' =>
                   \/ /\ Witness(v) /\ job'[v].op = job[v].op
                      /\ job'[v].tx = job[v].tx /\ job'[v].payer = job[v].payer
                   \/ /\ rows[job'[v].op].status = "awaiting_evidence"
                      /\ job'[v].tx = rows[job'[v].op].tx /\ job'[v].payer = rows[job'[v].op].payer
  <2>1. /\ pc'[w] = l /\ job'[w] = k
        /\ \A v \in Workers : v # w => pc'[v] = pc[v] /\ job'[v] = job[v]
    BY <1>2 DEF Moved, LocalOK
  <2>2. MoveOK(w, l, k)
    BY <1>2 DEF Moved
  <2>3. SeenOK'
    BY <2>1, <2>2 DEF SeenOK, MoveOK
  <2>4. Settler(w)' => Settler(w) /\ job'[w].op = job[w].op
    BY <2>1, <2>2 DEF MoveOK, Settler
  <2>5. Witness(w)' =>
           \/ /\ Witness(w) /\ job'[w].op = job[w].op
              /\ job'[w].tx = job[w].tx /\ job'[w].payer = job[w].payer
           \/ /\ rows[job'[w].op].status = "awaiting_evidence"
              /\ job'[w].tx = rows[job'[w].op].tx /\ job'[w].payer = rows[job'[w].op].payer
    BY <2>1, <2>2 DEF MoveOK, Witness
  <2> QED
    BY <2>1, <2>3, <2>4, <2>5 DEF Settler, Witness
<1> QED
  BY <1>1, <1>2 DEF CalmJobs

\* Busy workers, before and after a step, have operations.
LEMMA WorkerOps ==
  ASSUME LocalOK
  PROVE  \A v \in Workers : Settler(v) \/ Witness(v) => job[v].op \in Ops
  BY DEF LocalOK, Busy, Settler, Witness

\* Calm steps keep the invariant of the evidence.
LEMMA CalmPreserves ==
  ASSUME IndType, IndType', OnceInv, EvidenceInv, CalmRows, CalmJobs, UNCHANGED settleCalls,
         OperTask'
  PROVE  EvidenceInv'
<1>1. LocalOK /\ LocalOK' /\ SeenOK
  BY DEF IndType, EvidenceInv
<1>2. /\ SeenOK'
      /\ \A v \in Workers : Settler(v)' => Settler(v) /\ job'[v].op = job[v].op
      /\ \A v \in Workers : Witness(v)' =>
            \/ /\ Witness(v) /\ job'[v].op = job[v].op
               /\ job'[v].tx = job[v].tx /\ job'[v].payer = job[v].payer
            \/ /\ rows[job'[v].op].status = "awaiting_evidence"
               /\ job'[v].tx = rows[job'[v].op].tx /\ job'[v].payer = rows[job'[v].op].payer
  BY <1>1, CalmWorkers
<1>3. \A v \in Workers : Settler(v)' \/ Witness(v)' => job'[v].op \in Ops
  BY <1>1 DEF LocalOK, Busy, Settler, Witness
<1>4. SettlerOK'
  BY <1>2, <1>3 DEF EvidenceInv, SettlerOK, CalmRows, CalmRow
<1>5. OneSettler'
  BY <1>2 DEF EvidenceInv, OneSettler
<1>6. WitnessOK'
  BY <1>2, <1>3 DEF EvidenceInv, WitnessOK, AwaitingSent, CalmRows, CalmRow, Unsaid
<1>7. AwaitingSent'
  BY DEF EvidenceInv, AwaitingSent, CalmRows, CalmRow
<1> QED
  BY <1>2, <1>4, <1>5, <1>6, <1>7 DEF EvidenceInv

\* The settler leaves with its verdict: nobody else waits to give one, and
\* nobody has read one yet.
LEMMA VerdictPreserves ==
  ASSUME IndType, IndType', OnceInv, EvidenceInv, NEW w \in Workers, Settler(w),
         NEW j, NEW s, Respond(w, j, s), NEW new, rows[job[w].op].status = "settling",
         rows' = [rows EXCEPT ![job[w].op] = new], new.status \in {"manual", "awaiting_evidence"},
         UNCHANGED settleCalls, OperTask'
  PROVE  EvidenceInv' /\ LawfulRows
<1> DEFINE o == job[w].op
<1>1. LocalOK /\ LocalOK' /\ SeenOK /\ CalmJobs /\ o \in Ops /\ rows \in [Ops -> Row]
  BY RespondMoves, WorkerOps DEF IndType, EvidenceInv, StoreTypeOK
<1>2. /\ SeenOK'
      /\ \A v \in Workers : Settler(v)' => Settler(v) /\ job'[v].op = job[v].op
      /\ \A v \in Workers : Witness(v)' =>
            \/ /\ Witness(v) /\ job'[v].op = job[v].op
               /\ job'[v].tx = job[v].tx /\ job'[v].payer = job[v].payer
            \/ /\ rows[job'[v].op].status = "awaiting_evidence"
               /\ job'[v].tx = rows[job'[v].op].tx /\ job'[v].payer = rows[job'[v].op].payer
  BY <1>1, CalmWorkers
<1>3. \A v \in Workers : Settler(v)' \/ Witness(v)' => job'[v].op \in Ops
  BY <1>1 DEF LocalOK, Busy, Settler, Witness
<1>4. rows'[o] = new /\ \A q \in Ops : q # o => rows'[q] = rows[q]
  BY <1>1
<1>5. settleCalls[o] > 0
  BY DEF EvidenceInv, SettlerOK
<1>6. ~Settler(w)'
  BY <1>1 DEF Respond, LocalOK, Settler
<1>7. \A v \in Workers : Settler(v)' => job'[v].op # o
  BY <1>2, <1>6 DEF EvidenceInv, OneSettler
<1>8. \A v \in Workers : Witness(v)' => job'[v].op # o
  BY <1>2 DEF EvidenceInv, WitnessOK, Unsaid
<1> HIDE DEF o
<1>9. SettlerOK'
  BY <1>2, <1>3, <1>4, <1>7 DEF EvidenceInv, SettlerOK
<1>10. OneSettler'
  BY <1>2 DEF EvidenceInv, OneSettler
<1>11. WitnessOK'
  BY <1>2, <1>3, <1>4, <1>8 DEF EvidenceInv, WitnessOK, AwaitingSent, Unsaid
<1>12. AwaitingSent'
  BY <1>4, <1>5 DEF EvidenceInv, AwaitingSent
<1>13. Lawful(o)
  BY <1>4, <1>5 DEF Lawful, o
<1> QED
  BY <1>1, <1>2, <1>9, <1>10, <1>11, <1>12, <1>13 DEF EvidenceInv, LawfulRows

\* The first record of a settle request.
LEMMA FirstRecord ==
  ASSUME IndType, IndType', OnceInv, EvidenceInv, NEW w \in Workers, Settler(w),
         NEW j, NEW s, Respond(w, j, s), NEW new \in Row, NEW from \in SUBSET InFlight,
         NEW fence, rows' = AfterTransition(job[w].op, from, fence, new),
         new.status \in {"manual", "awaiting_evidence"},
         UNCHANGED settleCalls, OperTask'
  PROVE  EvidenceInv' /\ LawfulRows
<1> DEFINE o == job[w].op
<1>1. CASE TransitionResult(o, from, fence, new) # "ok"
  <2>1. UNCHANGED rows
    BY <1>1 DEF AfterTransition
  <2> QED
    BY <2>1, SameRows, RespondMoves, CalmPreserves
<1>2. CASE TransitionResult(o, from, fence, new) = "ok"
  <2>1. rows[o].status \in from
    BY <1>2 DEF TransitionResult, HoldsLease
  <2>2. rows[o].status = "settling"
    BY <2>1 DEF EvidenceInv, SettlerOK, InFlight
  <2>3. rows' = [rows EXCEPT ![o] = Kept(new)]
    BY <1>2 DEF AfterTransition
  <2>4. Kept(new).status = new.status /\ Kept(new).payer = new.payer
    BY DEF Kept, Row
  <2> HIDE DEF o
  <2> QED
    BY <2>2, <2>3, <2>4, VerdictPreserves DEF o
<1> QED
  BY <1>1, <1>2

\* The settle request itself, and what came back from it.
LEMMA SettlerRecords ==
  ASSUME IndType, IndType', OnceInv, EvidenceInv, NEW w \in Workers,
         SettleFails(w) \/ Complete(w) \/ (LostFailClosed(w) /\ Settler(w)), OperTask'
  PROVE  EvidenceInv' /\ LawfulRows
<1> DEFINE o == job[w].op
<1>1. o \in Ops /\ rows[o] \in Row /\ job[w] \in Job /\ job[w].payload \in Payloads
  BY JobType DEF SettleFails, Complete, LostFailClosed
<1>2. Settler(w) /\ UNCHANGED settleCalls
  BY DEF SettleFails, Complete, LostFailClosed, EvidenceInv, SeenOK, Settler, chainVars
<1>3. {"settling"} \in SUBSET InFlight
  BY DEF InFlight
<1>4. ASSUME NEW to \in {"manual", "awaiting_evidence"}, FailClosed(w, to)
      PROVE  EvidenceInv' /\ LawfulRows
  <2> DEFINE new == [rows[o] EXCEPT !.status = to, !.tx = job[w].tx]
  <2>1. new \in Row /\ new.status = to /\ new.payer = rows[o].payer
    BY ZenonT(60), <1>1 DEF Row, Job, AttemptStatus
  <2>2. rows' = AfterTransition(o, InFlight, job[w].fence, new)
    BY <1>4 DEF FailClosed
  <2>3. \E st : Respond(w, job[w], st)
    BY <1>4 DEF FailClosed
  <2> HIDE DEF new
  <2> QED
    BY <1>2, <2>1, <2>2, <2>3, FirstRecord
<1>5. CASE LostFailClosed(w)
  BY <1>4, <1>5 DEF LostFailClosed
<1>6. CASE Complete(w)
  <2>1. CASE PersistSettled(w)
    <3>1. CalmRows /\ LawfulRows
      BY <1>6, <2>1, PersistRows DEF Complete
    <3>2. CalmJobs
      BY <1>6, SettlingMoves DEF EvidenceInv
    <3> QED
      BY <1>2, <3>1, <3>2, CalmPreserves
  <2> QED
    BY <1>4, <1>6, <2>1 DEF Complete
<1>7. ASSUME NEW new \in Row, NEW st, new.status \in {"manual", "awaiting_evidence"},
             SettleOutcome(w, new, st)
      PROVE  EvidenceInv' /\ LawfulRows
  BY <1>2, <1>3, <1>7, FirstRecord DEF SettleOutcome
<1>8. CASE SettleFails(w)
  <2> DEFINE manual == [rows[o] EXCEPT !.status = "manual"]
             manualTx(h) == [rows[o] EXCEPT !.status = "manual", !.tx = h]
             awaiting(h, b) == [rows[o] EXCEPT !.status = "awaiting_evidence", !.tx = h, !.payer = b]
  <2>1. Reported[job[w].payload] \subseteq Payloads /\ job[w].payer \in BOOLEAN
    BY <1>1, ReportedAssumption DEF Job
  <2>2. manual \in Row /\ manual.status = "manual"
    BY <1>1 DEF Row, AttemptStatus
  <2>3. ASSUME NEW h \in Payloads \cup {None}
        PROVE  manualTx(h) \in Row /\ manualTx(h).status = "manual"
    BY <1>1 DEF Row, AttemptStatus
  <2>4. ASSUME NEW h \in Payloads, NEW b \in BOOLEAN
        PROVE  /\ awaiting(h, b) \in Row /\ awaiting(h, b).status = "awaiting_evidence"
               /\ awaiting(h, b).payer = b
    BY <1>1 DEF Row, AttemptStatus
  <2>5. \/ SettleOutcome(w, manual, 202)
        \/ \E h \in Reported[job[w].payload] \cup {None} : SettleOutcome(w, manualTx(h), 502)
        \/ \E h \in Reported[job[w].payload], b \in {job[w].payer, TRUE} :
              SettleOutcome(w, awaiting(h, b), 202)
    BY <1>8 DEF SettleFails
  <2> HIDE DEF manual, manualTx, awaiting
  <2>6. CASE SettleOutcome(w, manual, 202)
    BY <1>7, <2>2, <2>6
  <2>7. CASE \E h \in Reported[job[w].payload] \cup {None} : SettleOutcome(w, manualTx(h), 502)
    BY <1>7, <2>1, <2>3, <2>7
  <2>8. CASE \E h \in Reported[job[w].payload], b \in {job[w].payer, TRUE} :
                SettleOutcome(w, awaiting(h, b), 202)
    <3>1. PICK h \in Reported[job[w].payload], b \in {job[w].payer, TRUE} :
              SettleOutcome(w, awaiting(h, b), 202)
      BY <2>8
    <3>2. h \in Payloads /\ b \in BOOLEAN
      BY <2>1
    <3>3. /\ awaiting(h, b) \in Row /\ awaiting(h, b).status = "awaiting_evidence"
          /\ awaiting(h, b).payer = b
      BY <2>4, <3>2
    <3> QED
      BY <1>7, <3>1, <3>3
  <2> QED
    BY <2>5, <2>6, <2>7, <2>8
<1> QED
  BY <1>2, <1>5, <1>6, <1>8

\* The settle request makes its claimer the settler.
LEMMA SubmitEvidence ==
  ASSUME IndType, IndType', OnceInv, EvidenceInv, NEW w \in Workers, Submit(w)
  PROVE  EvidenceInv'
<1> DEFINE o == job[w].op
<1>1. /\ o \in Ops /\ pc[w] = "submit" /\ UNCHANGED rows /\ UNCHANGED oper
      /\ settleCalls \in [Ops -> 0..2]
  BY JobType DEF Submit, IndType, ChainOK, storeVars
<1>2. settleCalls[o] = 0
  BY <1>1 DEF OnceInv, ClaimerUnsent, PreSubmit
<1>3. settleCalls'[o] = 1 /\ \A q \in Ops : q # o => settleCalls'[q] = settleCalls[q]
  BY <1>1, <1>2 DEF Submit
<1>4. pc' = [pc EXCEPT ![w] = "settle"] /\ UNCHANGED job /\ LocalOK
  BY DEF Submit, Goto, IndType, LocalOK
<1>5. pc'[w] = "settle" /\ \A v \in Workers : v # w => pc'[v] = pc[v]
  BY <1>4 DEF LocalOK
<1>6. job[w].seen = None
  BY <1>1 DEF EvidenceInv, SeenOK, PreSubmit
<1>7. \A v \in Workers : Settler(v) \/ Witness(v) => job[v].op \in Ops /\ job[v].op # o
  BY <1>2, <1>4, WorkerOps DEF EvidenceInv, SettlerOK, WitnessOK
<1>8. /\ \A v \in Workers : v # w => Settler(v)' = Settler(v) /\ Witness(v)' = Witness(v)
      /\ ~Witness(w)'
  BY <1>4, <1>5, <1>6, StatusAssumption DEF Settler, Witness, AttemptStatus
<1>9. rows[o].status # "awaiting_evidence"
  BY <1>1, <1>2 DEF EvidenceInv, AwaitingSent
<1> HIDE DEF o
<1>10. SeenOK'
  BY <1>4, <1>5, <1>6 DEF EvidenceInv, SeenOK
<1>11. SettlerOK'
  BY <1>1, <1>3, <1>4, <1>7, <1>8, <1>9 DEF EvidenceInv, SettlerOK, o
<1>12. OneSettler'
  BY <1>4, <1>7, <1>8 DEF EvidenceInv, OneSettler, o
<1>13. WitnessOK'
  BY <1>1, <1>3, <1>4, <1>7, <1>8 DEF EvidenceInv, WitnessOK
<1>14. AwaitingSent'
  BY <1>1, <1>3 DEF EvidenceInv, AwaitingSent
<1>15. OperTask'
  BY <1>1 DEF EvidenceInv, OperTask
<1> QED
  BY <1>10, <1>11, <1>12, <1>13, <1>14, <1>15 DEF EvidenceInv

\* A reconciling operator was allowed to.
LEMMA OperTaskStep ==
  ASSUME OperTask, [Next]_vars
  PROVE  OperTask'
<1>1. CASE UNCHANGED oper
  BY <1>1 DEF OperTask
<1>2. CASE Operator
  <2>1. oper'.step \in {"checked", "claimed"} =>
           oper.step \in {"checked", "claimed"} \/ "reconcile" \in Tasks
    <3>1. ASSUME NEW q \in Ops, NEW a \in Approvals, ReleaseCheck(q, a)
          PROVE  oper'.step = "absent"
      BY <3>1 DEF ReleaseCheck, NoOper
    <3>2. ASSUME NEW q \in Ops, NEW tx \in Payloads, ReconcileCheck(q, tx)
          PROVE  "reconcile" \in Tasks
      BY <3>2 DEF ReconcileCheck
    <3>3. CASE Release \/ ReconcileSettled
      BY <3>3 DEF Release, ReconcileSettled, NoOper
    <3>4. CASE ReconcileClaim
      BY <3>4 DEF ReconcileClaim
    <3> QED
      BY <1>2, <3>1, <3>2, <3>3, <3>4 DEF Operator
  <2> QED
    BY <2>1 DEF OperTask
<1>3. CASE Environment
  BY <1>1, <1>3 DEF Environment, Land, ExpireBlockhash, LapseLease, Crash
<1>4. ASSUME NEW w \in Workers, WorkerStep(w)
      PROVE  UNCHANGED oper
  BY <1>4 DEF WorkerStep, Insert, Stage, TakeOver, Reopen, Claim, Abandon, Blockhash, Revalidate,
              VerifyInvalid, VerifyValid, Submit, SettleFails, SettleSucceeds, Complete, LostWrite,
              LostFailClosed, Reconcile
<1>5. ASSUME NEW w \in Workers, NEW k, NEW p, NEW a, Call(w, k, p, a)
      PROVE  UNCHANGED oper
  BY <1>5 DEF Call
<1> QED
  BY <1>1, <1>2, <1>3, <1>4, <1>5 DEF Next, vars

\* Every step keeps the invariant of the evidence; it is a settle request, or
\* it writes rows in the ways the abstract attempts allow.
LEMMA EvidenceStep ==
  ASSUME RoleGuarded, IndType, OperPaid, OnceInv, EvidenceInv, [Next]_vars
  PROVE  /\ EvidenceInv'
         /\ (\E w \in Workers : Submit(w)) \/ (LawfulRows /\ UNCHANGED settleCalls)
<1> DEFINE Goal == /\ EvidenceInv'
                   /\ (\E w \in Workers : Submit(w)) \/ (LawfulRows /\ UNCHANGED settleCalls)
<1>1. IndType' /\ OperTask' /\ SeenOK
  BY NextStep, OperTaskStep DEF StepOK, EvidenceInv
<1>2. ASSUME NEW w \in Workers, Submit(w)
      PROVE  Goal
  BY <1>1, <1>2, SubmitEvidence
<1>3. ASSUME CalmRows, LawfulRows, UNCHANGED settleCalls
      PROVE  Goal
  <2>1. CASE \E w \in Workers : Submit(w)
    BY <1>2, <2>1
  <2>2. CASE \A w \in Workers : ~Submit(w)
    BY <1>1, <1>3, <2>2, JobsCalm, CalmPreserves
  <2> QED
    BY <2>1, <2>2
<1>4. ASSUME NEW w \in Workers, NEW k, NEW p, NEW a, Call(w, k, p, a)
      PROVE  Goal
  <2>1. UNCHANGED <<rows, settleCalls>>
    BY <1>4 DEF Call, storeVars, chainVars
  <2> QED
    BY <1>3, <2>1, SameRows
<1>5. ASSUME NEW w \in Workers,
             SettleFails(w) \/ Complete(w) \/ (LostFailClosed(w) /\ Settler(w))
      PROVE  Goal
  <2>1. UNCHANGED settleCalls
    BY <1>5 DEF SettleFails, Complete, LostFailClosed, chainVars
  <2> QED
    BY <1>1, <1>5, <2>1, SettlerRecords
<1>6. ASSUME NEW w \in Workers, SettleSucceeds(w) \/ LostWrite(w) \/ Revalidate(w)
      PROVE  Goal
  BY <1>3, <1>6, SameRows DEF SettleSucceeds, LostWrite, Revalidate, storeVars, chainVars
<1>7. ASSUME NEW w \in Workers, Reconcile(w) \/ (LostFailClosed(w) /\ ~Settler(w))
      PROVE  Goal
  BY <1>3, <1>7, WitnessRows DEF Reconcile, LostFailClosed, chainVars
<1>8. ASSUME NEW w \in Workers, Insert(w) \/ Stage(w) \/ Claim(w)
      PROVE  Goal
  BY ZenonT(60), <1>3, <1>8, InsertRows, PendingRows DEF Insert, Stage, Claim, chainVars
<1>9. ASSUME NEW w \in Workers,
             \/ TakeOver(w) \/ Reopen(w) \/ Abandon(w) \/ VerifyInvalid(w)
             \/ Blockhash(w) \/ \E named \in BOOLEAN : VerifyValid(w, named)
      PROVE  Goal
  BY <1>3, <1>9, ClaimerRows
     DEF TakeOver, Reopen, Abandon, VerifyInvalid, Blockhash, VerifyValid, chainVars
<1>10. ASSUME Environment \/ Operator \/ UNCHANGED vars
       PROVE  Goal
  <2>1. UNCHANGED settleCalls
    BY <1>10, OthersQuiet DEF Quiet
  <2> QED
    BY <1>3, <1>10, <2>1, OtherRows
<1> HIDE DEF Goal
<1>11. ASSUME NEW w \in Workers, WorkerStep(w)
       PROVE  Goal
  BY <1>2, <1>5, <1>6, <1>7, <1>8, <1>9, <1>11 DEF WorkerStep
<1>12. Goal
  BY <1>4, <1>10, <1>11 DEF Next
<1> QED
  BY <1>12 DEF Goal

\* The initial state satisfies the invariant of the evidence.
LEMMA EvidenceInit ==
  ASSUME Init
  PROVE  EvidenceInv
<1>1. \A w \in Workers : pc[w] = "idle"
  BY DEF Init
<1>2. \A o \in Ops : rows[o].status = "absent"
  BY DEF Init, StoreInit, AbsentRow
<1>3. oper.step = "idle"
  BY DEF Init, NoOper
<1> QED
  BY <1>1, <1>2, <1>3 DEF EvidenceInv, SeenOK, SettlerOK, OneSettler, WitnessOK, AwaitingSent,
     OperTask, Settler, Witness, PreSubmit

\* Every reachable state satisfies the three invariants together.
LEMMA EvidenceInductive ==
  ASSUME RoleGuarded
  PROVE  Spec => [](IndType /\ OperPaid /\ OnceInv /\ EvidenceInv)
<1>1. Init => EvidenceInv
  BY EvidenceInit
<1>2. IndType /\ OperPaid /\ OnceInv /\ EvidenceInv /\ [Next]_vars => EvidenceInv'
  BY EvidenceStep
<1> QED
  BY <1>1, <1>2, Inductive, OnceInductive, PTL DEF Spec

---------------------------------------------------------------------------
(* Mismatched rows *)

\* A row becomes mismatched only when a witness that knows what the row says of
\* the payer has found its hash on chain without the transfer or the memo.
LEMMA MismatchStep ==
  ASSUME RoleGuarded, IndType, OperPaid, OnceInv, EvidenceInv, MismatchOK, [Next]_vars
  PROVE  MismatchOK'
<1>1. \A o \in Ops : RowChange(rows[o], rows'[o])
  BY NextStep DEF StepOK, RowsStep, RowStep
<1>2. (\E w \in Workers : Submit(w)) \/ LawfulRows
  BY EvidenceStep
<1>3. CASE UNCHANGED rows
  BY <1>3 DEF MismatchOK
<1>4. ASSUME NEW o \in Ops, Lawful(o)
      PROVE  MismatchOK'
  <2>1. \A q \in Ops : q # o => rows'[q] = rows[q]
    BY <1>4 DEF Lawful
  <2>2. CASE rows'[o].status # "mismatch"
    BY <2>1, <2>2 DEF MismatchOK
  <2>3. CASE rows[o].status = "mismatch"
    <3>1. rows'[o] = rows[o]
      BY <1>1, <2>3 DEF RowChange, InFlight
    <3> QED
      BY <2>1, <3>1 DEF MismatchOK
  <2>4. CASE rows'[o].status = "mismatch" /\ rows[o].status # "mismatch"
    <3>1. PICK w \in Workers :
             /\ pc[w] = "reconcile" /\ job[w].op = o /\ "mismatch" \in Inspection(w)
             /\ rows[o].status = "awaiting_evidence"
             /\ rows'[o].tx = rows[o].tx /\ rows'[o].payer = rows[o].payer
      BY <1>4, <2>4 DEF Lawful
    <3>2. Witness(w)
      BY <3>1 DEF EvidenceInv, SeenOK, Witness
    <3>3. rows'[o].tx = job[w].tx /\ rows'[o].payer = job[w].payer
      BY <3>1, <3>2 DEF EvidenceInv, WitnessOK
    <3>4. job[w].payer => ~ (job[w].tx \in Conforming /\ SlotOf[job[w].tx] = SlotOfOp(o))
      BY <3>1 DEF Inspection, InspectTransaction
    <3> QED
      BY <2>1, <3>3, <3>4 DEF MismatchOK
  <2> QED
    BY <2>2, <2>3, <2>4
<1> QED
  BY <1>2, <1>3, <1>4 DEF LawfulRows, Submit, storeVars

\* As the deployed application's database role, and whether or not the
\* facilitator names a payer, a row that names one is given up as mismatched
\* only on a hash that is not a payment for its slot.
THEOREM MismatchesAreUnpaid ==
  ASSUME RoleGuarded
  PROVE  Spec => []MismatchIsUnpaid
<1>1. Init => MismatchOK
  BY DEF Init, StoreInit, AbsentRow, MismatchOK
<1>2. IndType /\ OperPaid /\ OnceInv /\ EvidenceInv /\ MismatchOK /\ [Next]_vars => MismatchOK'
  BY MismatchStep
<1>3. MismatchOK => MismatchIsUnpaid
  BY DEF MismatchOK, MismatchIsUnpaid
<1> QED
  BY <1>1, <1>2, <1>3, EvidenceInductive, PTL DEF Spec

---------------------------------------------------------------------------
(* The refinement of the abstract attempts *)

Att == [o \in Ops |-> AbstractState(o)]

\* One attempt moves, the others stay.
LEMMA AttMoves ==
  ASSUME NEW o \in Ops, NEW from, NEW to, AbstractState(o) \in from, AbstractState(o)' = to,
         \A q \in Ops : q # o => AbstractState(q)' = AbstractState(q)
  PROVE  Attempt!Move(o, from, to)
  BY DEF Attempt!Move

\* A step after which every attempt is where it was.
LEMMA AttStays ==
  ASSUME \A q \in Ops : AbstractState(q)' = AbstractState(q)
  PROVE  Att' = Att
  BY DEF Att

\* The other attempts of the request of o.
LEMMA OtherAttempts ==
  ASSUME NEW o \in Ops
  PROVE  Attempt!Others(o) = {q \in Ops \ {o} : SlotOfOp(q) = SlotOfOp(o)}
  BY DEF Attempt!Others

\* A settle request sends an open attempt, or changes nothing that is resolved.
LEMMA SubmitRefines ==
  ASSUME IndType, OnceInv, NEW w \in Workers, Submit(w)
  PROVE  Attempt!ANext \/ Att' = Att
<1>0. PICK o \in Ops : o = job[w].op
  BY JobType DEF Submit
<1>1. UNCHANGED rows /\ pc[w] = "submit" /\ settleCalls \in [Ops -> 0..2]
  BY DEF Submit, IndType, ChainOK, storeVars
<1>2. settleCalls[o] = 0 /\ rows[o].status \notin Untouched
  BY <1>0, <1>1 DEF OnceInv, ClaimerUnsent, PreSubmit
<1>3. settleCalls'[o] = 1 /\ \A q \in Ops : q # o => settleCalls'[q] = settleCalls[q]
  BY <1>0, <1>1, <1>2 DEF Submit
<1>4. \A q \in Ops : q # o => AbstractState(q)' = AbstractState(q)
  BY <1>1, <1>3 DEF AbstractState
<1>5. CASE rows[o].status \in TerminalResolved \cup {"manual"}
  <2>1. AbstractState(o)' = AbstractState(o)
    BY <1>1, <1>2, <1>5 DEF AbstractState, Untouched
  <2> QED
    BY <1>4, <2>1, AttStays
<1>6. CASE rows[o].status \notin TerminalResolved \cup {"manual"}
  <2>1. AbstractState(o) = "open" /\ AbstractState(o)' = "sent"
    BY <1>1, <1>2, <1>3, <1>6 DEF AbstractState, Untouched
  <2>2. Attempt!Send(o)
    BY <1>1, <1>4, <2>1, AttMoves DEF Attempt!Send
  <2> QED
    BY <1>1, <2>2 DEF Attempt!ANext
<1> QED
  BY <1>5, <1>6

\* A lawful write of a row is a step of the abstract attempts, or none.
LEMMA WriteRefines ==
  ASSUME RoleGuarded, IndType, IndType', OnceInv, EvidenceInv, UNCHANGED settleCalls,
         NEW o \in Ops, Lawful(o), RowChange(rows[o], rows'[o])
  PROVE  Attempt!ANext \/ Att' = Att
<1> DEFINE old == rows[o]
           new == rows'[o]
<1>1. old \in Row /\ new \in Row /\ settleCalls \in [Ops -> 0..2]
  BY DEF IndType, StoreTypeOK, ChainOK
<1>2. \A q \in Ops : q # o => AbstractState(q)' = AbstractState(q)
  BY DEF Lawful, AbstractState
<1>3. old.status \in Untouched => settleCalls[o] = 0
  BY <1>1 DEF OnceInv, SentStaysBlocking, Untouched
<1>4. CASE AbstractState(o)' = AbstractState(o)
  BY <1>2, <1>4, AttStays
<1>5. CASE old.status = "absent" /\ new.status = "pending"
  <2>1. AbstractState(o) = "none" /\ AbstractState(o)' = "open"
    BY <1>3, <1>5 DEF AbstractState, Untouched, TerminalResolved
  <2>2. FindActiveAttempt(SlotOfOp(o)) = {}
    BY <1>5 DEF Lawful
  <2>3. \A q \in Attempt!Others(o) : AbstractState(q) \notin Attempt!UnderWay
    BY <2>2, OtherAttempts DEF FindActiveAttempt, Active, Present, AbstractState, TerminalResolved,
                               Attempt!UnderWay
  <2>4. Attempt!Open(o)
    BY <1>2, <2>1, <2>3, AttMoves, OtherAttempts DEF Attempt!Open
  <2> QED
    BY <2>4 DEF Attempt!ANext
<1>6. CASE old.status = "pending" /\ new.status \in {"pending", "settling"}
  <2>1. AbstractState(o)' = AbstractState(o)
    BY <1>3, <1>6 DEF AbstractState, Untouched, TerminalResolved
  <2> QED
    BY <1>4, <2>1
<1>7. CASE old.status = "manual" /\ new.status = "released"
  <2>1. AbstractState(o) = "manual" /\ AbstractState(o)' = "released"
    BY <1>7 DEF AbstractState, TerminalResolved
  <2>2. Attempt!Release(o)
    BY <1>2, <2>1, AttMoves DEF Attempt!Release
  <2> QED
    BY <2>2 DEF Attempt!ANext
<1>8. ASSUME old.status \in InFlight
      PROVE  /\ AbstractState(o) = IF settleCalls[o] = 0 THEN "open" ELSE "sent"
             /\ new.status \in InFlight => AbstractState(o)' = AbstractState(o)
             /\ new.status \in TerminalResolved \cup {"manual"} => AbstractState(o)' = new.status
  BY <1>8 DEF AbstractState, InFlight, TerminalResolved
<1>9. CASE old.status \in InFlight /\ new.status = "settled"
  <2>2. \A q \in Attempt!Others(o) : AbstractState(q) # "settled"
    <3>1. \A q \in FindSettledAttempt(SlotOfOp(o)) : q = o
      BY <1>9 DEF Lawful, InFlight
    <3> QED
      BY <3>1, OtherAttempts DEF FindSettledAttempt, AbstractState, TerminalResolved
  <2>3. AbstractState(o)' = "settled"
    BY <1>8, <1>9 DEF TerminalResolved
  <2>4. CASE settleCalls[o] = 0
    <3>1. AbstractState(o) = "open" /\ "reconcile" \in Tasks
      BY <1>8, <1>9, <2>4 DEF Lawful, InFlight
    <3>2. Attempt!Adopt(o)
      BY <1>2, <2>2, <2>3, <3>1, AttMoves, OtherAttempts DEF Attempt!Adopt
    <3> QED
      BY <3>2 DEF Attempt!ANext
  <2>5. CASE settleCalls[o] # 0
    <3>1. AbstractState(o) = "sent"
      BY <1>8, <1>9, <2>5
    <3>2. Attempt!Settle(o)
      BY <1>2, <2>2, <2>3, <3>1, AttMoves, OtherAttempts DEF Attempt!Settle
    <3> QED
      BY <3>2 DEF Attempt!ANext
  <2> QED
    BY <2>4, <2>5
<1>10. CASE old.status \in InFlight /\ new.status \in {"manual", "mismatch"}
  <2>1. settleCalls[o] > 0
    <3>1. CASE new.status = "manual"
      BY <1>10, <3>1 DEF Lawful, InFlight
    <3>2. CASE new.status = "mismatch"
      BY <1>10, <3>2 DEF Lawful, InFlight, EvidenceInv, AwaitingSent
    <3> QED
      BY <1>10, <3>1, <3>2
  <2>2. AbstractState(o) = "sent" /\ AbstractState(o)' = new.status
    BY <1>8, <1>10, <2>1 DEF TerminalResolved
  <2>3. Attempt!GiveUp(o)
    BY <1>2, <1>10, <2>2, AttMoves DEF Attempt!GiveUp
  <2> QED
    BY <2>3 DEF Attempt!ANext
<1>11. CASE new = old
  <2>1. AbstractState(o)' = AbstractState(o)
    BY <1>11 DEF AbstractState
  <2> QED
    BY <1>4, <2>1
<1>12. CASE old.status \in InFlight /\ new.status \in InFlight
  BY <1>4, <1>8, <1>12
<1>13. old.status \in InFlight /\ new # old /\ new.status \notin InFlight =>
         new.status \in {"settled", "mismatch", "manual"}
  BY <1>1 DEF RowChange, Row, AttemptStatus, InFlight
<1> QED
  BY <1>5, <1>6, <1>7, <1>9, <1>10, <1>11, <1>12, <1>13 DEF RowChange

\* As the deployed application's database role the calls, the table, the
\* operator and every crash between them implement the abstract attempts: one
\* under way per request, its payment sent once and never taken back, one
\* settlement per request, what is resolved stays resolved.
THEOREM AttemptsImplemented ==
  ASSUME RoleGuarded
  PROVE  Spec => ImplementsAttempts
<1>1. Init => Attempt!AInit
  <2>1. Init => \A o \in Ops : AbstractState(o) = "none"
    BY DEF Init, StoreInit, AbsentRow, AbstractState
  <2> QED
    BY <2>1 DEF Attempt!AInit
<1>2. IndType /\ OperPaid /\ OnceInv /\ EvidenceInv /\ [Next]_vars => [Attempt!ANext]_Att
  <2> SUFFICES ASSUME IndType, OperPaid, OnceInv, EvidenceInv, [Next]_vars
               PROVE  Attempt!ANext \/ Att' = Att
    OBVIOUS
  <2>1. IndType' /\ \A o \in Ops : RowChange(rows[o], rows'[o])
    BY NextStep DEF StepOK, RowsStep, RowStep
  <2>2. CASE \E w \in Workers : Submit(w)
    BY <2>2, SubmitRefines
  <2>3. CASE LawfulRows /\ UNCHANGED settleCalls
    <3>1. CASE UNCHANGED rows
      <4>1. \A o \in Ops : AbstractState(o)' = AbstractState(o)
        BY <2>3, <3>1 DEF AbstractState
      <4> QED
        BY <4>1, AttStays
    <3> QED
      BY <2>1, <2>3, <3>1, WriteRefines DEF LawfulRows
  <2> QED
    BY <2>2, <2>3, EvidenceStep
<1> QED
  BY <1>1, <1>2, EvidenceInductive, PTL DEF Spec, ImplementsAttempts, Attempt!ASpec, Att
=============================================================================
