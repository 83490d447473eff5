-------------------------- MODULE X402AcceptProofs --------------------------
(***************************************************************************)
(* Proofs about X402Accept for every set of workers, slots, payloads,      *)
(* approvals and fences, and for a facilitator that may name any hash.     *)
(***************************************************************************)
EXTENDS X402Accept, TLAPS

---------------------------------------------------------------------------
(* Type correctness.  TypeOK is not inductive: a running call dereferences *)
(* its operation and its payload, so it must have them.                    *)

Busy == \A w \in Workers : pc[w] # "idle" => job[w].op \in Ops /\ job[w].payload \in Payloads

LocalOK ==
    /\ pc \in [Workers -> Pc]
    /\ job \in [Workers -> Job]
    /\ reply \in Reply
    /\ Busy

ChainOK ==
    /\ settleCalls \in [Ops -> 0..2]
    /\ sent \subseteq Payloads
    /\ landed \subseteq Payloads
    /\ expired \subseteq Payloads

OperOK ==
    /\ oper \in Oper
    /\ oper.step # "idle" => oper.op \in Ops

IndType == StoreTypeOK /\ LocalOK /\ ChainOK /\ OperOK

\* A fresh fence is a fence.
LEMMA FreshFenceType == FenceAvailable => FreshFence \in Fences
  BY DEF FenceAvailable, FreshFence

\* The first component of an operation is its slot.
LEMMA SlotOfOpType == \A o \in Ops : SlotOfOp(o) \in Slots
  BY DEF Ops, SlotOfOp

\* The row written by a lease-bound transition is a row.
LEMMA AfterTransitionType ==
  ASSUME StoreTypeOK, NEW o \in Ops, NEW from, NEW fence, NEW new \in Row
  PROVE  AfterTransition(o, from, fence, new) \in [Ops -> Row]
<1>1. Kept(new) \in Row
  BY DEF Kept, Row
<1> QED
  BY <1>1 DEF AfterTransition, StoreTypeOK

\* A response leaves the locals well typed and the worker idle.
LEMMA RespondType ==
  ASSUME LocalOK, NEW w \in Workers, NEW j \in Job, NEW s \in Status, Respond(w, j, s)
  PROVE  LocalOK'
<1>1. NoJob \in Job /\ j.op \in Ops \cup {None} /\ j.payload \in Payloads \cup {None}
  BY DEF NoJob, Job
<1>2. pc' \in [Workers -> Pc] /\ job' \in [Workers -> Job]
  BY <1>1 DEF LocalOK, Respond, Pc
<1>3. reply' \in Reply
  BY <1>1 DEF Respond, Reply
<1>4. Busy'
  BY DEF LocalOK, Busy, Respond
<1> QED
  BY <1>2, <1>3, <1>4 DEF LocalOK

\* A move to another label leaves the locals well typed.
LEMMA GotoType ==
  ASSUME LocalOK, NEW w \in Workers, NEW j \in Job, NEW l \in Pc, Goto(w, l, j),
         j.op \in Ops, j.payload \in Payloads
  PROVE  LocalOK'
<1>1. NoReply \in Reply
  BY DEF NoReply, Reply
<1>2. Busy'
  BY DEF LocalOK, Busy, Goto
<1> QED
  BY <1>1, <1>2 DEF LocalOK, Goto

\* A join that returns null leaves the locals well typed.
LEMMA JoinedNothingType ==
  ASSUME LocalOK, NEW w \in Workers, NEW j \in Job, j.op \in Ops, j.payload \in Payloads,
         JoinedNothing(w, j)
  PROVE  LocalOK'
<1> DEFINE k == [NoJob EXCEPT !.kind = j.kind, !.payload = j.payload, !.op = j.op]
<1>1. k \in Job /\ k.op \in Ops /\ k.payload \in Payloads
  BY DEF NoJob, Job
<1>2. CASE j.retry
  BY <1>2, RespondType DEF JoinedNothing, Status
<1>3. CASE ~j.retry
  <2>1. Goto(w, "claim", k)
    BY <1>3 DEF JoinedNothing
  <2> QED
    BY <2>1, <1>1, GotoType DEF Pc
<1> QED
  BY <1>2, <1>3

\* joinStoredRow leaves the locals well typed, whatever row it reads.
LEMMA JoinType ==
  ASSUME StoreTypeOK, LocalOK, NEW w \in Workers, NEW j \in Job, j.op \in Ops,
         j.payload \in Payloads, JoinStoredRow(w, j)
  PROVE  LocalOK'
<1> DEFINE r == rows[j.op]
           live == r.lease = "live"
           k == [j EXCEPT !.seen = r.status, !.tx = r.tx, !.payer = r.payer, !.fence = None]
<1>0. r \in Row
  BY DEF StoreTypeOK
<1>1. CASE /\ r.status \in TerminalResolved \cup {"manual"} \/ (r.status = "settling" /\ live)
           /\ Respond(w, j, JoinResponse(r.status))
  <2>1. JoinResponse(r.status) \in Status
    BY <1>1 DEF JoinResponse, Status, TerminalResolved
  <2> QED
    BY <1>1, <2>1, RespondType
<1>2. CASE r.status = "pending" /\ JoinedNothing(w, j)
  BY <1>2, JoinedNothingType
<1>3. ASSUME r.status \in InFlight
      PROVE  /\ k \in Job /\ [k EXCEPT !.fence = r.fence] \in Job
             /\ k.op = j.op /\ k.payload = j.payload
  BY ZenonT(60), <1>0, <1>3 DEF Job, Row
<1>4. CASE r.status = "awaiting_evidence" /\ live /\ Goto(w, "reconcile", [k EXCEPT !.fence = r.fence])
  <2>1. r.status \in InFlight
    BY <1>4 DEF InFlight
  <2>2. [k EXCEPT !.fence = r.fence].op = j.op /\ [k EXCEPT !.fence = r.fence].payload = j.payload
    BY <1>3, <2>1 DEF Job
  <2> QED
    BY <1>4, <1>3, <2>1, <2>2, GotoType DEF Pc
<1>5. CASE r.status \in InFlight /\ ~live /\ Goto(w, "takeover", k)
  BY <1>5, <1>3, GotoType DEF Pc
<1> QED
  BY <1>1, <1>2, <1>4, <1>5 DEF JoinStoredRow

\* What accept and stagePreparedAttempt do with a resolved row is well typed.
LEMMA ResolvedType ==
  ASSUME StoreTypeOK, LocalOK, NEW w \in Workers, NEW j \in Job, NEW o \in Ops,
         j.payload \in Payloads, Resolved(w, j, o)
  PROVE  LocalOK'
<1> DEFINE k == [j EXCEPT !.op = o]
<1>1. k \in Job /\ k.op = o /\ k.payload = j.payload
  BY DEF Job
<1>2. ASSUME NEW s \in Status, Respond(w, k, s)
      PROVE  LocalOK'
  BY <1>1, <1>2, RespondType
<1>3. (IF j.kind = "stage" THEN 500 ELSE 409) \in Status /\ 201 \in Status
  BY DEF Status
<1>4. ASSUME JoinStoredRow(w, k)
      PROVE  LocalOK'
  BY <1>1, <1>4, JoinType
<1>5. ASSUME Goto(w, "stage", k)
      PROVE  LocalOK'
  BY <1>1, <1>5, GotoType DEF Pc
<1> HIDE DEF k
<1> QED
  BY <1>2, <1>3, <1>4, <1>5 DEF Resolved, k

---------------------------------------------------------------------------
(* How one step may change one row, whoever takes it.  Finality, the       *)
(* evidence behind a settled row, the expiry behind a released one and the *)
(* single settle call all follow from it.                                  *)

RowChange(old, new) ==
    \/ new = old
    \/ old.status = "absent" /\ new.status = "pending"
    \/ old.status = "pending" /\ new.status = "pending"
    \/ old.status = "pending" /\ new.status = "settling" /\ old.payload \in {None, new.payload}
    \/ /\ old.status \in InFlight
       /\ new.status \notin {"absent", "released"}
       /\ new.payload = old.payload
       /\ RoleGuarded => new.status \notin {"pending", "rejected"}
    \/ old.status = "manual" /\ new.status = "released" /\ new.payload = old.payload

Paid(o, tx) == tx \in landed \cap Conforming /\ SlotOf[tx] = SlotOfOp(o)

\* The operator cites only transactions it has found on chain.
OperPaid == oper.step \in {"checked", "claimed"} => Paid(oper.op, oper.tx)

RowStep(o) ==
    /\ RowChange(rows[o], rows'[o])
    /\ rows'[o].status = "settled" => rows'[o] = rows[o] \/ Paid(o, rows'[o].tx)
    /\ rows'[o].status = "released" => rows'[o] = rows[o] \/ rows'[o].payload \in expired

RowsStep == \A o \in Ops : RowStep(o)

\* What is on chain or expired stays so, and nothing expired lands.
ChainStep ==
    /\ landed \subseteq landed' /\ landed' \cap expired \subseteq landed
    /\ expired \subseteq expired'

\* What every action is shown to do.
StepOK ==
    /\ IndType'
    /\ RowsStep
    /\ ChainStep
    /\ OperPaid => OperPaid'

\* A step that writes no row is a row step.
LEMMA UnchangedRows ==
  ASSUME StoreTypeOK, UNCHANGED rows
  PROVE  RowsStep /\ rows' \in [Ops -> Row]
  BY DEF RowsStep, RowStep, RowChange, StoreTypeOK

\* A lease-bound transition starts from a row in flight and keeps its payload.
LEMMA TransitionStep ==
  ASSUME StoreTypeOK, NEW o \in Ops, NEW new \in Row, NEW from \in SUBSET InFlight, NEW fence,
         new.status \notin {"absent", "released"}, new.payload = rows[o].payload,
         new.status = "settled" => Paid(o, new.tx),
         rows' = AfterTransition(o, from, fence, new)
  PROVE  RowsStep /\ rows' \in [Ops -> Row]
<1>1. rows' \in [Ops -> Row]
  BY AfterTransitionType
<1>2. CASE TransitionResult(o, from, fence, new) # "ok"
  BY <1>2, UnchangedRows DEF AfterTransition
<1>3. CASE TransitionResult(o, from, fence, new) = "ok"
  <2>1. rows' = [rows EXCEPT ![o] = Kept(new)]
    BY <1>3 DEF AfterTransition
  <2>2. rows[o].status \in from /\ RoleAllows(rows[o], new)
    BY <1>3 DEF TransitionResult, HoldsLease
  <2>3. RoleGuarded => new.status \notin {"pending", "rejected"}
    BY <2>2, RoleAssumption DEF RoleAllows, InFlight
  <2>4. Kept(new).status = new.status /\ Kept(new).payload = new.payload /\ Kept(new).tx = new.tx
    BY DEF Kept, Row
  <2>5. RowChange(rows[o], Kept(new))
    BY <2>2, <2>3, <2>4 DEF RowChange
  <2>6. \A q \in Ops : q # o => rows'[q] = rows[q]
    BY <2>1 DEF StoreTypeOK
  <2>7. rows'[o] = Kept(new)
    BY <2>1 DEF StoreTypeOK
  <2>8. RowStep(o)
    BY <2>4, <2>5, <2>7 DEF RowStep, Paid
  <2> QED
    BY <1>1, <2>6, <2>8 DEF RowsStep, RowStep, RowChange
<1> QED
  BY <1>2, <1>3, <1>1

\* A takeover changes the lease and the fence only.
LEMMA TakeOverStep ==
  ASSUME StoreTypeOK, NEW o \in Ops, CanTakeOver(o), FenceAvailable,
         rows' = [rows EXCEPT ![o] = TakenRow(rows[o], FreshFence)]
  PROVE  RowsStep /\ rows' \in [Ops -> Row]
<1>1. rows[o] \in Row /\ FreshFence \in Fences
  BY FreshFenceType DEF StoreTypeOK
<1>2. TakenRow(rows[o], FreshFence) \in Row
  BY <1>1 DEF TakenRow, Row
<1>3. /\ TakenRow(rows[o], FreshFence).status = rows[o].status
      /\ TakenRow(rows[o], FreshFence).payload = rows[o].payload
  BY <1>1 DEF TakenRow, Row
<1>4. rows'[o] = TakenRow(rows[o], FreshFence) /\ \A q \in Ops : q # o => rows'[q] = rows[q]
  BY DEF StoreTypeOK
<1>5. RowStep(o)
  BY <1>3, <1>4 DEF RowStep, RowChange, CanTakeOver, InFlight
<1> QED
  BY <1>2, <1>4, <1>5 DEF RowsStep, RowStep, RowChange, StoreTypeOK

---------------------------------------------------------------------------
(* The actions of a call *)

\* A worker step keeps the invariant when its locals and its row write do.
LEMMA WorkerFrame ==
  ASSUME IndType, LocalOK', rows' \in [Ops -> Row], RowsStep,
         UNCHANGED <<lastReleased, chainVars, oper>>
  PROVE  StepOK
<1>1. IndType'
  BY DEF IndType, StoreTypeOK, ChainOK, OperOK, chainVars
<1> QED
  BY <1>1 DEF StepOK, ChainStep, OperPaid, Paid, chainVars

\* A busy worker has an operation and a payload.
LEMMA JobType ==
  ASSUME IndType, NEW w \in Workers, pc[w] # "idle"
  PROVE  /\ job[w] \in Job /\ job[w].op \in Ops /\ job[w].payload \in Payloads
         /\ rows[job[w].op] \in Row
  BY DEF IndType, LocalOK, Busy, StoreTypeOK

\* accept and the reads of resolveOrCreate keep the invariant.
LEMMA CallStep ==
  ASSUME IndType, NEW w \in Workers, NEW kind \in Kinds, NEW p \in Payloads,
         NEW approval \in Approvals \cup {None}, Call(w, kind, p, approval)
  PROVE  StepOK
<1> DEFINE s == SlotOf[p]
           pid == PidOf[p]
           j == [NoJob EXCEPT !.kind = kind, !.payload = p, !.approval = approval]
<1>1. j \in Job /\ j.payload = p /\ j.kind = kind
  BY DEF NoJob, Job
<1>2. StoreTypeOK /\ LocalOK /\ s \in Slots
  BY SlotAssumption DEF IndType
<1>3. ASSUME Respond(w, j, IF kind = "stage" THEN 500 ELSE 409) \/ Respond(w, j, 409)
      PROVE  LocalOK'
  BY <1>1, <1>2, <1>3, RespondType DEF Status
<1>4. ASSUME NEW o \in ResolveCandidates(s, pid), Resolved(w, j, o)
      PROVE  LocalOK'
  <2>1. o \in Ops
    BY DEF ResolveCandidates, FindByDigestPayment, FindByPaymentId, FindActiveAttempt,
           FindSettledAttempt
  <2> QED
    BY <1>1, <1>2, <1>4, <2>1, ResolvedType
<1>5. ASSUME NEW a \in NewAuth(s, approval), Goto(w, "insert", [j EXCEPT !.op = <<s, a>>])
      PROVE  LocalOK'
  <2>1. a \in Approvals \cup Mints
    BY DEF NewAuth
  <2>2. <<s, a>> \in Ops
    BY <1>2, <2>1 DEF Ops
  <2>3. [j EXCEPT !.op = <<s, a>>] \in Job /\ [j EXCEPT !.op = <<s, a>>].op = <<s, a>>
        /\ [j EXCEPT !.op = <<s, a>>].payload = p
    BY <2>2 DEF NoJob, Job
  <2> QED
    BY <1>2, <1>5, <2>2, <2>3, GotoType DEF Pc
<1>6. LocalOK'
  BY <1>3, <1>4, <1>5 DEF Call
<1>7. UNCHANGED <<storeVars, chainVars, oper>>
  BY DEF Call
<1>8. UNCHANGED <<rows, lastReleased, chainVars, oper>>
  BY <1>7 DEF storeVars
<1> QED
  BY <1>2, <1>6, <1>8, UnchangedRows, WorkerFrame

\* The insert of resolveOrCreate keeps the invariant.
LEMMA InsertStep ==
  ASSUME IndType, NEW w \in Workers, Insert(w)
  PROVE  StepOK
<1> DEFINE o == job[w].op
           pid == PidOf[job[w].payload]
<1>1. /\ job[w] \in Job /\ o \in Ops /\ job[w].payload \in Payloads
      /\ StoreTypeOK /\ LocalOK
  BY JobType DEF Insert, IndType
<1>2. CASE /\ ~InsertConflict(o, pid)
           /\ rows' = [rows EXCEPT ![o] = NewRow(pid)]
           /\ IF job[w].kind = "accept" THEN JoinedNothing(w, job[w]) ELSE Goto(w, "stage", job[w])
  <2>1. NewRow(pid) \in Row /\ NewRow(pid).status = "pending"
    BY <1>1, PidAssumption DEF NewRow, AbsentRow, Row, AttemptStatus
  <2>2. rows[o].status = "absent"
    BY <1>2 DEF InsertConflict, Present
  <2>3. rows' \in [Ops -> Row] /\ RowsStep
    BY <1>1, <1>2, <2>1, <2>2 DEF StoreTypeOK, RowsStep, RowStep, RowChange
  <2>4. LocalOK'
    BY <1>1, <1>2, JoinedNothingType, GotoType DEF Pc
  <2> QED
    BY <2>3, <2>4, WorkerFrame DEF Insert
<1>3. CASE \E q \in ConflictWinner(o, pid) : Resolved(w, job[w], q) /\ UNCHANGED rows
  <2>1. PICK q \in ConflictWinner(o, pid) : Resolved(w, job[w], q) /\ UNCHANGED rows
    BY <1>3
  <2>2. q \in Ops
    BY <1>1 DEF ConflictWinner, FindByPaymentId, FindActiveAttempt
  <2>3. LocalOK'
    BY <1>1, <2>1, <2>2, ResolvedType
  <2> QED
    BY <1>1, <2>1, <2>3, UnchangedRows, WorkerFrame DEF Insert
<1> QED
  BY <1>2, <1>3 DEF Insert

\* stagePreparedAttempt keeps the invariant.
LEMMA StageStep ==
  ASSUME IndType, NEW w \in Workers, Stage(w)
  PROVE  StepOK
<1> DEFINE o == job[w].op
           new == StagedRow(rows[o], PidOf[job[w].payload], job[w].payload)
<1>1. /\ job[w] \in Job /\ o \in Ops /\ job[w].payload \in Payloads /\ rows[o] \in Row
      /\ StoreTypeOK /\ LocalOK
  BY JobType DEF Stage, IndType
<1>2. new \in Row /\ new.status = rows[o].status
  BY <1>1, PidAssumption DEF StagedRow, Row
<1>3. LocalOK'
  BY <1>1, RespondType DEF Stage, Status
<1>4. UNCHANGED rows \/ (rows[o].status = "pending" /\ rows' = [rows EXCEPT ![o] = new])
  BY DEF Stage
<1>5. RowsStep /\ rows' \in [Ops -> Row]
  <2>1. CASE UNCHANGED rows
    BY <1>1, <2>1, UnchangedRows
  <2>2. CASE rows[o].status = "pending" /\ rows' = [rows EXCEPT ![o] = new]
    BY <1>1, <1>2, <2>2 DEF StoreTypeOK, RowsStep, RowStep, RowChange
  <2> QED
    BY <1>4, <2>1, <2>2
<1> QED
  BY <1>3, <1>5, WorkerFrame DEF Stage

\* claimRowForTakeover keeps the invariant.
LEMMA TakeOverStepOK ==
  ASSUME IndType, NEW w \in Workers, TakeOver(w)
  PROVE  StepOK
<1> DEFINE o == job[w].op
<1>1. /\ job[w] \in Job /\ o \in Ops /\ job[w].payload \in Payloads /\ rows[o] \in Row
      /\ StoreTypeOK /\ LocalOK
  BY JobType DEF TakeOver, IndType
<1>2. CASE /\ CanTakeOver(o) /\ FenceAvailable
           /\ rows' = [rows EXCEPT ![o] = TakenRow(rows[o], FreshFence)]
           /\ Goto(w, IF job[w].seen = "settling" THEN "reopen" ELSE "reconcile",
                   [job[w] EXCEPT !.fence = FreshFence])
  <2> DEFINE j == [job[w] EXCEPT !.fence = FreshFence]
  <2>1. j \in Job /\ j.op = o /\ j.payload = job[w].payload
    BY <1>1, <1>2, FreshFenceType DEF Job
  <2>2. LocalOK'
    BY <1>1, <1>2, <2>1, GotoType DEF Pc
  <2>3. RowsStep /\ rows' \in [Ops -> Row]
    BY <1>1, <1>2, TakeOverStep
  <2> QED
    BY <2>2, <2>3, WorkerFrame DEF TakeOver
<1>3. CASE /\ UNCHANGED rows
           /\ IF job[w].seen = "awaiting_evidence" /\ rows[o].status = "awaiting_evidence"
              THEN Respond(w, job[w], 202)
              ELSE JoinStoredRow(w, job[w])
  <2>1. LocalOK'
    BY <1>1, <1>3, RespondType, JoinType DEF Status
  <2> QED
    BY <1>1, <1>3, <2>1, UnchangedRows, WorkerFrame DEF TakeOver
<1> QED
  BY <1>2, <1>3 DEF TakeOver

\* The re-read and the second join are well typed.
LEMMA RejoinType ==
  ASSUME IndType, NEW w \in Workers, pc[w] # "idle", Rejoin(w)
  PROVE  LocalOK'
<1> DEFINE j == [job[w] EXCEPT !.retry = TRUE]
<1>1. j \in Job /\ j.op = job[w].op /\ j.payload = job[w].payload
  BY JobType DEF Job
<1>2. JoinStoredRow(w, j)
  BY DEF Rejoin
<1> QED
  BY <1>1, <1>2, JobType, JoinType DEF IndType

\* Rows in flight that go back to pending or to rejected.
LEMMA HandBackRow ==
  ASSUME IndType, NEW o \in Ops, NEW s \in {"pending", "rejected"}, NEW fence,
         rows' = AfterTransition(o, {"settling"}, fence, [rows[o] EXCEPT !.status = s])
  PROVE  RowsStep /\ rows' \in [Ops -> Row]
<1> DEFINE new == [rows[o] EXCEPT !.status = s]
<1>1. rows[o] \in Row /\ StoreTypeOK
  BY DEF IndType, StoreTypeOK
<1>2. /\ new \in Row /\ new.status \notin {"absent", "released", "settled"}
      /\ new.payload = rows[o].payload
  BY <1>1 DEF Row, AttemptStatus
<1>3. {"settling"} \in SUBSET InFlight
  BY DEF InFlight
<1> HIDE DEF new
<1> QED
  BY <1>1, <1>2, <1>3, TransitionStep DEF new

\* The join-takeover transition keeps the invariant.
LEMMA ReopenStep ==
  ASSUME IndType, NEW w \in Workers, Reopen(w)
  PROVE  StepOK
<1>1. job[w] \in Job /\ job[w].op \in Ops /\ job[w].payload \in Payloads /\ LocalOK
  BY JobType DEF Reopen, IndType
<1>2. LocalOK'
  BY <1>1, RespondType, JoinedNothingType DEF Reopen, Status
<1>3. RowsStep /\ rows' \in [Ops -> Row]
  BY <1>1, HandBackRow DEF Reopen
<1> QED
  BY <1>2, <1>3, WorkerFrame DEF Reopen

\* claim-digest-abandon keeps the invariant.
LEMMA AbandonStep ==
  ASSUME IndType, NEW w \in Workers, Abandon(w)
  PROVE  StepOK
<1>1. job[w] \in Job /\ job[w].op \in Ops /\ LocalOK
  BY JobType DEF Abandon, IndType
<1>2. LocalOK'
  BY <1>1, RespondType DEF Abandon, Status
<1>3. RowsStep /\ rows' \in [Ops -> Row]
  BY <1>1, HandBackRow DEF Abandon
<1> QED
  BY <1>2, <1>3, WorkerFrame DEF Abandon

\* A refused verification keeps the invariant.
LEMMA VerifyInvalidStep ==
  ASSUME IndType, NEW w \in Workers, VerifyInvalid(w)
  PROVE  StepOK
<1>1. job[w] \in Job /\ job[w].op \in Ops /\ LocalOK
  BY JobType DEF VerifyInvalid, IndType
<1>2. LocalOK'
  BY <1>1, RespondType DEF VerifyInvalid, Status
<1>3. RowsStep /\ rows' \in [Ops -> Row]
  BY <1>1, HandBackRow DEF VerifyInvalid
<1> QED
  BY <1>2, <1>3, WorkerFrame DEF VerifyInvalid

\* claimForSettle keeps the invariant.
LEMMA ClaimStep ==
  ASSUME IndType, NEW w \in Workers, Claim(w)
  PROVE  StepOK
<1> DEFINE o == job[w].op
           new == ClaimedRow(rows[o], FreshFence, job[w].payload)
<1>1. /\ job[w] \in Job /\ o \in Ops /\ job[w].payload \in Payloads /\ rows[o] \in Row
      /\ StoreTypeOK /\ LocalOK /\ pc[w] # "idle"
  BY JobType DEF Claim, IndType
<1>2. CASE /\ CanClaim(o) /\ FenceAvailable
           /\ rows' = [rows EXCEPT ![o] = new]
           /\ Goto(w, IF new.payload # job[w].payload THEN "abandon"
                      ELSE IF new.blockhash THEN "revalidate" ELSE "blockhash",
                   [job[w] EXCEPT !.fence = FreshFence])
  <2> DEFINE j == [job[w] EXCEPT !.fence = FreshFence]
  <2>1. j \in Job /\ j.op = o /\ j.payload = job[w].payload
    BY <1>1, <1>2, FreshFenceType DEF Job
  <2>2. LocalOK'
    BY <1>1, <1>2, <2>1, GotoType DEF Pc
  <2>3. /\ new \in Row /\ new.status = "settling"
        /\ rows[o].payload \in {None, new.payload}
    BY ZenonT(60), <1>1, <1>2, FreshFenceType DEF ClaimedRow, Row, AttemptStatus
  <2>4. RowsStep /\ rows' \in [Ops -> Row]
    <3>1. rows'[o] = new /\ \A q \in Ops : q # o => rows'[q] = rows[q]
      BY <1>1, <1>2 DEF StoreTypeOK
    <3>2. RowStep(o)
      BY <1>2, <2>3, <3>1 DEF RowStep, RowChange, CanClaim
    <3> QED
      BY <1>1, <1>2, <2>3, <3>1, <3>2 DEF StoreTypeOK, RowsStep, RowStep, RowChange
  <2> QED
    BY <2>2, <2>4, WorkerFrame DEF Claim
<1>3. CASE Rejoin(w) /\ UNCHANGED rows
  BY <1>1, <1>3, RejoinType, UnchangedRows, WorkerFrame DEF Claim
<1> QED
  BY <1>2, <1>3 DEF Claim

\* Updates that keep a row settling.
LEMMA SettlingUpdate ==
  ASSUME IndType, NEW o \in Ops, NEW fence, NEW new \in Row, new.status = rows[o].status,
         new.payload = rows[o].payload,
         rows' = AfterTransition(o, {"settling"}, fence, new)
  PROVE  RowsStep /\ rows' \in [Ops -> Row]
<1>1. rows[o] \in Row /\ StoreTypeOK
  BY DEF IndType, StoreTypeOK
<1>2. CASE rows[o].status # "settling"
  <2>1. UNCHANGED rows
    BY <1>2 DEF AfterTransition, TransitionResult, HoldsLease
  <2> QED
    BY <1>1, <2>1, UnchangedRows
<1>3. CASE rows[o].status = "settling"
  <2>1. new.status \notin {"absent", "released", "settled"} /\ {"settling"} \in SUBSET InFlight
    BY <1>3 DEF InFlight
  <2> QED
    BY <1>1, <2>1, TransitionStep
<1> QED
  BY <1>2, <1>3

\* claim-blockhash keeps the invariant.
LEMMA BlockhashStep ==
  ASSUME IndType, NEW w \in Workers, Blockhash(w)
  PROVE  StepOK
<1> DEFINE o == job[w].op
           new == [rows[o] EXCEPT !.blockhash = TRUE]
<1>1. /\ job[w] \in Job /\ o \in Ops /\ job[w].payload \in Payloads /\ rows[o] \in Row
      /\ StoreTypeOK /\ LocalOK
  BY JobType DEF Blockhash, IndType
<1>2. LocalOK'
  BY <1>1, GotoType DEF Blockhash, Pc
<1>3. new \in Row /\ new.status = rows[o].status /\ new.payload = rows[o].payload
  BY <1>1 DEF Row
<1> HIDE DEF new
<1>4. UNCHANGED rows \/ rows' = AfterTransition(o, {"settling"}, job[w].fence, new)
  BY DEF Blockhash, new
<1>5. RowsStep /\ rows' \in [Ops -> Row]
  BY <1>1, <1>3, <1>4, UnchangedRows, SettlingUpdate
<1> QED
  BY <1>2, <1>5, WorkerFrame DEF Blockhash

\* revalidateForSettle keeps the invariant.
LEMMA RevalidateStep ==
  ASSUME IndType, NEW w \in Workers, Revalidate(w)
  PROVE  StepOK
<1>1. /\ job[w] \in Job /\ job[w].op \in Ops /\ job[w].payload \in Payloads
      /\ StoreTypeOK /\ LocalOK /\ pc[w] # "idle"
  BY JobType DEF Revalidate, IndType
<1>2. LocalOK'
  BY <1>1, GotoType, RejoinType DEF Revalidate, Pc
<1> QED
  BY <1>1, <1>2, UnchangedRows, WorkerFrame DEF Revalidate, storeVars

\* An approved verification keeps the invariant.
LEMMA VerifyValidStep ==
  ASSUME IndType, NEW w \in Workers, NEW named \in BOOLEAN, VerifyValid(w, named)
  PROVE  StepOK
<1> DEFINE o == job[w].op
           new == [rows[o] EXCEPT !.payer = TRUE]
           j == [job[w] EXCEPT !.payer = TRUE]
<1>1. /\ job[w] \in Job /\ o \in Ops /\ job[w].payload \in Payloads /\ rows[o] \in Row
      /\ StoreTypeOK /\ LocalOK /\ pc[w] # "idle"
  BY JobType DEF VerifyValid, IndType
<1>2. j \in Job /\ j.op = o /\ j.payload = job[w].payload
  BY <1>1 DEF Job
<1>3. new \in Row /\ new.status = rows[o].status /\ new.payload = rows[o].payload
  BY <1>1 DEF Row
<1>4. CASE UNCHANGED rows /\ Goto(w, "revalidate2", job[w])
  BY <1>1, <1>4, GotoType, UnchangedRows, WorkerFrame DEF VerifyValid, Pc
<1>5. CASE /\ rows' = AfterTransition(o, {"settling"}, job[w].fence, new)
           /\ Goto(w, "revalidate2", j) \/ Rejoin(w)
  <2>1. LocalOK'
    BY <1>1, <1>2, <1>5, GotoType, RejoinType DEF Pc
  <2>2. RowsStep /\ rows' \in [Ops -> Row]
    BY <1>1, <1>3, <1>5, SettlingUpdate
  <2> QED
    BY <2>1, <2>2, WorkerFrame DEF VerifyValid
<1> QED
  BY <1>4, <1>5 DEF VerifyValid

\* Sending the settle request keeps the invariant.
LEMMA SubmitStep ==
  ASSUME IndType, NEW w \in Workers, Submit(w)
  PROVE  StepOK
<1>1. /\ job[w] \in Job /\ job[w].op \in Ops /\ job[w].payload \in Payloads
      /\ StoreTypeOK /\ LocalOK /\ ChainOK /\ OperOK
  BY JobType DEF Submit, IndType
<1>2. LocalOK'
  BY <1>1, GotoType DEF Submit, Pc
<1>3. RowsStep /\ StoreTypeOK'
  BY <1>1, UnchangedRows DEF Submit, storeVars, StoreTypeOK
<1>4. ChainOK'
  BY <1>1 DEF Submit, ChainOK
<1>5. OperOK'
  BY <1>1 DEF Submit, OperOK
<1>6. ChainStep /\ (OperPaid => OperPaid')
  BY DEF Submit, ChainStep, OperPaid, Paid
<1> QED
  BY <1>2, <1>3, <1>4, <1>5, <1>6 DEF StepOK, IndType

\* A settle outcome that is not a success keeps the invariant.
LEMMA SettleOutcomeStep ==
  ASSUME IndType, NEW w \in Workers, pc[w] # "idle", NEW new \in Row,
         new.status \in {"manual", "awaiting_evidence"},
         new.payload = rows[job[w].op].payload, NEW s \in Status,
         SettleOutcome(w, new, s), UNCHANGED <<lastReleased, chainVars, oper>>
  PROVE  StepOK
<1>1. /\ job[w] \in Job /\ job[w].op \in Ops /\ StoreTypeOK /\ LocalOK
      /\ {"settling"} \in SUBSET InFlight
  BY JobType DEF IndType, InFlight
<1>2. LocalOK'
  BY <1>1, RespondType DEF SettleOutcome
<1>3. RowsStep /\ rows' \in [Ops -> Row]
  BY <1>1, TransitionStep DEF SettleOutcome
<1> QED
  BY <1>2, <1>3, WorkerFrame

\* The error paths of settle keep the invariant.
LEMMA SettleFailsStep ==
  ASSUME IndType, NEW w \in Workers, SettleFails(w)
  PROVE  StepOK
<1> DEFINE r == rows[job[w].op]
           hashes == Reported[job[w].payload]
<1>1. /\ r \in Row /\ job[w] \in Job /\ hashes \subseteq Payloads /\ pc[w] # "idle"
      /\ UNCHANGED <<lastReleased, chainVars, oper>>
  BY JobType, ReportedAssumption DEF SettleFails
<1>2. job[w].payer \in BOOLEAN /\ 202 \in Status /\ 502 \in Status
  BY <1>1 DEF Job, Status
<1>3. CASE SettleOutcome(w, [r EXCEPT !.status = "manual"], 202)
  <2> DEFINE n == [r EXCEPT !.status = "manual"]
  <2>1. n \in Row /\ n.status = "manual" /\ n.payload = r.payload
    BY <1>1 DEF Row, AttemptStatus
  <2> HIDE DEF n
  <2> QED
    BY <1>1, <1>2, <1>3, <2>1, SettleOutcomeStep DEF n
<1>4. ASSUME NEW h \in hashes \cup {None},
             SettleOutcome(w, [r EXCEPT !.status = "manual", !.tx = h], 502)
      PROVE  StepOK
  <2> DEFINE n == [r EXCEPT !.status = "manual", !.tx = h]
  <2>1. n \in Row /\ n.status = "manual" /\ n.payload = r.payload
    BY <1>1 DEF Row, AttemptStatus
  <2> HIDE DEF n
  <2> QED
    BY ZenonT(60), <1>1, <1>2, <1>4, <2>1, SettleOutcomeStep DEF n
<1>5. ASSUME NEW h \in hashes, NEW b \in {job[w].payer, TRUE},
             SettleOutcome(w, [r EXCEPT !.status = "awaiting_evidence", !.tx = h, !.payer = b], 202)
      PROVE  StepOK
  <2> DEFINE n == [r EXCEPT !.status = "awaiting_evidence", !.tx = h, !.payer = b]
  <2>1. h \in Payloads /\ b \in BOOLEAN
    BY <1>1, <1>2
  <2>2. n \in Row /\ n.status = "awaiting_evidence" /\ n.payload = r.payload
    BY <1>1, <2>1 DEF Row, AttemptStatus
  <2> HIDE DEF n
  <2> QED
    BY <1>1, <1>2, <1>5, <2>2, SettleOutcomeStep DEF n
<1>6. CASE \E h \in hashes \cup {None} :
              SettleOutcome(w, [r EXCEPT !.status = "manual", !.tx = h], 502)
  BY <1>4, <1>6, Zenon
<1>7. CASE \E h \in hashes, b \in {job[w].payer, TRUE} :
             SettleOutcome(w, [r EXCEPT !.status = "awaiting_evidence", !.tx = h, !.payer = b], 202)
  BY <1>5, <1>7, Zenon
<1> QED
  BY <1>3, <1>6, <1>7, Zenon DEF SettleFails

\* A settle success keeps the invariant.
LEMMA SettleSucceedsStep ==
  ASSUME IndType, NEW w \in Workers, SettleSucceeds(w)
  PROVE  StepOK
<1>1. /\ job[w] \in Job /\ job[w].op \in Ops /\ job[w].payload \in Payloads
      /\ StoreTypeOK /\ LocalOK
  BY JobType DEF SettleSucceeds, IndType
<1>2. PICK h \in Reported[job[w].payload] :
         Goto(w, "complete", [job[w] EXCEPT !.tx = h, !.payer = TRUE])
  BY DEF SettleSucceeds
<1> DEFINE j == [job[w] EXCEPT !.tx = h, !.payer = TRUE]
<1>3. h \in Payloads
  BY <1>1, ReportedAssumption
<1>4. j \in Job /\ j.op = job[w].op /\ j.payload = job[w].payload
  BY <1>1, <1>3 DEF Job
<1>5. LocalOK'
  BY <1>1, <1>2, <1>4, GotoType DEF Pc
<1> QED
  BY <1>1, <1>5, UnchangedRows, WorkerFrame DEF SettleSucceeds, storeVars

\* Only a transaction on chain with the slot's memo is found verified.
LEMMA VerifiedIsPaid ==
  ASSUME NEW tx, NEW o \in Ops, NEW payer,
         "verified" \in InspectTransaction(tx, SlotOfOp(o), payer)
  PROVE  Paid(o, tx)
  BY DEF InspectTransaction, Paid

\* The settled write keeps the invariant: its evidence is on chain.
LEMMA PersistSettledStep ==
  ASSUME IndType, NEW w \in Workers, pc[w] # "idle", "verified" \in Inspection(w),
         PersistSettled(w), UNCHANGED <<lastReleased, chainVars, oper>>
  PROVE  StepOK
<1> DEFINE o == job[w].op
           new == [rows[o] EXCEPT !.status = "settled", !.tx = job[w].tx]
<1>1. /\ job[w] \in Job /\ o \in Ops /\ job[w].payload \in Payloads /\ rows[o] \in Row
      /\ StoreTypeOK /\ LocalOK /\ job[w].tx \in Payloads \cup {None}
  BY JobType DEF IndType, Job
<1>2. Paid(o, job[w].tx)
  BY <1>1, VerifiedIsPaid DEF Inspection
<1>3. /\ new \in Row /\ new.status = "settled" /\ new.payload = rows[o].payload
      /\ new.tx = job[w].tx
  BY <1>1 DEF Row, AttemptStatus
<1>4. LocalOK'
  BY <1>1, RespondType, GotoType DEF PersistSettled, Status, Pc
<1> HIDE DEF new
<1>5. rows' = AfterTransition(o, InFlight, job[w].fence, new)
  BY DEF PersistSettled, new
<1>6. RowsStep /\ rows' \in [Ops -> Row]
  BY <1>1, <1>2, <1>3, <1>5, TransitionStep
<1> QED
  BY <1>4, <1>6, WorkerFrame

\* The fail-closed writes keep the invariant.
LEMMA FailClosedStep ==
  ASSUME IndType, NEW w \in Workers, pc[w] # "idle", NEW to \in {"awaiting_evidence", "manual"},
         FailClosed(w, to), UNCHANGED <<lastReleased, chainVars, oper>>
  PROVE  StepOK
<1> DEFINE o == job[w].op
           new == [rows[o] EXCEPT !.status = to, !.tx = job[w].tx]
<1>1. /\ job[w] \in Job /\ o \in Ops /\ rows[o] \in Row
      /\ StoreTypeOK /\ LocalOK /\ job[w].tx \in Payloads \cup {None}
  BY JobType DEF IndType, Job
<1>2. /\ new \in Row /\ new.status \notin {"absent", "released", "settled"}
      /\ new.payload = rows[o].payload
  BY <1>1 DEF Row, AttemptStatus
<1>3. LocalOK'
  BY <1>1, RespondType DEF FailClosed, Status
<1> HIDE DEF new
<1>4. rows' = AfterTransition(o, InFlight, job[w].fence, new)
  BY DEF FailClosed, new
<1>5. RowsStep /\ rows' \in [Ops -> Row]
  BY <1>1, <1>2, <1>4, TransitionStep
<1> QED
  BY <1>3, <1>5, WorkerFrame

\* completeSettlement keeps the invariant.
LEMMA CompleteStep ==
  ASSUME IndType, NEW w \in Workers, Complete(w)
  PROVE  StepOK
<1>1. pc[w] # "idle" /\ UNCHANGED <<lastReleased, chainVars, oper>>
  BY DEF Complete
<1> QED
  BY <1>1, PersistSettledStep, FailClosedStep DEF Complete

\* The re-read after a lost settled write keeps the invariant.
LEMMA LostWriteStep ==
  ASSUME IndType, NEW w \in Workers, LostWrite(w)
  PROVE  StepOK
<1>1. /\ job[w] \in Job /\ job[w].op \in Ops /\ job[w].payload \in Payloads
      /\ StoreTypeOK /\ LocalOK
  BY JobType DEF LostWrite, IndType
<1>2. LocalOK'
  BY <1>1, RespondType, GotoType DEF LostWrite, Status, Pc
<1> QED
  BY <1>1, <1>2, UnchangedRows, WorkerFrame DEF LostWrite, storeVars

\* The fail-closed write after a lost settled write keeps the invariant.
LEMMA LostFailClosedStep ==
  ASSUME IndType, NEW w \in Workers, LostFailClosed(w)
  PROVE  StepOK
  BY FailClosedStep DEF LostFailClosed

\* The join's reconciliation keeps the invariant.
LEMMA ReconcileStep ==
  ASSUME IndType, NEW w \in Workers, Reconcile(w)
  PROVE  StepOK
<1> DEFINE o == job[w].op
           new == [rows[o] EXCEPT !.status = "mismatch"]
<1>1. /\ job[w] \in Job /\ o \in Ops /\ rows[o] \in Row /\ StoreTypeOK /\ LocalOK
      /\ pc[w] # "idle" /\ UNCHANGED <<lastReleased, chainVars, oper>>
      /\ {"awaiting_evidence"} \in SUBSET InFlight
  BY JobType DEF Reconcile, IndType, InFlight
<1>2. CASE "verified" \in Inspection(w) /\ PersistSettled(w)
  BY <1>1, <1>2, PersistSettledStep
<1>3. CASE /\ rows' = AfterTransition(o, {"awaiting_evidence"}, job[w].fence, new)
           /\ Respond(w, job[w], 502)
  <2>1. /\ new \in Row /\ new.status \notin {"absent", "released", "settled"}
        /\ new.payload = rows[o].payload
    BY <1>1 DEF Row, AttemptStatus
  <2>2. LocalOK'
    BY <1>1, <1>3, RespondType DEF Status
  <2> HIDE DEF new
  <2>3. RowsStep /\ rows' \in [Ops -> Row]
    BY <1>1, <1>3, <2>1, TransitionStep
  <2> QED
    BY <1>1, <2>2, <2>3, WorkerFrame
<1>4. CASE Respond(w, job[w], 202) /\ UNCHANGED rows
  BY <1>1, <1>4, RespondType, UnchangedRows, WorkerFrame DEF Status
<1> QED
  BY <1>2, <1>3, <1>4 DEF Reconcile

---------------------------------------------------------------------------
(* The environment *)

\* A step of the environment touches no local.
LEMMA EnvFrame ==
  ASSUME IndType, reply' = NoReply, UNCHANGED <<pc, job>>
  PROVE  LocalOK'
<1>1. NoReply \in Reply
  BY DEF NoReply, Reply
<1> QED
  BY <1>1 DEF IndType, LocalOK, Busy

\* A transaction that becomes final keeps the invariant.
LEMMA LandStep ==
  ASSUME IndType, NEW p \in Payloads, Land(p)
  PROVE  StepOK
<1>1. StoreTypeOK /\ ChainOK /\ OperOK
  BY DEF IndType
<1>2. LocalOK'
  BY EnvFrame DEF Land
<1>3. RowsStep /\ StoreTypeOK'
  BY <1>1, UnchangedRows DEF Land, storeVars, StoreTypeOK
<1>4. ChainOK' /\ OperOK' /\ ChainStep /\ (OperPaid => OperPaid')
  BY <1>1 DEF Land, ChainStep, ChainOK, OperOK, OperPaid, Paid
<1> QED
  BY <1>2, <1>3, <1>4 DEF StepOK, IndType

\* A blockhash that expires keeps the invariant.
LEMMA ExpireStep ==
  ASSUME IndType, NEW p \in Payloads, ExpireBlockhash(p)
  PROVE  StepOK
<1>1. StoreTypeOK /\ ChainOK /\ OperOK
  BY DEF IndType
<1>2. LocalOK'
  BY EnvFrame DEF ExpireBlockhash
<1>3. RowsStep /\ StoreTypeOK'
  BY <1>1, UnchangedRows DEF ExpireBlockhash, storeVars, StoreTypeOK
<1>4. ChainOK' /\ OperOK' /\ ChainStep /\ (OperPaid => OperPaid')
  BY <1>1 DEF ExpireBlockhash, ChainStep, ChainOK, OperOK, OperPaid, Paid
<1> QED
  BY <1>2, <1>3, <1>4 DEF StepOK, IndType

\* A lease that lapses keeps the invariant.
LEMMA LapseStep ==
  ASSUME IndType, NEW o \in Ops, LapseLease(o)
  PROVE  StepOK
<1> DEFINE new == [rows[o] EXCEPT !.lease = "lapsed"]
<1>1. rows[o] \in Row /\ StoreTypeOK
  BY DEF IndType, StoreTypeOK
<1>2. new \in Row /\ new.status = rows[o].status /\ new.payload = rows[o].payload
  BY <1>1 DEF Row
<1>3. rows' = [rows EXCEPT ![o] = new]
  BY <1>1 DEF LapseLease, StoreTypeOK
<1> HIDE DEF new
<1>4. rows'[o] = new /\ \A q \in Ops : q # o => rows'[q] = rows[q]
  BY <1>1, <1>3 DEF StoreTypeOK
<1>5. RowStep(o)
  BY <1>2, <1>4 DEF RowStep, RowChange, LapseLease, InFlight
<1>6. RowsStep /\ rows' \in [Ops -> Row]
  BY <1>1, <1>2, <1>3, <1>4, <1>5 DEF RowsStep, RowStep, RowChange, StoreTypeOK
<1>7. LocalOK'
  BY EnvFrame DEF LapseLease
<1> QED
  BY <1>6, <1>7, WorkerFrame DEF LapseLease

\* A worker that dies keeps the invariant.
LEMMA CrashStep ==
  ASSUME IndType, NEW w \in Workers, Crash(w)
  PROVE  StepOK
<1>1. StoreTypeOK /\ LocalOK /\ NoJob \in Job /\ NoReply \in Reply
  BY DEF IndType, NoJob, Job, NoReply, Reply
<1>2. LocalOK'
  BY <1>1 DEF Crash, LocalOK, Busy, Pc
<1> QED
  BY <1>1, <1>2, UnchangedRows, WorkerFrame DEF Crash, storeVars

---------------------------------------------------------------------------
(* The operator *)

\* A step of the operator touches no worker and nothing on chain.
LEMMA OperFrame ==
  ASSUME IndType, reply' = NoReply, UNCHANGED <<pc, job, chainVars>>,
         StoreTypeOK', RowsStep, OperOK', OperPaid => OperPaid'
  PROVE  StepOK
<1>1. LocalOK'
  BY EnvFrame
<1>2. ChainOK' /\ ChainStep
  BY DEF IndType, ChainStep, ChainOK, chainVars
<1> QED
  BY <1>1, <1>2 DEF StepOK, IndType

\* The idle operator is well typed.
LEMMA NoOperType == NoOper \in Oper /\ NoOper.step = "idle"
  BY DEF NoOper, Oper

\* The checks of release keep the invariant.
LEMMA ReleaseCheckStep ==
  ASSUME IndType, NEW o \in Ops, NEW approval \in Approvals, ReleaseCheck(o, approval)
  PROVE  StepOK
<1>1. RowsStep /\ StoreTypeOK'
  BY UnchangedRows DEF IndType, ReleaseCheck, storeVars, StoreTypeOK
<1>2. OperOK' /\ oper'.step = "absent"
  BY NoOperType DEF ReleaseCheck, OperOK, Oper
<1>3. OperPaid => OperPaid'
  BY <1>2 DEF OperPaid
<1> QED
  BY <1>1, <1>2, <1>3, OperFrame DEF ReleaseCheck

\* The release write keeps the invariant.
LEMMA ReleaseStep ==
  ASSUME IndType, Release
  PROVE  StepOK
<1> DEFINE o == oper.op
           new == ReleasedRow(rows[o], oper.approval)
<1>1. o \in Ops /\ oper \in Oper /\ StoreTypeOK /\ rows[o] \in Row
  BY DEF IndType, OperOK, StoreTypeOK, Release
<1>2. OperOK' /\ OperPaid'
  BY NoOperType DEF Release, OperOK, OperPaid
<1>3. CASE /\ rows[o].status = "manual" /\ rows[o].payload \in expired
           /\ rows' = [rows EXCEPT ![o] = new]
           /\ lastReleased' = [lastReleased EXCEPT ![SlotOfOp(o)] = o]
  <2>1. new \in Row /\ new.status = "released" /\ new.payload = rows[o].payload
    BY <1>1 DEF ReleasedRow, Row, AttemptStatus, Oper
  <2> HIDE DEF new
  <2>2. rows'[o] = new /\ \A q \in Ops : q # o => rows'[q] = rows[q]
    BY <1>1, <1>3 DEF StoreTypeOK
  <2>3. RowsStep
    BY <1>3, <2>1, <2>2 DEF RowsStep, RowStep, RowChange
  <2>4. StoreTypeOK'
    BY <1>1, <1>3, <2>1 DEF StoreTypeOK
  <2> QED
    BY <1>2, <2>3, <2>4, OperFrame DEF Release
<1>4. CASE UNCHANGED storeVars
  <2>1. RowsStep /\ StoreTypeOK'
    BY <1>1, <1>4, UnchangedRows DEF storeVars, StoreTypeOK
  <2> QED
    BY <1>2, <2>1, OperFrame DEF Release
<1> QED
  BY <1>3, <1>4 DEF Release

\* The checks of reconcile-settled keep the invariant.
LEMMA ReconcileCheckStep ==
  ASSUME IndType, NEW o \in Ops, NEW tx \in Payloads, ReconcileCheck(o, tx)
  PROVE  StepOK
<1>1. RowsStep /\ StoreTypeOK'
  BY UnchangedRows DEF IndType, ReconcileCheck, storeVars, StoreTypeOK
<1>2. OperOK' /\ oper'.op = o /\ oper'.tx = tx
  BY NoOperType DEF ReconcileCheck, OperOK, Oper
<1>3. Paid(o, tx)
  BY VerifiedIsPaid DEF ReconcileCheck
<1>4. OperPaid'
  BY <1>2, <1>3 DEF OperPaid, Paid, ReconcileCheck, chainVars
<1> QED
  BY <1>1, <1>2, <1>4, OperFrame DEF ReconcileCheck

\* The operator's takeover keeps the invariant.
LEMMA ReconcileClaimStep ==
  ASSUME IndType, ReconcileClaim
  PROVE  StepOK
<1> DEFINE o == oper.op
<1>1. o \in Ops /\ oper \in Oper /\ StoreTypeOK
  BY DEF IndType, OperOK, ReconcileClaim
<1>2. CASE /\ CanTakeOver(o) /\ FenceAvailable
           /\ rows' = [rows EXCEPT ![o] = TakenRow(rows[o], FreshFence)]
           /\ oper' = [oper EXCEPT !.step = "claimed", !.fence = FreshFence]
  <2>1. RowsStep /\ StoreTypeOK'
    BY <1>1, <1>2, TakeOverStep DEF ReconcileClaim, StoreTypeOK
  <2>2. OperOK' /\ oper'.op = oper.op /\ oper'.tx = oper.tx
    BY <1>1, <1>2, FreshFenceType DEF OperOK, Oper
  <2>3. OperPaid => OperPaid'
    BY <2>2 DEF OperPaid, Paid, ReconcileClaim, chainVars
  <2> QED
    BY <2>1, <2>2, <2>3, OperFrame DEF ReconcileClaim
<1>3. CASE oper' = NoOper /\ UNCHANGED rows
  <2>1. RowsStep /\ StoreTypeOK'
    BY <1>1, <1>3, UnchangedRows DEF ReconcileClaim, StoreTypeOK
  <2>2. OperOK' /\ OperPaid'
    BY <1>3, NoOperType DEF OperOK, OperPaid
  <2> QED
    BY <2>1, <2>2, OperFrame DEF ReconcileClaim
<1> QED
  BY <1>2, <1>3 DEF ReconcileClaim

\* The operator's settled write keeps the invariant: it cites what it has checked.
LEMMA ReconcileSettledStep ==
  ASSUME IndType, OperPaid, ReconcileSettled
  PROVE  StepOK
<1> DEFINE o == oper.op
           new == [rows[o] EXCEPT !.status = "settled", !.tx = oper.tx]
<1>1. /\ o \in Ops /\ oper \in Oper /\ StoreTypeOK /\ rows[o] \in Row
      /\ oper.tx \in Payloads \cup {None}
  BY DEF IndType, OperOK, StoreTypeOK, ReconcileSettled, Oper
<1>2. new \in Row /\ new.tx = oper.tx /\ new.status = "settled" /\ new.payload = rows[o].payload
  BY <1>1 DEF Row, AttemptStatus
<1>3. Paid(o, oper.tx)
  BY DEF OperPaid, ReconcileSettled
<1> HIDE DEF new
<1>4. rows' = AfterTransition(o, InFlight, oper.fence, new)
  BY DEF ReconcileSettled, new
<1>5. RowsStep /\ rows' \in [Ops -> Row]
  BY <1>1, <1>2, <1>3, <1>4, TransitionStep
<1>6. OperOK' /\ OperPaid' /\ StoreTypeOK'
  BY <1>1, <1>5, NoOperType DEF ReconcileSettled, OperOK, OperPaid, StoreTypeOK
<1> QED
  BY <1>5, <1>6, OperFrame DEF ReconcileSettled

---------------------------------------------------------------------------
(* The specification *)

\* Every step of a worker keeps the invariant.
LEMMA WorkerStepOK ==
  ASSUME IndType, NEW w \in Workers, WorkerStep(w)
  PROVE  StepOK
  BY InsertStep, StageStep, TakeOverStepOK, ReopenStep, ClaimStep, AbandonStep, BlockhashStep,
     RevalidateStep, VerifyInvalidStep, VerifyValidStep, SubmitStep, SettleFailsStep,
     SettleSucceedsStep, CompleteStep, LostWriteStep, LostFailClosedStep, ReconcileStep
     DEF WorkerStep

\* Every step of the system keeps the invariant, and is a row step.
LEMMA NextStep ==
  ASSUME IndType, OperPaid, [Next]_vars
  PROVE  StepOK
<1>1. CASE \E w \in Workers, k \in Kinds, p \in Payloads, a \in Approvals \cup {None} :
              Call(w, k, p, a)
  BY <1>1, CallStep
<1>2. CASE \E w \in Workers : WorkerStep(w)
  BY <1>2, WorkerStepOK
<1>3. CASE Environment
  BY <1>3, LandStep, ExpireStep, LapseStep, CrashStep DEF Environment
<1>4. CASE Operator
  BY <1>4, ReleaseCheckStep, ReleaseStep, ReconcileCheckStep, ReconcileClaimStep,
     ReconcileSettledStep DEF Operator
<1>5. CASE UNCHANGED vars
  <2>1. UNCHANGED <<rows, lastReleased, pc, job, reply, settleCalls, sent, landed, expired, oper>>
    BY <1>5 DEF vars
  <2>2. RowsStep
    BY <2>1, UnchangedRows DEF IndType
  <2>3. IndType'
    BY <2>1 DEF IndType, StoreTypeOK, LocalOK, Busy, ChainOK, OperOK
  <2> QED
    BY <2>1, <2>2, <2>3 DEF StepOK, ChainStep, OperPaid, Paid
<1> QED
  BY <1>1, <1>2, <1>3, <1>4, <1>5 DEF Next

\* The empty table satisfies the invariant.
LEMMA InitOK == Init => IndType /\ OperPaid
<1> SUFFICES ASSUME Init
             PROVE  IndType /\ OperPaid
  OBVIOUS
<1>1. StoreTypeOK
  BY DEF Init, StoreInit, StoreTypeOK, AbsentRow, Row
<1>2. LocalOK
  BY DEF Init, LocalOK, Busy, Pc, NoJob, Job, NoReply, Reply
<1>3. ChainOK
  BY DEF Init, ChainOK
<1>4. OperOK /\ OperPaid
  BY NoOperType DEF Init, OperOK, OperPaid
<1> QED
  BY <1>1, <1>2, <1>3, <1>4 DEF IndType

\* The invariant holds in every reachable state.
LEMMA Inductive == Spec => [](IndType /\ OperPaid)
<1>1. ASSUME IndType, OperPaid, [Next]_vars
      PROVE  IndType' /\ OperPaid'
  BY <1>1, NextStep DEF StepOK
<1> QED
  BY InitOK, <1>1, PTL DEF Spec

\* Every variable keeps its type, for any number of calls and payments.
THEOREM TypeCorrect == Spec => []TypeOK
<1>1. IndType => TypeOK
  BY DEF IndType, TypeOK, LocalOK, ChainOK, OperOK
<1> QED
  BY <1>1, Inductive, PTL

\* No row is recorded settled without a finalized, conforming transaction of
\* its own slot, although the facilitator may name any hash.
THEOREM EvidenceBehindSettled == Spec => []SettledIsPaid
<1>1. Init => SettledIsPaid
  BY DEF Init, StoreInit, AbsentRow, SettledIsPaid
<1>2. ASSUME IndType, OperPaid, SettledIsPaid, [Next]_vars
      PROVE  SettledIsPaid'
  <2> SUFFICES ASSUME NEW o \in Ops, rows'[o].status = "settled"
               PROVE  rows'[o].tx \in landed' \cap Conforming /\ SlotOf[rows'[o].tx] = SlotOfOp(o)
    BY DEF SettledIsPaid
  <2>1. landed \subseteq landed' /\ RowStep(o)
    BY <1>2, NextStep DEF StepOK, ChainStep, RowsStep
  <2> QED
    BY <1>2, <2>1 DEF RowStep, Paid, SettledIsPaid
<1> QED
  BY <1>1, <1>2, Inductive, PTL DEF Spec

\* Resolved rows never change, and a manual row is only ever released.
THEOREM ResolvedRowsAreFinal == Spec => ResolvedIsFinal
<1> DEFINE Final == \A o \in Ops :
                      /\ rows[o].status \in TerminalResolved => rows'[o] = rows[o]
                      /\ rows[o].status = "manual" => rows'[o].status \in {"manual", "released"}
<1>1. ASSUME IndType, OperPaid, [Next]_vars
      PROVE  Final
  <2> SUFFICES ASSUME NEW o \in Ops
               PROVE  /\ rows[o].status \in TerminalResolved => rows'[o] = rows[o]
                      /\ rows[o].status = "manual" => rows'[o].status \in {"manual", "released"}
    OBVIOUS
  <2>1. RowChange(rows[o], rows'[o])
    BY <1>1, NextStep DEF StepOK, RowsStep, RowStep
  <2> QED
    BY <2>1 DEF RowChange, TerminalResolved, InFlight
<1>2. ASSUME IndType, OperPaid, [Next]_vars
      PROVE  [Final]_vars
  BY <1>1, <1>2
<1> HIDE DEF Final
<1>3. Spec => [][Final]_vars
  BY <1>2, Inductive, PTL DEF Spec
<1> QED
  BY <1>3 DEF ResolvedIsFinal, Final

\* What a release gives up cannot land any more: the operator's write finds the
\* payment expired, and an expired payment does not land.
THEOREM ReleasedPaymentsAreDead == Spec => ReleasedNeverPays
<1> DEFINE Dead == \A o \in Ops : rows[o].status = "released" => rows[o].payload \in expired
           NoLanding == \A o \in Ops : rows[o].status = "released" /\ rows[o].payload \in landed' =>
                       rows[o].payload \in landed
<1>1. Init => Dead
  BY DEF Init, StoreInit, AbsentRow
<1>2. ASSUME IndType, OperPaid, Dead, [Next]_vars
      PROVE  Dead' /\ [NoLanding]_vars
  <2>1. RowsStep /\ expired \subseteq expired' /\ landed' \cap expired \subseteq landed
    BY <1>2, NextStep DEF StepOK, ChainStep
  <2>2. Dead'
    BY <1>2, <2>1 DEF RowsStep, RowStep
  <2>3. NoLanding
    BY <1>2, <2>1
  <2> QED
    BY <2>2, <2>3
<1> HIDE DEF Dead, NoLanding
<1>3. Spec => []Dead
  BY <1>1, <1>2, Inductive, PTL DEF Spec
<1>4. Spec => [][NoLanding]_vars
  BY <1>2, <1>3, Inductive, PTL DEF Spec
<1> QED
  BY <1>4 DEF ReleasedNeverPays, NoLanding
===========================================================================
