--------------------------- MODULE X402OnceProofs ---------------------------
(***************************************************************************)
(* Under the role trigger of migration 005 the facilitator is asked to     *)
(* settle an operation at most once, and an attempt whose payment has been *)
(* sent stays blocking, for any number of calls, crashes and takeovers.    *)
(*                                                                         *)
(* The argument: under the trigger a claimed row never becomes pending     *)
(* again, so an operation is claimed once; the one claimer is the only     *)
(* call between its claim and its settle request.                          *)
(***************************************************************************)
EXTENDS X402AcceptProofs

\* Between a won claim and the settle request.
PreSubmit == {"abandon", "blockhash", "revalidate", "verify", "revalidate2", "submit"}

Untouched == {"absent", "pending", "rejected"}

ClaimerUnsent ==
    \A w \in Workers : pc[w] \in PreSubmit =>
        settleCalls[job[w].op] = 0 /\ rows[job[w].op].status \notin Untouched

OneClaimer ==
    \A v, w \in Workers :
        pc[v] \in PreSubmit /\ pc[w] \in PreSubmit /\ job[v].op = job[w].op => v = w

ClaimerOwnsPayload ==
    \A w \in Workers : pc[w] \in PreSubmit /\ pc[w] # "abandon" =>
        rows[job[w].op].payload = job[w].payload

NoneRejected == \A o \in Ops : rows[o].status # "rejected"

\* The inductive strengthening of SettleCalledOnce and SentStaysBlocking.
OnceInv ==
    /\ ClaimerUnsent
    /\ OneClaimer
    /\ ClaimerOwnsPayload
    /\ NoneRejected
    /\ SettleCalledOnce
    /\ SentStaysBlocking

---------------------------------------------------------------------------
(* Steps that neither win a claim nor send a settle request *)

Quiet ==
    /\ UNCHANGED settleCalls
    /\ sent \subseteq sent'
    /\ \A w \in Workers : pc'[w] \in PreSubmit =>
          /\ pc[w] \in PreSubmit
          /\ job'[w].op = job[w].op
          /\ job'[w].payload = job[w].payload
          /\ pc'[w] # "abandon" => pc[w] # "abandon"

\* A response sends nothing and starts no claim.
LEMMA RespondQuiet ==
  ASSUME LocalOK, NEW w \in Workers, NEW j, NEW s, Respond(w, j, s), UNCHANGED <<settleCalls, sent>>
  PROVE  Quiet
  BY DEF LocalOK, Respond, Quiet, PreSubmit

\* A move to a label outside the claim is quiet.
LEMMA GotoQuiet ==
  ASSUME LocalOK, NEW w \in Workers, NEW j, NEW l, Goto(w, l, j), l \notin PreSubmit,
         UNCHANGED <<settleCalls, sent>>
  PROVE  Quiet
  BY DEF LocalOK, Goto, Quiet

\* A move within the claim, under the same fence, is quiet.
LEMMA AdvanceQuiet ==
  ASSUME LocalOK, NEW w \in Workers, NEW j, NEW l, Goto(w, l, j), pc[w] \in PreSubmit,
         pc[w] # "abandon", j.op = job[w].op, j.payload = job[w].payload,
         UNCHANGED <<settleCalls, sent>>
  PROVE  Quiet
  BY DEF LocalOK, Goto, Quiet

\* A join that returns null is quiet.
LEMMA JoinedNothingQuiet ==
  ASSUME LocalOK, NEW w \in Workers, NEW j \in Job, JoinedNothing(w, j), UNCHANGED <<settleCalls, sent>>
  PROVE  Quiet
<1>1. "claim" \notin PreSubmit
  BY DEF PreSubmit
<1> QED
  BY <1>1, RespondQuiet, GotoQuiet DEF JoinedNothing

\* joinStoredRow is quiet.
LEMMA JoinQuiet ==
  ASSUME LocalOK, NEW w \in Workers, NEW j \in Job, JoinStoredRow(w, j),
         UNCHANGED <<settleCalls, sent>>
  PROVE  Quiet
<1>1. "reconcile" \notin PreSubmit /\ "takeover" \notin PreSubmit
  BY DEF PreSubmit
<1>2. \/ \E s : Respond(w, j, s)
      \/ JoinedNothing(w, j)
      \/ \E k : Goto(w, "reconcile", k) \/ Goto(w, "takeover", k)
  BY DEF JoinStoredRow
<1>3. CASE \E s : Respond(w, j, s)
  BY <1>3, RespondQuiet
<1>4. CASE JoinedNothing(w, j)
  BY <1>4, JoinedNothingQuiet
<1>5. CASE \E k : Goto(w, "reconcile", k) \/ Goto(w, "takeover", k)
  BY <1>1, <1>5, GotoQuiet
<1> QED
  BY <1>2, <1>3, <1>4, <1>5

\* The re-read and the second join are quiet.
LEMMA RejoinQuiet ==
  ASSUME IndType, NEW w \in Workers, pc[w] # "idle", Rejoin(w), UNCHANGED <<settleCalls, sent>>
  PROVE  Quiet
<1> DEFINE j == [job[w] EXCEPT !.retry = TRUE]
<1>1. j \in Job /\ JoinStoredRow(w, j) /\ LocalOK
  BY JobType DEF Job, Rejoin, IndType
<1> HIDE DEF j
<1> QED
  BY <1>1, JoinQuiet

\* What is done with a resolved row is quiet.
LEMMA ResolvedQuiet ==
  ASSUME LocalOK, NEW w \in Workers, NEW j \in Job, NEW o \in Ops, Resolved(w, j, o),
         UNCHANGED <<settleCalls, sent>>
  PROVE  Quiet
<1> DEFINE k == [j EXCEPT !.op = o]
<1>1. k \in Job /\ "stage" \notin PreSubmit
  BY DEF Job, PreSubmit
<1>2. (\E s : Respond(w, k, s)) \/ JoinStoredRow(w, k) \/ Goto(w, "stage", k)
  BY DEF Resolved
<1> HIDE DEF k
<1> QED
  BY <1>1, <1>2, RespondQuiet, JoinQuiet, GotoQuiet

\* A call that goes on without winning a claim.
LEMMA IntakeQuiet ==
  ASSUME IndType, NEW w \in Workers,
         Insert(w) \/ Stage(w) \/ TakeOver(w) \/ Reopen(w)
  PROVE  Quiet
<1>1. LocalOK /\ job[w] \in Job /\ UNCHANGED <<settleCalls, sent>>
  BY DEF IndType, LocalOK, Insert, Stage, TakeOver, Reopen, chainVars
<1>2. "stage" \notin PreSubmit /\ "reopen" \notin PreSubmit /\ "reconcile" \notin PreSubmit
  BY DEF PreSubmit
<1>3. CASE Insert(w)
  <2>1. job[w].op \in Ops
    BY <1>3, JobType DEF Insert
  <2>2. ASSUME NEW q \in ConflictWinner(job[w].op, PidOf[job[w].payload]), Resolved(w, job[w], q)
        PROVE  Quiet
    <3>1. q \in Ops
      BY <2>1 DEF ConflictWinner, FindByPaymentId, FindActiveAttempt
    <3> QED
      BY <1>1, <2>2, <3>1, ResolvedQuiet
  <2> QED
    BY <1>1, <1>2, <1>3, <2>2, JoinedNothingQuiet, GotoQuiet DEF Insert
<1>4. CASE Stage(w)
  BY <1>1, <1>4, RespondQuiet DEF Stage
<1>5. CASE TakeOver(w)
  BY <1>1, <1>2, <1>5, GotoQuiet, RespondQuiet, JoinQuiet DEF TakeOver
<1>6. CASE Reopen(w)
  BY <1>1, <1>6, RespondQuiet, JoinedNothingQuiet DEF Reopen
<1> QED
  BY <1>3, <1>4, <1>5, <1>6

\* accept and the reads of resolveOrCreate are quiet.
LEMMA CallQuiet ==
  ASSUME IndType, NEW w \in Workers, NEW kind \in Kinds, NEW p \in Payloads,
         NEW approval \in Approvals \cup {None}, Call(w, kind, p, approval)
  PROVE  Quiet
<1> DEFINE j == [NoJob EXCEPT !.kind = kind, !.payload = p, !.approval = approval]
<1>1. LocalOK /\ j \in Job /\ UNCHANGED <<settleCalls, sent>> /\ "insert" \notin PreSubmit
  BY DEF IndType, NoJob, Job, Call, chainVars, PreSubmit
<1>2. ASSUME NEW o \in ResolveCandidates(SlotOf[p], PidOf[p]), Resolved(w, j, o)
      PROVE  Quiet
  <2>1. o \in Ops
    BY DEF ResolveCandidates, FindByDigestPayment, FindByPaymentId, FindActiveAttempt,
           FindSettledAttempt
  <2> QED
    BY <1>1, <1>2, <2>1, ResolvedQuiet
<1>3. \/ \E s : Respond(w, j, s)
      \/ \E o \in ResolveCandidates(SlotOf[p], PidOf[p]) : Resolved(w, j, o)
      \/ \E k : Goto(w, "insert", k)
  BY ZenonT(60) DEF Call
<1> HIDE DEF j
<1> QED
  BY <1>1, <1>2, <1>3, RespondQuiet, GotoQuiet

\* The claimer's own steps up to the settle request, and its responses.
LEMMA ClaimerQuiet ==
  ASSUME IndType, NEW w \in Workers,
         \/ Abandon(w) \/ Blockhash(w) \/ Revalidate(w) \/ VerifyInvalid(w)
         \/ \E named \in BOOLEAN : VerifyValid(w, named)
  PROVE  Quiet
<1>1. LocalOK /\ pc[w] # "idle" /\ job[w] \in Job /\ UNCHANGED <<settleCalls, sent>>
  BY DEF IndType, LocalOK, Abandon, Blockhash, Revalidate, VerifyInvalid, VerifyValid, chainVars
<1>2. CASE Abandon(w)
  BY <1>1, <1>2, RespondQuiet DEF Abandon
<1>3. CASE Blockhash(w)
  BY <1>1, <1>3, AdvanceQuiet DEF Blockhash, PreSubmit
<1>4. CASE Revalidate(w)
  BY <1>1, <1>4, AdvanceQuiet, RejoinQuiet DEF Revalidate, PreSubmit
<1>5. CASE VerifyInvalid(w)
  BY <1>1, <1>5, RespondQuiet DEF VerifyInvalid
<1>6. ASSUME NEW named \in BOOLEAN, VerifyValid(w, named)
      PROVE  Quiet
  <2> DEFINE j == [job[w] EXCEPT !.payer = TRUE]
  <2>1. j.op = job[w].op /\ j.payload = job[w].payload
    BY <1>1 DEF Job
  <2>2. pc[w] \in PreSubmit /\ pc[w] # "abandon"
    BY <1>6 DEF VerifyValid, PreSubmit
  <2>3. Goto(w, "revalidate2", job[w]) \/ Goto(w, "revalidate2", j) \/ Rejoin(w)
    BY <1>6 DEF VerifyValid
  <2> HIDE DEF j
  <2> QED
    BY <1>1, <2>1, <2>2, <2>3, AdvanceQuiet, RejoinQuiet
<1> QED
  BY <1>2, <1>3, <1>4, <1>5, <1>6

\* What follows the settle request.
LEMMA SettledQuiet ==
  ASSUME IndType, NEW w \in Workers,
         \/ SettleFails(w) \/ SettleSucceeds(w) \/ Complete(w) \/ LostWrite(w)
         \/ LostFailClosed(w) \/ Reconcile(w)
  PROVE  Quiet
<1>1. LocalOK /\ UNCHANGED <<settleCalls, sent>>
  BY DEF IndType, SettleFails, SettleSucceeds, Complete, LostWrite, LostFailClosed, Reconcile,
         chainVars
<1>2. {"complete", "lost", "failclosed"} \cap PreSubmit = {}
  BY DEF PreSubmit
<1>3. \/ \E s : Respond(w, job[w], s)
      \/ \E l \in {"complete", "lost", "failclosed"} : \E k : Goto(w, l, k)
  BY ZenonT(60) DEF SettleFails, SettleOutcome, SettleSucceeds, Complete, LostWrite, LostFailClosed,
         Reconcile, PersistSettled, FailClosed
<1> QED
  BY <1>1, <1>2, <1>3, RespondQuiet, GotoQuiet

\* Environment, operator and stuttering steps are quiet.
LEMMA OthersQuiet ==
  ASSUME IndType, Environment \/ Operator \/ UNCHANGED vars
  PROVE  Quiet
<1>1. ASSUME UNCHANGED <<pc, job, settleCalls, sent>>
      PROVE  Quiet
  BY <1>1 DEF Quiet
<1>2. CASE Environment
  <2>1. ASSUME NEW w \in Workers, Crash(w)
        PROVE  Quiet
    BY <2>1 DEF IndType, LocalOK, Crash, Quiet, PreSubmit, chainVars
  <2> QED
    BY <1>1, <1>2, <2>1 DEF Environment, Land, ExpireBlockhash, LapseLease, chainVars
<1>3. CASE Operator
  BY <1>1, <1>3 DEF Operator, ReleaseCheck, Release, ReconcileCheck, ReconcileClaim,
     ReconcileSettled, chainVars
<1>4. CASE UNCHANGED vars
  BY <1>1, <1>4 DEF vars
<1> QED
  BY <1>2, <1>3, <1>4

---------------------------------------------------------------------------
(* Preservation *)

\* Under the trigger a row that has been claimed is never handed back, never
\* rejected, and keeps its payload.
LEMMA GuardedRow ==
  ASSUME RoleGuarded, NEW old, NEW new, RowChange(old, new)
  PROVE  /\ old.status \notin Untouched => new.status \notin Untouched /\ new.payload = old.payload
         /\ new.status = "rejected" => old.status = "rejected"
  BY DEF RowChange, Untouched, InFlight

\* Rows alone cannot break the part of OnceInv that is about rows.
LEMMA RowsPreserve ==
  ASSUME RoleGuarded, OnceInv, RowsStep
  PROVE  /\ NoneRejected'
         /\ \A o \in Ops : rows[o].status \notin Untouched =>
                rows'[o].status \notin Untouched /\ rows'[o].payload = rows[o].payload
<1>1. \A o \in Ops : RowChange(rows[o], rows'[o])
  BY DEF RowsStep, RowStep
<1> QED
  BY <1>1, GuardedRow DEF OnceInv, NoneRejected

\* A quiet row step keeps the invariant of the sent payments.
LEMMA QuietPreserves ==
  ASSUME RoleGuarded, IndType, OnceInv, RowsStep, Quiet
  PROVE  OnceInv'
<1>1. /\ NoneRejected'
      /\ \A o \in Ops : rows[o].status \notin Untouched =>
             rows'[o].status \notin Untouched /\ rows'[o].payload = rows[o].payload
  BY RowsPreserve
<1>2. \A w \in Workers : pc[w] \in PreSubmit => job[w].op \in Ops
  BY DEF IndType, LocalOK, Busy, PreSubmit
<1>3. ClaimerUnsent'
  BY <1>1, <1>2 DEF OnceInv, ClaimerUnsent, Quiet
<1>4. OneClaimer'
  BY DEF OnceInv, OneClaimer, Quiet
<1>5. ClaimerOwnsPayload'
  BY <1>1, <1>2 DEF OnceInv, ClaimerOwnsPayload, ClaimerUnsent, Quiet
<1>6. SettleCalledOnce'
  BY DEF OnceInv, SettleCalledOnce, Quiet
<1>7. SentStaysBlocking'
  BY <1>1 DEF OnceInv, SentStaysBlocking, Untouched, Quiet
<1> QED
  BY <1>1, <1>3, <1>4, <1>5, <1>6, <1>7 DEF OnceInv

\* A claim is won only on a pending row: nobody else is its claimer, and
\* nothing has been sent for it.
LEMMA ClaimPreserves ==
  ASSUME RoleGuarded, IndType, OnceInv, RowsStep, NEW w \in Workers, Claim(w)
  PROVE  OnceInv'
<1> DEFINE o == job[w].op
           new == ClaimedRow(rows[o], FreshFence, job[w].payload)
           j == [job[w] EXCEPT !.fence = FreshFence]
           l == IF new.payload # job[w].payload THEN "abandon"
                ELSE IF new.blockhash THEN "revalidate" ELSE "blockhash"
<1>1. /\ job[w] \in Job /\ o \in Ops /\ rows[o] \in Row /\ pc[w] = "claim"
      /\ UNCHANGED <<settleCalls, sent>> /\ rows \in [Ops -> Row] /\ settleCalls \in [Ops -> 0..2]
  BY JobType DEF Claim, IndType, StoreTypeOK, ChainOK, chainVars
<1>2. CASE ~CanClaim(o) /\ Rejoin(w)
  BY <1>1, <1>2, RejoinQuiet, QuietPreserves
<1>3. CASE /\ CanClaim(o) /\ FenceAvailable
           /\ rows' = [rows EXCEPT ![o] = new]
           /\ Goto(w, l, j)
  <2>1. /\ NoneRejected'
        /\ \A q \in Ops : rows[q].status \notin Untouched =>
               rows'[q].status \notin Untouched /\ rows'[q].payload = rows[q].payload
    BY RowsPreserve
  <2>2. /\ j.op = o /\ j.payload = job[w].payload
        /\ rows'[o] = new /\ new.status = "settling"
    BY <1>1, <1>3 DEF Job, ClaimedRow, Row
  <2>3. /\ pc' = [pc EXCEPT ![w] = l] /\ job' = [job EXCEPT ![w] = j]
        /\ pc \in [Workers -> Pc] /\ job \in [Workers -> Job]
    BY <1>3 DEF Goto, IndType, LocalOK
  <2>4. l # "abandon" => new.payload = job[w].payload
    OBVIOUS
  <2>5. settleCalls[o] = 0 /\ \A v \in Workers : pc[v] \in PreSubmit => job[v].op # o
    BY <1>1, <1>3 DEF CanClaim, OnceInv, SentStaysBlocking, ClaimerUnsent, Untouched
  <2>6. \A v \in Workers : pc[v] \in PreSubmit => job[v].op \in Ops
    BY DEF IndType, LocalOK, Busy, PreSubmit
  <2> HIDE DEF o, new, j, l
  <2>7. pc'[w] = l /\ job'[w] = j /\ \A v \in Workers : v # w => pc'[v] = pc[v] /\ job'[v] = job[v]
    BY <2>3
  <2>8. ClaimerUnsent'
    BY <1>1, <2>1, <2>2, <2>5, <2>6, <2>7 DEF OnceInv, ClaimerUnsent, Untouched
  <2>9. OneClaimer'
    BY <2>2, <2>5, <2>7 DEF OnceInv, OneClaimer
  <2>10. ClaimerOwnsPayload'
    BY <2>1, <2>2, <2>4, <2>6, <2>7 DEF OnceInv, ClaimerOwnsPayload, ClaimerUnsent
  <2>11. SettleCalledOnce'
    BY <1>1 DEF OnceInv, SettleCalledOnce
  <2>12. SentStaysBlocking'
    BY <1>1, <2>1 DEF OnceInv, SentStaysBlocking, Untouched
  <2> QED
    BY <2>1, <2>8, <2>9, <2>10, <2>11, <2>12 DEF OnceInv
<1> QED
  BY <1>2, <1>3 DEF Claim

\* The settle request is the claimer's, and its first.
LEMMA SubmitPreserves ==
  ASSUME RoleGuarded, IndType, OnceInv, RowsStep, NEW w \in Workers, Submit(w)
  PROVE  OnceInv'
<1> DEFINE o == job[w].op
<1>1. /\ job[w] \in Job /\ o \in Ops /\ job[w].payload \in Payloads /\ pc[w] = "submit"
      /\ UNCHANGED rows /\ settleCalls \in [Ops -> 0..2]
  BY JobType DEF Submit, IndType, ChainOK, storeVars
<1>2. /\ settleCalls[o] = 0 /\ rows[o].status \notin Untouched /\ rows[o].payload = job[w].payload
      /\ \A v \in Workers : v # w /\ pc[v] \in PreSubmit => job[v].op # o
  BY <1>1 DEF OnceInv, ClaimerUnsent, ClaimerOwnsPayload, OneClaimer, PreSubmit
<1>3. settleCalls' = [settleCalls EXCEPT ![o] = 1] /\ sent' = sent \cup {job[w].payload}
  BY <1>1, <1>2 DEF Submit
<1>4. pc'[w] = "settle" /\ \A v \in Workers : v # w => pc'[v] = pc[v] /\ job'[v] = job[v]
  BY DEF Submit, Goto, IndType, LocalOK
<1>5. \A v \in Workers : pc[v] \in PreSubmit => job[v].op \in Ops
  BY DEF IndType, LocalOK, Busy, PreSubmit
<1>6. "settle" \notin PreSubmit
  BY DEF PreSubmit
<1> HIDE DEF o
<1>7. ClaimerUnsent'
  BY <1>1, <1>2, <1>3, <1>4, <1>5, <1>6 DEF OnceInv, ClaimerUnsent
<1>8. OneClaimer'
  BY <1>4, <1>6 DEF OnceInv, OneClaimer
<1>9. ClaimerOwnsPayload'
  BY <1>1, <1>4, <1>6 DEF OnceInv, ClaimerOwnsPayload
<1>10. NoneRejected'
  BY <1>1 DEF OnceInv, NoneRejected
<1>11. SettleCalledOnce'
  BY <1>1, <1>3 DEF OnceInv, SettleCalledOnce
<1>12. SentStaysBlocking'
  BY <1>1, <1>2, <1>3 DEF OnceInv, SentStaysBlocking, Untouched
<1> QED
  BY <1>7, <1>8, <1>9, <1>10, <1>11, <1>12 DEF OnceInv

\* Every step keeps the invariant of the sent payments.
LEMMA OnceStep ==
  ASSUME RoleGuarded, IndType, OperPaid, OnceInv, [Next]_vars
  PROVE  OnceInv'
<1>1. RowsStep
  BY NextStep DEF StepOK
<1>2. ASSUME Quiet
      PROVE  OnceInv'
  BY <1>1, <1>2, QuietPreserves
<1>3. CASE \E w \in Workers, k \in Kinds, p \in Payloads, a \in Approvals \cup {None} :
              Call(w, k, p, a)
  BY <1>2, <1>3, CallQuiet
<1>4. ASSUME NEW w \in Workers, WorkerStep(w)
      PROVE  OnceInv'
  BY <1>1, <1>2, <1>4, ClaimPreserves, SubmitPreserves, IntakeQuiet, ClaimerQuiet, SettledQuiet
     DEF WorkerStep
<1>5. CASE Environment \/ Operator \/ UNCHANGED vars
  BY <1>2, <1>5, OthersQuiet
<1> QED
  BY <1>3, <1>4, <1>5 DEF Next

\* The initial state satisfies the invariant of the sent payments.
LEMMA OnceInit ==
  ASSUME Init
  PROVE  OnceInv
<1>1. \A w \in Workers : pc[w] \notin PreSubmit
  BY DEF Init, PreSubmit
<1>2. \A o \in Ops : settleCalls[o] = 0 /\ rows[o].status = "absent"
  BY DEF Init, StoreInit, AbsentRow
<1> QED
  BY <1>1, <1>2 DEF OnceInv, ClaimerUnsent, OneClaimer, ClaimerOwnsPayload, NoneRejected,
     SettleCalledOnce, SentStaysBlocking

\* The invariant of the sent payments holds in every reachable state.
LEMMA OnceInductive ==
  ASSUME RoleGuarded
  PROVE  Spec => []OnceInv
<1>1. Init => OnceInv
  BY OnceInit
<1>2. IndType /\ OperPaid /\ OnceInv /\ [Next]_vars => OnceInv'
  BY OnceStep
<1> QED
  BY <1>1, <1>2, Inductive, PTL DEF Spec

\* As the deployed application's database role, any number of concurrent,
\* dying and retried accept() calls send at most one settle request for an
\* operation.
THEOREM SettlesOnce ==
  ASSUME RoleGuarded
  PROVE  Spec => []SettleCalledOnce
<1>1. OnceInv => SettleCalledOnce
  BY DEF OnceInv
<1> QED
  BY <1>1, OnceInductive, PTL

\* Under the same role a sent payment keeps its slot blocked, under the
\* payload that was sent.
THEOREM SentBlocks ==
  ASSUME RoleGuarded
  PROVE  Spec => []SentStaysBlocking
<1>1. OnceInv => SentStaysBlocking
  BY DEF OnceInv
<1> QED
  BY <1>1, OnceInductive, PTL
===========================================================================
