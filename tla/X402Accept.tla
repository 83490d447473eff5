----------------------------- MODULE X402Accept -----------------------------
(***************************************************************************)
(* The paid resource of the x402 rail: concurrent accept() calls of        *)
(* DevnetMachineResource, the client-side staging of a prepared attempt,   *)
(* the facilitator, the Solana chain and the operator CLI, all over one    *)
(* settlement table.                                                       *)
(*                                                                         *)
(* A worker is one accept() (or stagePreparedAttempt()) call in some       *)
(* serverless instance.  Its steps are split at the awaits that touch      *)
(* shared state; a worker may die between any two of them.  The return of  *)
(* an external call and the database write that follows it are one step:   *)
(* the return touches nothing another process reads.                       *)
(***************************************************************************)
EXTENDS SettlementStore

CONSTANTS
    Workers,        \* concurrent calls
    Kinds,          \* subset of {"accept", "stage"}: the calls a run makes
    Tasks,          \* subset of {"release", "reconcile"}: the operator commands a run makes
    Conforming,     \* payloads that, once final, carry the expected memo and transfer
    Reported        \* per payload, the hashes the facilitator may name when it settles it

ASSUME ConformingAssumption == Conforming \subseteq Payloads
ASSUME KindsAssumption == Kinds \subseteq {"accept", "stage"}
ASSUME TasksAssumption == Tasks \subseteq {"release", "reconcile"}
ASSUME ReportedAssumption == Reported \in [Payloads -> SUBSET Payloads]

VARIABLES
    pc,             \* where each worker is
    job,            \* its call and its local variables
    reply,          \* the response sent by the last step, if it sent one
    settleCalls,    \* per operation: settle requests sent to the facilitator, saturating at 2
    sent,           \* payloads the facilitator has been asked to settle
    landed,         \* payloads finalized on chain
    expired,        \* payloads whose blockhash is no longer valid
    oper            \* the operator CLI

storeVars == <<rows, lastReleased>>
chainVars == <<settleCalls, sent, landed, expired>>
vars == <<rows, lastReleased, pc, job, reply, settleCalls, sent, landed, expired, oper>>

Pc == {"idle", "insert", "stage", "takeover", "reopen", "claim", "abandon", "blockhash",
       "revalidate", "verify", "revalidate2", "submit", "settle",
       "complete", "lost", "failclosed", "reconcile"}

\* HTTP statuses of accept(); 201 and 500 are a staged attempt and an exception.
Status == {200, 201, 202, 402, 409, 500, 502}
Reply == [status : Status \cup {0}, op : Ops \cup {None}, payload : Payloads \cup {None}]
NoReply == [status |-> 0, op |-> None, payload |-> None]

\* seen, tx and payer are what the call read of the row it joins; retry marks
\* a join that may not claim.
Job == [kind : Kinds \cup {None}, payload : Payloads \cup {None},
        approval : Approvals \cup {None}, op : Ops \cup {None},
        seen : InFlight \cup {None}, fence : Fences \cup {None},
        tx : Payloads \cup {None}, payer : BOOLEAN, retry : BOOLEAN]

NoJob == [kind |-> None, payload |-> None, approval |-> None, op |-> None,
          seen |-> None, fence |-> None, tx |-> None, payer |-> FALSE, retry |-> FALSE]

Oper == [step : {"idle", "absent", "checked", "claimed"}, op : Ops \cup {None},
         approval : Approvals \cup {None}, fence : Fences \cup {None},
         tx : Payloads \cup {None}]

NoOper == [step |-> "idle", op |-> None, approval |-> None, fence |-> None, tx |-> None]

TypeOK ==
    /\ StoreTypeOK
    /\ pc \in [Workers -> Pc]
    /\ job \in [Workers -> Job]
    /\ reply \in Reply
    /\ settleCalls \in [Ops -> 0..2]
    /\ sent \subseteq Payloads
    /\ landed \subseteq Payloads
    /\ expired \subseteq Payloads
    /\ oper \in Oper

Init ==
    /\ StoreInit
    /\ pc = [w \in Workers |-> "idle"]
    /\ job = [w \in Workers |-> NoJob]
    /\ reply = NoReply
    /\ settleCalls = [o \in Ops |-> 0]
    /\ sent = {}
    /\ landed = {}
    /\ expired = {}
    /\ oper = NoOper

---------------------------------------------------------------------------
(* Local steps *)

\* The call of worker w, whose locals are j, ends with a response.
Respond(w, j, status) ==
    /\ pc' = [pc EXCEPT ![w] = "idle"]
    /\ job' = [job EXCEPT ![w] = NoJob]
    /\ reply' = [status |-> status, op |-> j.op, payload |-> j.payload]

Goto(w, label, j) ==
    /\ pc' = [pc EXCEPT ![w] = label]
    /\ job' = [job EXCEPT ![w] = j]
    /\ reply' = NoReply

UsedFences ==
    {rows[o].fence : o \in Ops} \cup {job[w].fence : w \in Workers} \cup {oper.fence}
FreshFence == CHOOSE f \in Fences : f \notin UsedFences
FenceAvailable == \E f \in Fences : f \notin UsedFences

---------------------------------------------------------------------------
(* joinStoredRow *)

\* The answer to a row that needs no further work; a live settling lease
\* belongs to someone else.
JoinResponse(status) ==
    CASE status = "settled" -> 200
      [] status = "rejected" -> 402
      [] status \in {"manual", "settling"} -> 202
      [] status = "mismatch" -> 502
      [] status = "released" -> 409

\* joinStoredRow returned null: the first join claims, a later one gives up.
JoinedNothing(w, j) ==
    IF j.retry THEN Respond(w, j, 202)
    ELSE Goto(w, "claim", [NoJob EXCEPT !.kind = j.kind, !.payload = j.payload, !.op = j.op])

\* The dispatch on the row just read.  An awaiting row whose lease is live is
\* reconciled under the fence it carries, whoever holds it; a lapsed one is
\* taken over first.
JoinStoredRow(w, j) ==
    LET r == rows[j.op]
        live == r.lease = "live"
        k == [j EXCEPT !.seen = r.status, !.tx = r.tx, !.payer = r.payer, !.fence = None] IN
    \/ /\ r.status \in TerminalResolved \cup {"manual"} \/ (r.status = "settling" /\ live)
       /\ Respond(w, j, JoinResponse(r.status))
    \/ r.status = "pending" /\ JoinedNothing(w, j)
    \/ r.status = "awaiting_evidence" /\ live /\ Goto(w, "reconcile", [k EXCEPT !.fence = r.fence])
    \/ r.status \in InFlight /\ ~live /\ Goto(w, "takeover", k)

\* A re-read of the row after a lost claim or a lost lease, then the join.
\* The payload bound to the row is not compared again.
Rejoin(w) == JoinStoredRow(w, [job[w] EXCEPT !.retry = TRUE])

\* What the caller does with the row o that resolveOrCreate returned.
Resolved(w, j, o) ==
    LET k == [j EXCEPT !.op = o] IN
    IF ApprovalMismatch(o, j.approval) \/ SlotOfOp(o) # SlotOf[j.payload]
       \/ rows[o].payload \notin {None, j.payload}
    THEN Respond(w, k, IF j.kind = "stage" THEN 500 ELSE 409)
    ELSE IF j.kind = "accept" THEN JoinStoredRow(w, k)
    ELSE IF rows[o].payload = None THEN Goto(w, "stage", k)
    ELSE Respond(w, k, 201)

---------------------------------------------------------------------------
(* Intake: resolveOrCreate, its reads and its insert *)

\* The pid check and the fast-path reads.  They write nothing; whatever they
\* saw may be stale when the insert runs.
Call(w, kind, p, approval) ==
    LET s == SlotOf[p]
        pid == PidOf[p]
        j == [NoJob EXCEPT !.kind = kind, !.payload = p, !.approval = approval] IN
    /\ pc[w] = "idle"
    /\ UNCHANGED <<storeVars, chainVars, oper>>
    /\ \/ /\ kind = "accept"
          /\ \E o \in FindByPaymentId(pid) : SlotOfOp(o) # s
          /\ Respond(w, j, 409)
       \/ /\ kind = "accept" => \A o \in FindByPaymentId(pid) : SlotOfOp(o) = s
          /\ \/ \E o \in ResolveCandidates(s, pid) : Resolved(w, j, o)
             \/ /\ ResolveCandidates(s, pid) = {}
                /\ ReleaseRequired(s, approval)
                /\ Respond(w, j, IF kind = "stage" THEN 500 ELSE 409)
             \/ /\ ResolveCandidates(s, pid) = {}
                /\ ~ReleaseRequired(s, approval)
                /\ \E a \in NewAuth(s, approval) :
                      Goto(w, "insert", [j EXCEPT !.op = <<s, a>>])

\* The insert; a new row is pending, so the call goes on to claim or stage it.
Insert(w) ==
    LET o == job[w].op
        pid == PidOf[job[w].payload] IN
    /\ pc[w] = "insert"
    /\ UNCHANGED <<lastReleased, chainVars, oper>>
    /\ \/ /\ ~InsertConflict(o, pid)
          /\ rows' = [rows EXCEPT ![o] = NewRow(pid)]
          /\ IF job[w].kind = "accept" THEN JoinedNothing(w, job[w]) ELSE Goto(w, "stage", job[w])
       \/ /\ InsertConflict(o, pid)
          /\ \E q \in ConflictWinner(o, pid) : Resolved(w, job[w], q)
          /\ UNCHANGED rows

\* stagePreparedAttempt stamps the payload it found missing when it read.
Stage(w) ==
    LET o == job[w].op
        new == StagedRow(rows[o], PidOf[job[w].payload], job[w].payload) IN
    /\ pc[w] = "stage"
    /\ UNCHANGED <<lastReleased, chainVars, oper>>
    /\ IF rows[o].status # "pending" THEN Respond(w, job[w], 201) /\ UNCHANGED rows
       ELSE IF RoleAllows(rows[o], new) /\ FindByPaymentId(new.pid) \subseteq {o}
       THEN Respond(w, job[w], 201) /\ rows' = [rows EXCEPT ![o] = new]
       ELSE Respond(w, job[w], 500) /\ UNCHANGED rows

\* Mutant: a takeover that loses the race has no way on.
TakeOverWaits(w) ==
    LET o == job[w].op IN
    /\ pc[w] = "takeover"
    /\ CanTakeOver(o) /\ FenceAvailable
    /\ rows' = [rows EXCEPT ![o] = TakenRow(rows[o], FreshFence)]
    /\ Goto(w, IF job[w].seen = "settling" THEN "reopen" ELSE "reconcile",
            [job[w] EXCEPT !.fence = FreshFence])
    /\ UNCHANGED <<lastReleased, chainVars, oper>>

\* claimRowForTakeover.  One that finds the lease live again, or the row moved
\* on, re-reads, and joins unless it saw and still sees an awaiting row.
TakeOver(w) ==
    LET o == job[w].op IN
    /\ pc[w] = "takeover"
    /\ UNCHANGED <<lastReleased, chainVars, oper>>
    /\ \/ /\ CanTakeOver(o) /\ FenceAvailable
          /\ rows' = [rows EXCEPT ![o] = TakenRow(rows[o], FreshFence)]
          /\ Goto(w, IF job[w].seen = "settling" THEN "reopen" ELSE "reconcile",
                  [job[w] EXCEPT !.fence = FreshFence])
       \/ /\ ~CanTakeOver(o)
          /\ UNCHANGED rows
          /\ IF job[w].seen = "awaiting_evidence" /\ rows[o].status = "awaiting_evidence"
             THEN Respond(w, job[w], 202)
             ELSE JoinStoredRow(w, job[w])

\* Mutant: the row is reopened without the fence of the takeover.
ReopenUnfenced(w) ==
    LET o == job[w].op
        new == [rows[o] EXCEPT !.status = "pending"] IN
    /\ pc[w] = "reopen"
    /\ rows' = AfterTransition(o, {"settling"}, None, new)
    /\ UNCHANGED <<lastReleased, chainVars, oper>>
    /\ JoinedNothing(w, job[w])

\* join-takeover: the lapsed attempt goes back to pending, then the caller
\* claims it (or answers, when this was not the first join).
Reopen(w) ==
    LET o == job[w].op
        new == [rows[o] EXCEPT !.status = "pending"] IN
    /\ pc[w] = "reopen"
    /\ rows' = AfterTransition(o, {"settling"}, job[w].fence, new)
    /\ UNCHANGED <<lastReleased, chainVars, oper>>
    /\ IF TransitionResult(o, {"settling"}, job[w].fence, new) = "raise"
       THEN Respond(w, job[w], 500) ELSE JoinedNothing(w, job[w])

---------------------------------------------------------------------------
(* Claim, verify, settle *)

\* claimForSettle.  The winner goes on under a fresh fence unless the row was
\* stamped with another payload meanwhile; the loser re-reads and joins.
Claim(w) ==
    LET o == job[w].op
        new == ClaimedRow(rows[o], FreshFence, job[w].payload) IN
    /\ pc[w] = "claim"
    /\ UNCHANGED <<lastReleased, chainVars, oper>>
    /\ \/ /\ CanClaim(o) /\ FenceAvailable
          /\ rows' = [rows EXCEPT ![o] = new]
          /\ Goto(w, IF new.payload # job[w].payload THEN "abandon"
                     ELSE IF new.blockhash THEN "revalidate" ELSE "blockhash",
                  [job[w] EXCEPT !.fence = FreshFence])
       \/ /\ ~CanClaim(o)
          /\ Rejoin(w)
          /\ UNCHANGED rows

\* claim-digest-abandon: hand the row back, answer 409.
Abandon(w) ==
    LET o == job[w].op
        new == [rows[o] EXCEPT !.status = "pending"] IN
    /\ pc[w] = "abandon"
    /\ rows' = AfterTransition(o, {"settling"}, job[w].fence, new)
    /\ UNCHANGED <<lastReleased, chainVars, oper>>
    /\ Respond(w, job[w], IF TransitionResult(o, {"settling"}, job[w].fence, new) = "raise"
                  THEN 500 ELSE 409)

\* claim-blockhash: the result is not looked at, and a header whose blockhash
\* cannot be decoded is not stamped at all.
Blockhash(w) ==
    LET o == job[w].op IN
    /\ pc[w] = "blockhash"
    /\ \/ UNCHANGED rows
       \/ rows' = AfterTransition(o, {"settling"}, job[w].fence,
                                  [rows[o] EXCEPT !.blockhash = TRUE])
    /\ Goto(w, "revalidate", job[w])
    /\ UNCHANGED <<lastReleased, chainVars, oper>>

\* revalidateForSettle, before verify and again before settle.
Revalidate(w) ==
    /\ \/ pc[w] = "revalidate"
       \/ pc[w] = "revalidate2"
    /\ IF HoldsLease(job[w].op, {"settling"}, job[w].fence)
       THEN Goto(w, IF pc[w] = "revalidate" THEN "verify" ELSE "submit", job[w])
       ELSE Rejoin(w)
    /\ UNCHANGED <<storeVars, chainVars, oper>>

\* The facilitator refuses the payment, or does not answer in time.
VerifyInvalid(w) ==
    LET o == job[w].op
        new == [rows[o] EXCEPT !.status = "rejected"] IN
    /\ pc[w] = "verify"
    /\ rows' = AfterTransition(o, {"settling"}, job[w].fence, new)
    /\ UNCHANGED <<lastReleased, chainVars, oper>>
    /\ Respond(w, job[w], IF TransitionResult(o, {"settling"}, job[w].fence, new) = "raise"
                  THEN 500 ELSE 402)

\* The facilitator approves; a named payer is persisted under the lease.
VerifyValid(w, named) ==
    LET o == job[w].op
        new == [rows[o] EXCEPT !.payer = TRUE] IN
    /\ pc[w] = "verify"
    /\ UNCHANGED <<lastReleased, chainVars, oper>>
    /\ \/ /\ ~named
          /\ UNCHANGED rows
          /\ Goto(w, "revalidate2", job[w])
       \/ /\ named
          /\ rows' = AfterTransition(o, {"settling"}, job[w].fence, new)
          /\ IF TransitionResult(o, {"settling"}, job[w].fence, new) = "ok"
             THEN Goto(w, "revalidate2", [job[w] EXCEPT !.payer = TRUE])
             ELSE Rejoin(w)

\* settlePayment leaves the process; the transaction may land from now on.
Submit(w) ==
    LET o == job[w].op IN
    /\ pc[w] = "submit"
    /\ sent' = sent \cup {job[w].payload}
    /\ settleCalls' = [settleCalls EXCEPT ![o] = IF @ = 2 THEN 2 ELSE @ + 1]
    /\ Goto(w, "settle", job[w])
    /\ UNCHANGED <<storeVars, landed, expired, oper>>

\* A settle call that did not succeed writes the row and answers.
SettleOutcome(w, new, status) ==
    /\ rows' = AfterTransition(job[w].op, {"settling"}, job[w].fence, new)
    /\ Respond(w, job[w], status)

\* The error paths of a returned settle call: no hash (thrown, malformed,
\* incomplete, unsuccessful); a payer other than the verified one, with or
\* without a hash; a hash without a usable success, with whatever payer verify
\* or settle has named.
SettleFails(w) ==
    LET r == rows[job[w].op]
        hashes == Reported[job[w].payload] IN
    /\ pc[w] = "settle"
    /\ \/ SettleOutcome(w, [r EXCEPT !.status = "manual"], 202)
       \/ /\ job[w].payer
          /\ \E h \in hashes \cup {None} :
                SettleOutcome(w, [r EXCEPT !.status = "manual", !.tx = h], 502)
       \/ \E h \in hashes, b \in {job[w].payer, TRUE} :
             SettleOutcome(w, [r EXCEPT !.status = "awaiting_evidence", !.tx = h, !.payer = b], 202)
    /\ UNCHANGED <<lastReleased, chainVars, oper>>

\* A complete success response, payer and hash included: completeSettlement.
SettleSucceeds(w) ==
    /\ pc[w] = "settle"
    /\ \E h \in Reported[job[w].payload] :
          Goto(w, "complete", [job[w] EXCEPT !.tx = h, !.payer = TRUE])
    /\ UNCHANGED <<storeVars, chainVars, oper>>

---------------------------------------------------------------------------
(* completeSettlement and reconciliation *)

\* Mutant: the memo is compared, the transfer is not.
InspectTransactionMemoOnly(tx, s, payer) ==
    {"unavailable"} \cup
        (IF tx \notin landed THEN {}
         ELSE IF SlotOf[tx] = s THEN {"verified"} ELSE {"mismatch"})

\* Mutant: a transaction that is not final yet is a mismatch.
InspectTransactionEarly(tx, s, payer) ==
    {"unavailable",
     IF tx \in landed \cap Conforming /\ SlotOf[tx] = s /\ payer THEN "verified" ELSE "mismatch"}

\* inspectTransaction: what the RPC node may say of a hash when the memo of
\* slot s is expected.  Without a known payer the transfer cannot match.
InspectTransaction(tx, s, payer) ==
    {"unavailable"} \cup
        (IF tx \notin landed THEN {}
         ELSE IF tx \in Conforming /\ SlotOf[tx] = s /\ payer THEN {"verified"}
         ELSE {"mismatch"})

Inspection(w) == InspectTransaction(job[w].tx, SlotOfOp(job[w].op), job[w].payer)

\* The settled write, lost write re-read, and the fail-closed writes.
PersistSettled(w) ==
    LET o == job[w].op
        new == [rows[o] EXCEPT !.status = "settled", !.tx = job[w].tx]
        result == TransitionResult(o, InFlight, job[w].fence, new) IN
    /\ rows' = AfterTransition(o, InFlight, job[w].fence, new)
    /\ \/ result = "ok" /\ Respond(w, job[w], 200)
       \/ result = "raise" /\ Respond(w, job[w], 202)
       \/ result = "null" /\ Goto(w, "lost", job[w])

FailClosed(w, to) ==
    /\ rows' = AfterTransition(job[w].op, InFlight, job[w].fence,
                   [rows[job[w].op] EXCEPT !.status = to, !.tx = job[w].tx])
    /\ Respond(w, job[w], IF to = "manual" THEN 502 ELSE 202)

Complete(w) ==
    /\ pc[w] = "complete"
    /\ \/ /\ "verified" \in Inspection(w)
          /\ PersistSettled(w)
       \/ /\ "mismatch" \in Inspection(w)
          /\ FailClosed(w, "manual")
       \/ FailClosed(w, "awaiting_evidence")
    /\ UNCHANGED <<lastReleased, chainVars, oper>>

\* Mutant: a lost settled write assumes that the winner settled.
LostWriteTrusting(w) ==
    /\ pc[w] = "lost"
    /\ Respond(w, job[w], 200)
    /\ UNCHANGED <<storeVars, chainVars, oper>>

\* The re-read after a settled write that matched no row.
LostWrite(w) ==
    /\ pc[w] = "lost"
    /\ IF rows[job[w].op].status = "settled" THEN Respond(w, job[w], 200)
       ELSE Goto(w, "failclosed", job[w])
    /\ UNCHANGED <<storeVars, chainVars, oper>>

LostFailClosed(w) ==
    /\ pc[w] = "failclosed"
    /\ FailClosed(w, "awaiting_evidence")
    /\ UNCHANGED <<lastReleased, chainVars, oper>>

\* The join of an awaiting row: settle it, mark it mismatched, or wait.
Reconcile(w) ==
    LET o == job[w].op IN
    /\ pc[w] = "reconcile"
    /\ \/ /\ "verified" \in Inspection(w)
          /\ PersistSettled(w)
       \/ /\ "mismatch" \in Inspection(w)
          /\ rows' = AfterTransition(o, {"awaiting_evidence"}, job[w].fence,
                         [rows[o] EXCEPT !.status = "mismatch"])
          /\ Respond(w, job[w], 502)
       \/ Respond(w, job[w], 202) /\ UNCHANGED rows
    /\ UNCHANGED <<lastReleased, chainVars, oper>>

---------------------------------------------------------------------------
(* The chain, time and crashes *)

Land(p) ==
    /\ p \in sent \ (landed \cup expired)
    /\ landed' = landed \cup {p}
    /\ reply' = NoReply
    /\ UNCHANGED <<storeVars, pc, job, settleCalls, sent, expired, oper>>

\* Only release reads expiry (a transaction may fail to land anyway), so only
\* a run with releases has it.
ExpireBlockhash(p) ==
    /\ "release" \in Tasks
    /\ p \notin expired
    /\ expired' = expired \cup {p}
    /\ reply' = NoReply
    /\ UNCHANGED <<storeVars, pc, job, settleCalls, sent, landed, oper>>

\* Only in-flight rows are looked at by lease.
LapseLease(o) ==
    /\ rows[o].status \in InFlight
    /\ rows[o].lease = "live"
    /\ rows' = [rows EXCEPT ![o].lease = "lapsed"]
    /\ reply' = NoReply
    /\ UNCHANGED <<lastReleased, pc, job, chainVars, oper>>

\* The instance dies, or a statement fails and the exception ends the call.
Crash(w) ==
    /\ pc[w] # "idle"
    /\ pc' = [pc EXCEPT ![w] = "idle"]
    /\ job' = [job EXCEPT ![w] = NoJob]
    /\ reply' = NoReply
    /\ UNCHANGED <<storeVars, chainVars, oper>>

---------------------------------------------------------------------------
(* The operator CLI: release and reconcile-settled *)

\* release: read the row and refuse unless the stored payload's transaction
\* is not on chain ...
ReleaseCheck(o, approval) ==
    LET r == rows[o] IN
    /\ "release" \in Tasks
    /\ oper.step = "idle"
    /\ r.blockhash /\ r.tx = None /\ r.payload \notin landed \cup {None}
    /\ oper' = [NoOper EXCEPT !.step = "absent", !.op = o, !.approval = approval]
    /\ reply' = NoReply
    /\ UNCHANGED <<storeVars, pc, job, chainVars>>

\* Mutant: the release update does not ask for status manual.
ReleaseAnyStatus ==
    LET o == oper.op IN
    /\ oper.step = "absent"
    /\ oper' = NoOper
    /\ reply' = NoReply
    /\ IF rows[o].payload \in expired
       THEN /\ rows' = [rows EXCEPT ![o] = ReleasedRow(rows[o], oper.approval)]
            /\ lastReleased' = [lastReleased EXCEPT ![SlotOfOp(o)] = o]
       ELSE UNCHANGED storeVars
    /\ UNCHANGED <<pc, job, chainVars>>

\* Mutant: the expiry of the blockhash is not asked for.
ReleaseUnexpired ==
    LET o == oper.op IN
    /\ oper.step = "absent"
    /\ oper' = NoOper
    /\ reply' = NoReply
    /\ IF rows[o].status = "manual"
       THEN /\ rows' = [rows EXCEPT ![o] = ReleasedRow(rows[o], oper.approval)]
            /\ lastReleased' = [lastReleased EXCEPT ![SlotOfOp(o)] = o]
       ELSE UNCHANGED storeVars
    /\ UNCHANGED <<pc, job, chainVars>>

\* ... then refuse unless its blockhash has expired, then write.
Release ==
    LET o == oper.op IN
    /\ oper.step = "absent"
    /\ oper' = NoOper
    /\ reply' = NoReply
    /\ IF rows[o].payload \in expired /\ rows[o].status = "manual"
       THEN /\ rows' = [rows EXCEPT ![o] = ReleasedRow(rows[o], oper.approval)]
            /\ lastReleased' = [lastReleased EXCEPT ![SlotOfOp(o)] = o]
       ELSE UNCHANGED storeVars
    /\ UNCHANGED <<pc, job, chainVars>>

\* reconcile-settled: the row must be in flight with a payer and no other hash,
\* and the cited transaction final with the slot's memo and that payer ...
ReconcileCheck(o, tx) ==
    LET r == rows[o] IN
    /\ "reconcile" \in Tasks
    /\ oper.step = "idle"
    /\ r.status \in InFlight /\ r.payer /\ r.tx \in {None, tx}
    /\ "verified" \in InspectTransaction(tx, SlotOfOp(o), r.payer)
    /\ oper' = [NoOper EXCEPT !.step = "checked", !.op = o, !.tx = tx]
    /\ reply' = NoReply
    /\ UNCHANGED <<storeVars, pc, job, chainVars>>

\* ... then the row is taken over ...
ReconcileClaim ==
    LET o == oper.op IN
    /\ oper.step = "checked"
    /\ \/ /\ CanTakeOver(o) /\ FenceAvailable
          /\ rows' = [rows EXCEPT ![o] = TakenRow(rows[o], FreshFence)]
          /\ oper' = [oper EXCEPT !.step = "claimed", !.fence = FreshFence]
       \/ /\ ~CanTakeOver(o)
          /\ oper' = NoOper
          /\ UNCHANGED rows
    /\ reply' = NoReply
    /\ UNCHANGED <<lastReleased, pc, job, chainVars>>

\* ... and settled under the new fence.
ReconcileSettled ==
    LET o == oper.op IN
    /\ oper.step = "claimed"
    /\ rows' = AfterTransition(o, InFlight, oper.fence,
                   [rows[o] EXCEPT !.status = "settled", !.tx = oper.tx])
    /\ oper' = NoOper
    /\ reply' = NoReply
    /\ UNCHANGED <<lastReleased, pc, job, chainVars>>

---------------------------------------------------------------------------

WorkerStep(w) ==
    \/ Insert(w) \/ Stage(w)
    \/ TakeOver(w) \/ Reopen(w)
    \/ Claim(w) \/ Abandon(w) \/ Blockhash(w) \/ Revalidate(w)
    \/ VerifyInvalid(w)
    \/ \E named \in BOOLEAN : VerifyValid(w, named)
    \/ Submit(w) \/ SettleFails(w) \/ SettleSucceeds(w)
    \/ Complete(w) \/ LostWrite(w) \/ LostFailClosed(w) \/ Reconcile(w)

Environment ==
    \/ \E p \in Payloads : Land(p) \/ ExpireBlockhash(p)
    \/ \E o \in Ops : LapseLease(o)
    \/ \E w \in Workers : Crash(w)

Operator ==
    \/ \E o \in Ops, a \in Approvals : ReleaseCheck(o, a)
    \/ Release
    \/ \E o \in Ops, tx \in Payloads : ReconcileCheck(o, tx)
    \/ ReconcileClaim
    \/ ReconcileSettled

Next ==
    \/ \E w \in Workers, k \in Kinds, p \in Payloads, a \in Approvals \cup {None} :
          Call(w, k, p, a)
    \/ \E w \in Workers : WorkerStep(w)
    \/ Environment
    \/ Operator

Spec == Init /\ [][Next]_vars

\* Calls run to their end, clients repeat an unanswered request, a lease that
\* is not renewed lapses, and the RPC node does not stay unavailable forever.
Fairness ==
    /\ \A w \in Workers : WF_vars(WorkerStep(w))
    /\ \A p \in Payloads : SF_vars(\E w \in Workers : Call(w, "accept", p, None))
    /\ \A o \in Ops : WF_vars(LapseLease(o))
    /\ \A w \in Workers : SF_vars(Reconcile(w) /\ rows' # rows)

FairSpec == Spec /\ Fairness

---------------------------------------------------------------------------
(* Properties *)

\* A row is settled only on a finalized transaction of its own slot that
\* carries the expected memo and transfer: completeSettlement, the join's
\* reconciliation and the operator's reconcile-settled never record success
\* on the facilitator's word alone, whatever hash it names and whatever dies
\* or is taken over between.
SettledIsPaid ==
    \A o \in Ops : rows[o].status = "settled" =>
        /\ rows[o].tx \in landed \cap Conforming
        /\ SlotOf[rows[o].tx] = SlotOfOp(o)

\* A 200 from accept() names a row that is settled, on every path that serves
\* the paid resource (fresh settlement, replay, lost race, reconciliation).
ServedIsSettled ==
    reply.status = 200 => rows[reply.op].status = "settled"

\* The facilitator is asked to settle an operation at most once, over any
\* crashes, takeovers, retries and concurrent calls.
SettleCalledOnce == \A o \in Ops : settleCalls[o] <= 1

\* An attempt whose payment has been sent is never reopened or rejected, and
\* keeps the payload that was sent: the slot stays blocked until the attempt
\* is settled, found mismatched or released.
SentStaysBlocking ==
    \A o \in Ops : settleCalls[o] > 0 =>
        /\ rows[o].status \notin {"absent", "pending", "rejected"}
        /\ rows[o].payload \in sent

\* Resolved rows never change again, and a manual row can only be released,
\* although stale workers go on writing after a takeover.
ResolvedIsFinal ==
    [][\A o \in Ops :
          /\ rows[o].status \in TerminalResolved => rows'[o] = rows[o]
          /\ rows[o].status = "manual" => rows'[o].status \in {"manual", "released"}]_vars

\* Where the row names a payer, reconciliation gives up a slot as mismatched
\* only on a hash that is no payment for that slot, however often the row was
\* joined or taken over before the transaction was final.  (Without a payer
\* there is nothing to compare the transfer with: the code calls it a mismatch.)
MismatchIsUnpaid ==
    \A o \in Ops : rows[o].status = "mismatch" /\ rows[o].payer =>
        ~ (rows[o].tx \in landed \cap Conforming /\ SlotOf[rows[o].tx] = SlotOfOp(o))

\* One slot is charged once: no second conforming payment for it is on chain.
ChargedOnce ==
    \A p, q \in landed \cap Conforming : SlotOf[p] = SlotOf[q] => p = q

\* What release gives up cannot pay any more: a payment that is not on chain
\* when the operator's write frees the slot for another one never lands, in
\* spite of the time between the operator's two questions to the RPC node.
ReleasedNeverPays ==
    [][\A o \in Ops : rows[o].status = "released" /\ rows[o].payload \in landed' =>
          rows[o].payload \in landed]_vars

\* The abstract state of an attempt.
AbstractState(o) ==
    LET status == rows[o].status IN
    IF status = "absent" THEN "none"
    ELSE IF status \in TerminalResolved \cup {"manual"} THEN status
    ELSE IF settleCalls[o] = 0 THEN "open" ELSE "sent"

Attempt == INSTANCE PaymentAttempt WITH
    Attempts <- Ops,
    RequestOf <- [o \in Ops |-> SlotOfOp(o)],
    Adopts <- "reconcile" \in Tasks,
    att <- [o \in Ops |-> AbstractState(o)]

\* The workers, the table and its constraints together implement the abstract
\* attempts: one under way per request, its payment sent once and never taken
\* back, one settlement per request.
ImplementsAttempts == Attempt!ASpec

\* Eventually no process dies any more, and leases lapse only when nobody
\* works under them (a lease lasts 5 minutes, an external call 30 seconds).
Calm ==
    /\ <>[][\A w \in Workers : ~Crash(w)]_vars
    /\ <>[][\A o \in Ops : LapseLease(o) => \A w \in Workers : job[w].fence # rows[o].fence]_vars

\* Every call is answered.
CallsFinish ==
    <>[][\A w \in Workers : ~Crash(w)]_vars =>
        \A w \in Workers : pc[w] # "idle" ~> pc[w] = "idle"

\* A settling attempt whose worker is gone is taken over by a retry: no slot
\* stays in the settling state forever.
SlotRecovers ==
    Calm => \A o \in Ops : rows[o].status = "settling" ~> rows[o].status # "settling"

\* An attempt whose payment is on chain but unrecorded (the worker died, or
\* the evidence was not available) is settled by some later retry, if verify or
\* settle named the payer the transfer is compared with.
EvidenceSettles ==
    Calm => \A o \in Ops :
        (/\ rows[o].status = "awaiting_evidence" /\ rows[o].payer
         /\ rows[o].tx \in landed \cap Conforming) ~> rows[o].status = "settled"
===========================================================================
