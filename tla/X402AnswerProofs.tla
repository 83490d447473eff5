-------------------------- MODULE X402AnswerProofs --------------------------
(***************************************************************************)
(* The paid resource is served only for a settled row, on every path of    *)
(* accept(), with and without the role trigger.                            *)
(*                                                                         *)
(* The argument: every step either sends no response or sends one in the   *)
(* step that reads or writes the row it is about.                          *)
(***************************************************************************)
EXTENDS X402AcceptProofs

\* The response of this step, if it serves the resource, is for a settled row.
Honoured == reply'.status = 200 => rows'[reply'.op].status = "settled"

\* A step that sends no response.
LEMMA SilentHonoured ==
  ASSUME reply' = NoReply
  PROVE  Honoured
  BY DEF NoReply, Honoured

\* A move to another label sends no response.
LEMMA GotoHonoured ==
  ASSUME NEW w, NEW l, NEW j, Goto(w, l, j)
  PROVE  Honoured
  BY SilentHonoured DEF Goto

\* A response other than 200.
LEMMA RefusalHonoured ==
  ASSUME NEW w, NEW j, NEW s, s # 200, Respond(w, j, s)
  PROVE  Honoured
  BY DEF Respond, Honoured

\* A join that returns null does not serve the resource.
LEMMA JoinedNothingHonoured ==
  ASSUME NEW w, NEW j, JoinedNothing(w, j)
  PROVE  Honoured
  BY GotoHonoured, RefusalHonoured DEF JoinedNothing

\* joinStoredRow serves the resource for a row it reads as settled.
LEMMA JoinHonoured ==
  ASSUME NEW w, NEW j, JoinStoredRow(w, j), UNCHANGED rows
  PROVE  Honoured
<1> DEFINE r == rows[j.op]
<1>1. CASE /\ r.status \in TerminalResolved \cup {"manual", "settling"}
           /\ Respond(w, j, JoinResponse(r.status))
  <2>1. CASE r.status = "settled"
    BY <1>1, <2>1 DEF Respond, Honoured
  <2>2. CASE r.status # "settled"
    <3>1. JoinResponse(r.status) # 200
      BY <1>1, <2>2 DEF JoinResponse, TerminalResolved
    <3> QED
      BY <1>1, <3>1, RefusalHonoured
  <2> QED
    BY <2>1, <2>2
<1>2. \/ /\ r.status \in TerminalResolved \cup {"manual", "settling"}
         /\ Respond(w, j, JoinResponse(r.status))
      \/ JoinedNothing(w, j)
      \/ \E l, k : Goto(w, l, k)
  BY DEF JoinStoredRow
<1> QED
  BY <1>1, <1>2, JoinedNothingHonoured, GotoHonoured

\* What is done with a resolved row.
LEMMA ResolvedHonoured ==
  ASSUME NEW w, NEW j, NEW o, Resolved(w, j, o), UNCHANGED rows
  PROVE  Honoured
<1> DEFINE k == [j EXCEPT !.op = o]
<1>1. JoinStoredRow(w, k) \/ Goto(w, "stage", k) \/ \E s \in {201, 409, 500} : Respond(w, k, s)
  BY DEF Resolved
<1> HIDE DEF k
<1> QED
  BY <1>1, JoinHonoured, GotoHonoured, RefusalHonoured

\* accept and the reads of resolveOrCreate.
LEMMA CallHonoured ==
  ASSUME NEW w, NEW kind, NEW p, NEW approval, Call(w, kind, p, approval)
  PROVE  Honoured
<1> DEFINE j == [NoJob EXCEPT !.kind = kind, !.payload = p, !.approval = approval]
<1>1. UNCHANGED rows
  BY DEF Call, storeVars
<1>2. \/ Respond(w, j, 409) \/ Respond(w, j, IF kind = "stage" THEN 500 ELSE 409)
      \/ \E o \in ResolveCandidates(SlotOf[p], PidOf[p]) : Resolved(w, j, o)
      \/ \E a \in NewAuth(SlotOf[p], approval) : Goto(w, "insert", [j EXCEPT !.op = <<SlotOf[p], a>>])
  BY DEF Call
<1> HIDE DEF j
<1>3. 409 # 200 /\ (IF kind = "stage" THEN 500 ELSE 409) # 200
  OBVIOUS
<1>4. CASE Respond(w, j, 409) \/ Respond(w, j, IF kind = "stage" THEN 500 ELSE 409)
  BY <1>3, <1>4, RefusalHonoured
<1>5. ASSUME NEW o, Resolved(w, j, o)
      PROVE  Honoured
  BY <1>1, <1>5, ResolvedHonoured
<1>6. ASSUME NEW a, Goto(w, "insert", [j EXCEPT !.op = <<SlotOf[p], a>>])
      PROVE  Honoured
  BY <1>6, GotoHonoured
<1> QED
  BY <1>2, <1>4, <1>5, <1>6

\* A settled write that matches its row answers 200 for the row it has settled.
LEMMA PersistHonoured ==
  ASSUME IndType, NEW w \in Workers, pc[w] # "idle", PersistSettled(w)
  PROVE  Honoured
<1> DEFINE o == job[w].op
           new == [rows[o] EXCEPT !.status = "settled", !.tx = job[w].tx]
           result == TransitionResult(o, InFlight, job[w].fence, new)
<1>1. o \in Ops /\ rows[o] \in Row /\ rows \in [Ops -> Row]
  BY JobType DEF IndType, StoreTypeOK
<1>2. CASE result = "ok" /\ Respond(w, job[w], 200)
  <2>1. Kept(new).status = "settled"
    BY <1>1 DEF Kept, Row, InFlight
  <2>2. rows' = [rows EXCEPT ![o] = Kept(new)]
    BY <1>2 DEF PersistSettled, AfterTransition
  <2>3. rows'[o].status = "settled" /\ reply'.op = o
    BY <1>1, <1>2, <2>1, <2>2 DEF Respond
  <2> QED
    BY <2>3 DEF Honoured
<1>3. (result = "ok" /\ Respond(w, job[w], 200)) \/ Respond(w, job[w], 202) \/ Goto(w, "lost", job[w])
  BY DEF PersistSettled
<1> QED
  BY <1>2, <1>3, RefusalHonoured, GotoHonoured

\* Every step of a call.
LEMMA WorkerHonoured ==
  ASSUME IndType, NEW w \in Workers, WorkerStep(w)
  PROVE  Honoured
<1>1. CASE Insert(w)
  <2>1. \/ JoinedNothing(w, job[w]) \/ Goto(w, "stage", job[w])
        \/ \E q : Resolved(w, job[w], q) /\ UNCHANGED rows
    BY <1>1 DEF Insert
  <2> QED
    BY <2>1, JoinedNothingHonoured, GotoHonoured, ResolvedHonoured
<1>2. CASE Stage(w) \/ Abandon(w) \/ VerifyInvalid(w) \/ LostFailClosed(w)
  <2>1. \E s \in {201, 202, 402, 409, 500, 502} : Respond(w, job[w], s)
    BY <1>2 DEF Stage, Abandon, VerifyInvalid, LostFailClosed, FailClosed
  <2> QED
    BY <2>1, RefusalHonoured
<1>3. CASE TakeOver(w) \/ Reopen(w)
  <2>1. \/ \E l, j : Goto(w, l, j)
        \/ Respond(w, job[w], 202) \/ Respond(w, job[w], 500)
        \/ JoinedNothing(w, job[w])
        \/ JoinStoredRow(w, job[w]) /\ UNCHANGED rows
    BY <1>3 DEF TakeOver, Reopen
  <2> QED
    BY <2>1, GotoHonoured, RefusalHonoured, JoinedNothingHonoured, JoinHonoured
<1>4. CASE Claim(w) \/ Blockhash(w) \/ Revalidate(w)
  <2>1. (\E l, j : Goto(w, l, j)) \/ (Rejoin(w) /\ UNCHANGED rows)
    BY <1>4 DEF Claim, Blockhash, Revalidate, storeVars
  <2> QED
    BY <2>1, GotoHonoured, JoinHonoured DEF Rejoin
<1>5. ASSUME NEW named \in BOOLEAN, VerifyValid(w, named)
      PROVE  Honoured
  <2>1. (\E l, j : Goto(w, l, j)) \/ (Rejoin(w) /\ UNCHANGED rows)
    BY <1>5 DEF VerifyValid, AfterTransition
  <2> QED
    BY <2>1, GotoHonoured, JoinHonoured DEF Rejoin
<1>6. CASE Submit(w) \/ SettleFails(w) \/ SettleSucceeds(w)
  <2>1. (\E l, j : Goto(w, l, j)) \/ Respond(w, job[w], 202) \/ Respond(w, job[w], 502)
    BY <1>6 DEF Submit, SettleFails, SettleOutcome, SettleSucceeds
  <2> QED
    BY <2>1, GotoHonoured, RefusalHonoured
<1>7. CASE Complete(w) \/ Reconcile(w)
  <2>1. PersistSettled(w) \/ Respond(w, job[w], 202) \/ Respond(w, job[w], 502)
    BY <1>7 DEF Complete, Reconcile, FailClosed
  <2>2. pc[w] # "idle"
    BY <1>7 DEF Complete, Reconcile
  <2> QED
    BY <2>1, <2>2, PersistHonoured, RefusalHonoured
<1>8. CASE LostWrite(w)
  <2>1. CASE rows[job[w].op].status = "settled"
    BY <1>8, <2>1 DEF LostWrite, storeVars, Respond, Honoured
  <2>2. CASE rows[job[w].op].status # "settled"
    BY <1>8, <2>2, GotoHonoured DEF LostWrite
  <2> QED
    BY <2>1, <2>2
<1> QED
  BY <1>1, <1>2, <1>3, <1>4, <1>5, <1>6, <1>7, <1>8 DEF WorkerStep

\* A 200 names a settled row, also when the row was settled by another worker
\* or by the operator.
THEOREM ServedOnlySettled == Spec => []ServedIsSettled
<1>1. Init => ServedIsSettled
  BY DEF Init, NoReply, ServedIsSettled
<1>2. ASSUME IndType, ServedIsSettled, [Next]_vars
      PROVE  ServedIsSettled'
  <2>1. CASE \E w \in Workers, k \in Kinds, p \in Payloads, a \in Approvals \cup {None} :
                Call(w, k, p, a)
    BY <2>1, CallHonoured DEF Honoured, ServedIsSettled
  <2>2. CASE \E w \in Workers : WorkerStep(w)
    BY <1>2, <2>2, WorkerHonoured DEF Honoured, ServedIsSettled
  <2>3. CASE Environment \/ Operator
    <3>1. reply' = NoReply
      BY <2>3 DEF Environment, Operator, Land, ExpireBlockhash, LapseLease, Crash, ReleaseCheck,
                  Release, ReconcileCheck, ReconcileClaim, ReconcileSettled
    <3> QED
      BY <3>1, SilentHonoured DEF Honoured, ServedIsSettled
  <2>4. CASE UNCHANGED vars
    BY <1>2, <2>4 DEF vars, ServedIsSettled
  <2> QED
    BY <1>2, <2>1, <2>2, <2>3, <2>4 DEF Next
<1> QED
  BY <1>1, <1>2, Inductive, PTL DEF Spec
=============================================================================
