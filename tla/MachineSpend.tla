---------------------------- MODULE MachineSpend ----------------------------
(***************************************************************************)
(* The client of the paid resource: the fit-score spend that respond()     *)
(* makes while it ranks (runFitScoreSpend), which reads the settlement     *)
(* table, signs and stages a payment, posts it to the premium-fit-score    *)
(* route and mirrors the answer in session.machineSpendAttempt.            *)
(*                                                                         *)
(* One session, whose calls the session lock serialises; the calls of the  *)
(* route run on the workers of X402Accept and outlive a client that gave   *)
(* up on them.  A slot is the pair of the order and the session's intent   *)
(* version.                                                                *)
(***************************************************************************)
EXTENDS X402Accept, Sequences

CONSTANTS
    Versions,       \* the slots of the session's successive intent versions (bound)
    Modes           \* subset of {"devnet", "mock"}: the X402_MODE of the deployment

ASSUME VersionsAssumption == Versions \in Seq(Slots) /\ Versions # << >>
ASSUME ModesAssumption == Modes \subseteq {"devnet", "mock"}
ASSUME SpendKindsAssumption == Kinds = {"accept", "stage"}
ASSUME SpendNoneAssumption == None \notin Workers /\ {"mock", None} \cap Slots = {}

VARIABLES
    session,        \* what the spend reads and writes of the session
    client,         \* the running respond() call
    signed,         \* payloads the client has signed
    mode            \* X402_MODE

clientVars == <<session, client, signed, mode>>
spendVars == <<vars, clientVars>>

\* mirror is machineSpendAttempt.status ("none": not set); it is retryable
\* exactly when pending.  scores is machineSpend, by the slot it was paid for.
\* ranked: there is a current recommendation.
Session == [version : 1..Len(Versions), ranked : BOOLEAN,
            mirror : {"none", "pending", "manual", "rejected", "settled"},
            scores : Slots \cup {"mock", None}]

NewSession == [version |-> 1, ranked |-> FALSE, mirror |-> "none", scores |-> None]

\* saved: the session as the browser's last token has it.
Client == [step : {"idle", "find", "sign", "stage", "post", "wait"},
           pid : Pids \cup {None}, payload : Payloads \cup {None},
           worker : Workers \cup {None}, saved : Session]

Idle(s) == [step |-> "idle", pid |-> None, payload |-> None, worker |-> None, saved |-> s]

SpendTypeOK ==
    /\ TypeOK
    /\ session \in Session
    /\ client \in Client
    /\ signed \subseteq Payloads
    /\ mode \in Modes

SpendInit ==
    /\ Init
    /\ session = NewSession
    /\ client = Idle(NewSession)
    /\ signed = {}
    /\ mode \in Modes

CurrentSlot == Versions[session.version]

---------------------------------------------------------------------------
(* The message and the decision to spend *)

\* The spend policy of respond: a fit preference, no result yet, and either
\* an attempt to retry or no attempt that counts and two candidates.
ShouldSpend(s, fit, enough) ==
    /\ fit
    /\ s.scores = None
    /\ s.mirror = "pending" \/ (s.mirror \in {"none", "rejected"} /\ enough)

\* The mock resource settles on the spot what its own client signs, and no
\* attempt is mirrored.
MockSpend(s) == [s EXCEPT !.scores = "mock"]

\* A message that reaches the ranking.  One that changes nothing is answered
\* from the current ranking unless an attempt waits for its retry.
RespondMessage(change, complete, fit, enough) ==
    LET s == [session EXCEPT !.ranked = complete,
                             !.version = IF change THEN @ + 1 ELSE @] IN
    /\ client.step = "idle"
    /\ change => session.version < Len(Versions)
    /\ ~change => ~session.ranked \/ session.mirror = "pending"
    /\ \/ /\ ~complete \/ ~ShouldSpend(s, fit, enough)
          /\ session' = s
          /\ client' = Idle(s)
       \/ /\ complete /\ ShouldSpend(s, fit, enough) /\ mode = "devnet"
          /\ session' = s
          /\ client' = [client EXCEPT !.step = "find"]
       \/ /\ complete /\ ShouldSpend(s, fit, enough) /\ mode = "mock"
          /\ session' = MockSpend(s)
          /\ client' = Idle(session')
    /\ UNCHANGED <<vars, signed, mode>>

\* Mutant: the version counter restarts below the first version.
RestartBelow ==
    /\ client.step = "idle"
    /\ session.version > 1 \/ session.ranked
    /\ session' = [session EXCEPT !.version = 0, !.ranked = FALSE]
    /\ client' = Idle(session')
    /\ UNCHANGED <<vars, signed, mode>>

\* "Start over": the dialogue memory is new and its versions count from the
\* beginning again; the order and both spend fields stay.
Restart ==
    /\ client.step = "idle"
    /\ session.version > 1 \/ session.ranked
    /\ session' = [session EXCEPT !.version = 1, !.ranked = FALSE]
    /\ client' = Idle(session')
    /\ UNCHANGED <<vars, signed, mode>>

---------------------------------------------------------------------------
(* runFitScoreSpend, up to the post *)

\* The respond call returns; its session goes into the next token.
Return(s) == session' = s /\ client' = Idle(s)

\* findActiveAttempt of the current version.  A manual row ends the call; a
\* stored payment is posted again; a row without one keeps its identifier.
FindAttempt ==
    LET active == FindActiveAttempt(CurrentSlot) IN
    /\ client.step = "find"
    /\ \/ \E o \in active :
             \/ /\ rows[o].status = "manual"
                /\ Return(session)
             \/ /\ rows[o].status # "manual" /\ rows[o].payload # None
                /\ session' = [session EXCEPT !.mirror = "pending"]
                /\ client' = [client EXCEPT !.step = "post", !.payload = rows[o].payload]
             \/ /\ rows[o].status # "manual" /\ rows[o].payload = None
                /\ client' = [client EXCEPT !.step = "sign", !.pid = rows[o].pid]
                /\ UNCHANGED session
       \/ /\ active = {}
          /\ \E pid \in Pids : /\ \A p \in signed : PidOf[p] # pid
                               /\ client' = [client EXCEPT !.step = "sign", !.pid = pid]
          /\ UNCHANGED session
    /\ UNCHANGED <<vars, signed, mode>>

\* The staging call of payment p on worker w goes on, or has ended: then the
\* attempt is mirrored and can be posted, or the exception leaves the mirror
\* alone.
StageReturns(w, p) ==
    IF pc'[w] # "idle"
    THEN /\ client' = [client EXCEPT !.step = "stage", !.payload = p, !.worker = w]
         /\ UNCHANGED session
    ELSE IF reply'.status = 201
    THEN /\ session' = [session EXCEPT !.mirror = "pending"]
         /\ client' = [client EXCEPT !.step = "post", !.pid = None, !.payload = p, !.worker = None]
    ELSE Return(session)

\* Mutant: the payment is signed and posted without being staged.
SignUnstaged(w) ==
    /\ client.step = "sign"
    /\ pc[w] = "idle"
    /\ \E p \in Payloads \ signed :
          /\ SlotOf[p] = CurrentSlot /\ PidOf[p] = client.pid
          /\ signed' = signed \cup {p}
          /\ session' = [session EXCEPT !.mirror = "pending"]
          /\ client' = [client EXCEPT !.step = "post", !.pid = None, !.payload = p]
    /\ UNCHANGED <<vars, mode>>

\* prepareDevnetMachineSpend: sign a fresh payment and stage it before any
\* submission.  (Its identifier is new or the row's own: no other request has it.)
SignAndStage(w) ==
    /\ client.step = "sign"
    /\ \E p \in Payloads \ signed :
          /\ SlotOf[p] = CurrentSlot /\ PidOf[p] = client.pid
          /\ signed' = signed \cup {p}
          /\ Call(w, "stage", p, None)
          /\ StageReturns(w, p)
    /\ UNCHANGED mode

---------------------------------------------------------------------------
(* runDevnetMachineSpend: the post and its answer *)

\* Mutant: an ambiguous answer that names a transaction counts as success.
OutcomesTrusting(w) ==
    LET o == reply'.op IN
    IF reply'.status = 200 \/ (reply'.status = 202 /\ rows'[o].tx # None) THEN {"settled"}
    ELSE {"rejected"}

\* What the client makes of the answer the worker has just sent.  Only a
\* settlement recorded by this very call carries the PAYMENT-RESPONSE header,
\* without which a 200 is no success; settlement_in_progress is not among the
\* codes that count as unresolved.  A settle call that lost its row reports
\* the outcome it could not write.
Outcomes(w) ==
    LET o == reply'.op IN
    CASE reply'.status = 200 ->
            IF pc[w] \in {"complete", "reconcile"} THEN {"settled"} ELSE {"rejected"}
      [] reply'.status = 202 ->
            IF pc[w] \in {"complete", "failclosed", "reconcile"} THEN {"pending"}
            ELSE IF pc[w] = "settle"
            THEN IF rows' = rows THEN {"pending", "manual"}
                 ELSE {IF rows'[o].status = "manual" THEN "manual" ELSE "pending"}
            ELSE {IF rows[o].status = "manual" THEN "manual" ELSE "rejected"}
      [] reply'.status = 502 -> {"manual"}
      [] OTHER -> {"rejected"}

\* runFitScoreSpend records the outcome in the session and returns.
Mirror(outcome) ==
    Return([session EXCEPT !.mirror = outcome,
                           !.scores = IF outcome = "settled" THEN SlotOf[client.payload] ELSE @])

\* The post to the route, which may answer at once.
Post(w) ==
    /\ client.step = "post"
    /\ Call(w, "accept", client.payload, None)
    /\ IF pc'[w] = "idle" THEN \E outcome \in Outcomes(w) : Mirror(outcome)
       ELSE /\ client' = [client EXCEPT !.step = "wait", !.worker = w]
            /\ UNCHANGED session
    /\ UNCHANGED <<signed, mode>>

\* The route works on; its answer goes to the client that still waits for it.
RouteStep(w) ==
    /\ WorkerStep(w)
    /\ IF client.worker # w THEN UNCHANGED <<session, client>>
       ELSE IF client.step = "stage" THEN StageReturns(w, client.payload)
       ELSE IF pc'[w] = "idle" THEN \E outcome \in Outcomes(w) : Mirror(outcome)
       ELSE UNCHANGED <<session, client>>
    /\ UNCHANGED <<signed, mode>>

\* The route's instance dies, or an exception makes it answer 500.  A staging
\* call runs in the client's own process and throws into it.
RouteFails(w) ==
    /\ Crash(w)
    /\ \/ client.worker # w /\ UNCHANGED <<session, client>>
       \/ client.worker = w /\ client.step = "stage" /\ Return(session)
       \/ client.worker = w /\ client.step = "wait" /\ Mirror("manual")
       \/ client.worker = w /\ client.step = "wait" /\ Mirror("rejected")
    /\ UNCHANGED <<signed, mode>>

\* The connection breaks while the route works on.
TransportFails ==
    /\ client.step = "wait"
    /\ Mirror("manual")
    /\ UNCHANGED <<vars, signed, mode>>

\* The instance that runs respond dies; the browser comes back with the token
\* it had.  A staging call dies with it, a posted one does not.
ClientDies ==
    /\ client.step # "idle"
    /\ Return(client.saved)
    /\ IF client.step = "stage" THEN Crash(client.worker) ELSE UNCHANGED vars
    /\ UNCHANGED <<signed, mode>>

---------------------------------------------------------------------------

SpendNext ==
    \/ \E change, complete, fit, enough \in BOOLEAN : RespondMessage(change, complete, fit, enough)
    \/ Restart
    \/ FindAttempt
    \/ \E w \in Workers : SignAndStage(w) \/ Post(w) \/ RouteStep(w) \/ RouteFails(w)
    \/ TransportFails
    \/ ClientDies
    \/ \E p \in Payloads : Land(p) /\ UNCHANGED clientVars
    \/ \E o \in Ops : LapseLease(o) /\ UNCHANGED clientVars

SpendSpec == SpendInit /\ [][SpendNext]_spendVars

---------------------------------------------------------------------------
(* Properties *)

\* A session shows paid fit scores only for a version whose attempt is settled
\* in the table on a transfer that is on chain: no ambiguous, replayed or lost
\* answer of the route is taken for success.
ScoresArePaid ==
    session.scores \in Slots =>
        \E o \in Ops : /\ SlotOfOp(o) = session.scores
                       /\ rows[o].status = "settled"
                       /\ rows[o].tx \in landed

\* Every payment posted is the one retained in the table: while the client
\* holds a payment to post or waits for its answer, every attempt of that
\* version still under way is bound to this payment, so that whatever dies,
\* the retry finds the payment that may have been sent and no other.
PostedIsRetained ==
    client.step \in {"post", "wait"} =>
        \A o \in FindActiveAttempt(SlotOf[client.payload]) : rows[o].payload = client.payload

\* An attempt given up although its own payment may have been made: no payer
\* was named to compare the transfer with, or another hash was reported for it.
Misjudged(o) ==
    rows[o].status = "mismatch" /\ (~rows[o].payer \/ rows[o].tx # rows[o].payload)

\* A serial client that stages before it posts is charged once for each intent
\* version, over retries, restarts, lost answers and calls of the route that
\* go on behind its back, unless one of the two attempts has been misjudged.
\* (Independent callers of the route do not have this: ChargedOnce of
\* X402Accept.)
ClientChargedOnce ==
    \A p, q \in landed \cap Conforming :
        SlotOf[p] = SlotOf[q] /\ p # q =>
            \E o \in Ops : rows[o].payload \in {p, q} /\ Misjudged(o)
=============================================================================
