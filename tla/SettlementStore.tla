-------------------------- MODULE SettlementStore --------------------------
(***************************************************************************)
(* The table x402_settlement_attempts and the SQL statements that          *)
(* PostgresSettlementStore runs against it, with the constraints and the   *)
(* role trigger of migrations 001, 002, 004 and 005.  A statement is an    *)
(* operator on the table; the processes that run the statements are in     *)
(* X402Accept.                                                             *)
(*                                                                         *)
(* A slot is an (order, intent version) pair.  The request digest is       *)
(* computed by the server from the slot and from configuration, so slot    *)
(* and digest determine each other.  A payload is one exact PAYMENT-       *)
(* SIGNATURE header: its digest, its payment id, its signed transaction    *)
(* and that transaction's hash are all functions of it, and the model uses *)
(* the payload itself for each of them.  Owner and fence are minted        *)
(* together by every claim, so the fence stands for both.                  *)
(***************************************************************************)
EXTENDS Naturals

CONSTANTS
    Slots,          \* (logicalOrderId, intentVersion) pairs
    Pids,           \* caller payment identifiers
    Payloads,       \* signed payment headers
    SlotOf,         \* the slot whose requirements a payload was signed for
    PidOf,          \* the payment identifier inside a payload
    Approvals,      \* approval event ids (appr_...)
    Mints,          \* server-minted spend authorisation revisions (bound)
    Fences,         \* fence tokens (bound; a token in use is never reissued)
    RoleGuarded,    \* TRUE: the connection is x402_app / x402_operator
    None            \* SQL NULL

ASSUME SlotAssumption == SlotOf \in [Payloads -> Slots]
ASSUME PidAssumption == PidOf \in [Payloads -> Pids]
ASSUME RoleAssumption == RoleGuarded \in BOOLEAN
VARIABLES
    rows,           \* the table, indexed by operation id
    lastReleased    \* per slot, the released row with the greatest updated_at

\* buildOperationId hashes (order, intent, digest, resource, revision).
Ops == Slots \X (Approvals \cup Mints)
SlotOfOp(o) == o[1]
AuthOf(o) == o[2]

ASSUME NoneAssumption ==
    /\ None \notin Payloads
    /\ None \notin Pids
    /\ None \notin Approvals
    /\ None \notin Fences
    /\ None \notin Ops
    /\ Approvals \cap Mints = {}

AttemptStatus == {"pending", "rejected", "settling", "awaiting_evidence",
                  "settled", "mismatch", "manual", "released"}
TerminalResolved == {"settled", "rejected", "mismatch", "released"}
InFlight == {"settling", "awaiting_evidence"}

ASSUME StatusAssumption == None \notin AttemptStatus

\* payer and blockhash record whether the column is filled.
Row == [status      : AttemptStatus \cup {"absent"},
        pid         : Pids \cup {None},
        payload     : Payloads \cup {None},
        payer       : BOOLEAN,
        blockhash   : BOOLEAN,
        tx          : Payloads \cup {None},
        lease       : {"none", "live", "lapsed"},
        fence       : Fences \cup {None},
        releasedTo  : Approvals \cup {None}]

AbsentRow == [status |-> "absent", pid |-> None, payload |-> None,
              payer |-> FALSE, blockhash |-> FALSE, tx |-> None,
              lease |-> "none", fence |-> None,
              releasedTo |-> None]

Present(o) == rows[o].status # "absent"
Active(o) == Present(o) /\ rows[o].status \notin TerminalResolved

---------------------------------------------------------------------------
(* Reads *)

FindByPaymentId(pid) == {o \in Ops : Present(o) /\ rows[o].pid = pid}
FindByDigestPayment(s, pid) == {o \in FindByPaymentId(pid) : SlotOfOp(o) = s}
FindActiveAttempt(s) == {o \in Ops : Active(o) /\ SlotOfOp(o) = s}
FindSettledAttempt(s) == {o \in Ops : rows[o].status = "settled" /\ SlotOfOp(o) = s}
\* A row opened under an approval binds it; a minted revision binds nothing.
ApprovalMismatch(o, approval) == AuthOf(o) \in Approvals /\ approval # AuthOf(o)

\* The fast path of resolveOrCreate: the first non-empty of these reads.
ResolveCandidates(s, pid) ==
    IF FindByDigestPayment(s, pid) # {} THEN FindByDigestPayment(s, pid)
    ELSE IF {o \in FindByPaymentId(pid) : Active(o)} # {}
    THEN {o \in FindByPaymentId(pid) : Active(o)}
    ELSE IF FindActiveAttempt(s) # {} THEN FindActiveAttempt(s)
    ELSE FindSettledAttempt(s)

\* After a release only the approval it cites may open the next attempt.
ReleaseRequired(s, approval) ==
    /\ lastReleased[s] # None
    /\ approval # rows[lastReleased[s]].releasedTo

\* The revision a new attempt is opened under.
NewAuth(s, approval) ==
    IF approval # None THEN {approval}
    ELSE {m \in Mints : ~Present(<<s, m>>)}

\* Mutant: the index on the open attempt of a request is missing.
InsertConflictByKey(o, pid) == Present(o) \/ FindByPaymentId(pid) # {}

\* Primary key, ux_payment_id_once and ux_active_order_intent.
InsertConflict(o, pid) ==
    Present(o) \/ FindByPaymentId(pid) # {} \/ FindActiveAttempt(SlotOfOp(o)) # {}

\* The winner re-read after a unique violation, in the order of the code.
ConflictWinner(o, pid) ==
    IF Present(o) THEN {o}
    ELSE IF FindByPaymentId(pid) # {} THEN FindByPaymentId(pid)
    ELSE FindActiveAttempt(SlotOfOp(o))

---------------------------------------------------------------------------
(* Writes *)

NewRow(pid) == [AbsentRow EXCEPT !.status = "pending", !.pid = pid]

\* Mutant: the claim writes a status the enum does not have.
ClaimedRowUnknownStatus(r, fence, payload) ==
    [r EXCEPT !.status = "claimed", !.lease = "live", !.fence = fence,
              !.payload = IF r.payload = None THEN payload ELSE r.payload]

\* claimForSettle: the first claimer stamps its payload, a stamped one stays.
ClaimedRow(r, fence, payload) ==
    [r EXCEPT !.status = "settling", !.lease = "live", !.fence = fence,
              !.payload = IF r.payload = None THEN payload ELSE r.payload]

CanClaim(o) == rows[o].status = "pending"

\* claimRowForTakeover: a fresh fence under the same status.
TakenRow(r, fence) == [r EXCEPT !.lease = "live", !.fence = fence]

\* Mutants: the takeover looks at the lease only; only a NULL lease is taken.
CanTakeOverAnyStatus(o) == rows[o].lease # "live"
CanTakeOverNullLease(o) == rows[o].status \in InFlight /\ rows[o].lease = "none"

CanTakeOver(o) == rows[o].status \in InFlight /\ rows[o].lease # "live"

\* The WHERE clause of a lease-bound transition and of revalidateForSettle.
HoldsLease(o, from, fence) ==
    /\ rows[o].status \in from
    /\ rows[o].fence = fence
    /\ rows[o].lease = "live"

\* Mutant: the trigger is missing.
RoleAllowsAll(old, new) == TRUE

\* x402_enforce_role_state for an update that keeps the lease (every
\* transition): which new rows the two application roles may write.
RoleAllows(old, new) ==
    \/ ~RoleGuarded
    \/ /\ new.pid = old.pid
       /\ \/ old.status = "pending" /\ new.status = "pending"
          \/ /\ old.status \in InFlight
             /\ new.status \in InFlight \cup {"settled", "mismatch", "manual"}
             /\ new.status \in {"settled", "awaiting_evidence"} => new.tx # None

\* ux_settled_request_once.
SettledTwice(o, new) ==
    new.status = "settled" /\ \E q \in FindSettledAttempt(SlotOfOp(o)) : q # o

\* What transition() does: no row matched, an exception, or the update.
TransitionResult(o, from, fence, new) ==
    IF ~HoldsLease(o, from, fence) THEN "null"
    ELSE IF ~RoleAllows(rows[o], new) \/ SettledTwice(o, new) THEN "raise"
    ELSE "ok"

\* The lease and the fence of a row that is not in flight are never compared
\* again, and the model does not keep them.
Kept(new) ==
    IF new.status \in InFlight THEN new
    ELSE [new EXCEPT !.lease = "none", !.fence = None]

AfterTransition(o, from, fence, new) ==
    IF TransitionResult(o, from, fence, new) = "ok"
    THEN [rows EXCEPT ![o] = Kept(new)] ELSE rows

\* prepare-stage: the one transition that needs no lease.
StagedRow(r, pid, payload) == [r EXCEPT !.pid = pid, !.payload = payload]

\* releaseAttempt, run by the operator role only.
ReleasedRow(r, approval) == [r EXCEPT !.status = "released", !.releasedTo = approval]

StoreTypeOK ==
    /\ rows \in [Ops -> Row]
    /\ lastReleased \in [Slots -> Ops \cup {None}]

StoreInit ==
    /\ rows = [o \in Ops |-> AbsentRow]
    /\ lastReleased = [s \in Slots |-> None]
===========================================================================
