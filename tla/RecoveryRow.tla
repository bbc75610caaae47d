----------------------------- MODULE RecoveryRow -----------------------------
(***************************************************************************)
(* The transactions of the recovery repository on the run row: what the    *)
(* recovery worker and the delivery callback may do to it after the        *)
(* synchronous path gave the message up.                                   *)
(***************************************************************************)
EXTENDS GenerationRow

Claimed == row.status = "recovery_claimed"

\* Where retry, cancel, stage and escalation may still move the run.
Open == row.status \in {"fallback_pending", "recovery_claimed"}

----------------------------------------------------------------------------
(* claim_v3_fallback_recoveries, one transaction: expired claims that may    *)
(* not run again are escalated, then due rows without a dispatch are claimed.*)

Exhausted == row.attempts >= MaxAttempts

\* Mutant of MustEscalate: an expired claim is escalated only when exhausted.
MustEscalateExhausted == Claimed /\ row.due /\ Exhausted

MustEscalate == Claimed /\ row.due /\ (row.dispatch \/ Exhausted)

\* Mutant of Claimable: the attempt budget is off by one.
ClaimableOnceMore == Open /\ row.due /\ ~row.dispatch /\ row.attempts <= MaxAttempts

Claimable == Open /\ row.due /\ ~row.dispatch /\ ~Exhausted

ToReview == row' = [row EXCEPT !.status = "manual_review", !.due = FALSE]

Escalate == MustEscalate /\ ToReview

Claim ==
    /\ Claimable
    /\ row' = [row EXCEPT !.status = "recovery_claimed", !.attempts = @ + 1, !.due = FALSE]

----------------------------------------------------------------------------
(* The outcomes of one claim; each does nothing to a row that moved on *)

\* retry_v3_fallback_recovery: it asks for a claimed row, not for this claim.
Retry ==
    \/ /\ Claimed
       /\ IF Exhausted THEN ToReview
          ELSE row' = [row EXCEPT !.status = "fallback_pending", !.due = FALSE]
    \/ ~Claimed /\ UNCHANGED row

\* cancel_v3_fallback_recovery
Cancel ==
    \/ Open /\ row' = [row EXCEPT !.status = "recovery_failed", !.due = FALSE]
    \/ ~Open /\ UNCHANGED row

\* mark_v3_recovery_manual_review
ManualReview == (Open /\ ToReview) \/ (~Open /\ UNCHANGED row)

\* stage_v3_fallback_recovery_delivery: the dispatch is recorded and the claim
\* keeps its deadline; the HTTP snapshot is not touched.
Stage ==
    \/ Open /\ row' = [row EXCEPT !.status = "recovery_claimed", !.dispatch = TRUE]
    \/ ~Open /\ UNCHANGED row

----------------------------------------------------------------------------
(* finalize_v3_recovery_delivery: reads the row, then a CAS on the status it *)
(* read.  A failure never moves a run that is already in manual_review.      *)

Finalizable == {"fallback_pending", "recovery_claimed", "recovered", "manual_review"}

\* Mutant of Settled: any terminal receipt completes the recovery.
SettledAlways(receipt) == "recovered"

\* Mutant of Settled: a failed delivery is put back for another attempt.
SettledRetriesFailure(receipt) ==
    IF receipt = "send_succeeded" THEN "recovered" ELSE "fallback_pending"

Settled(receipt) == IF receipt = "send_succeeded" THEN "recovered" ELSE "manual_review"

\* The CAS succeeded.
Settle(read, receipt) ==
    /\ row.status = read
    /\ row' = [row EXCEPT !.status = Settled(receipt), !.due = FALSE, !.dispatch = TRUE]

\* It failed, and the row is found where this receipt would have put it.
AlreadySettled(read, receipt) ==
    row.status # read /\ row.status = Settled(receipt) /\ row.dispatch
=============================================================================
