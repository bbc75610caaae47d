---------------------------- MODULE GenerationRow ----------------------------
(***************************************************************************)
(* The durable `runs` row of one platform message: one generation_key, one *)
(* response_id, one primary HTTP result and at most one recovery dispatch. *)
(* Every operator below that primes `row` is one SQL transaction of the    *)
(* repository; the HTTP handlers (V3Generation), the recovery worker and   *)
(* the delivery callback (V3Recovery) share the row through them.          *)
(*                                                                         *)
(* The lease token is "generation_lease:<request uuid>", so the call that  *)
(* minted it stands for it.  Every token is minted with one deadline, so   *)
(* comparing the token also compares the deadline.  `due` is               *)
(* recovery_next_at <= now, the only thing the code asks of the deadline.  *)
(***************************************************************************)
EXTENDS Naturals

CONSTANTS
    Calls,        \* HTTP calls that carry this platform message
    None,         \* "" / NULL / not there
    MaxAttempts   \* V3_REPLY_RECOVERY_MAX_ATTEMPTS

ASSUME NoneIsFresh == None \notin Calls /\ None \notin [by : Calls, kind : {"reply", "fallback", "empty"}]
ASSUME MaxAttemptsPositive == MaxAttempts \in Nat \ {0}

VARIABLE row

Kinds == {"reply", "fallback", "empty"}

\* A customer-facing result and the call whose handler produced it.
Payloads == [by : Calls, kind : Kinds]

Statuses == {"absent", "generating", "completed", "fallback_pending",
             "recovery_claimed", "recovered", "recovery_failed",
             "manual_review"}

Rows ==
    [status   : Statuses,
     owner    : Calls \cup {None},     \* recovery_kind while it is a lease
     due      : BOOLEAN,               \* recovery_next_at has passed
     snap     : Payloads \cup {None},  \* v3_response_snapshot
     dispatch : BOOLEAN,               \* recovery_dispatch_id is recorded
     attempts : 0 .. MaxAttempts]      \* recovery_attempts

NoRow == [status |-> "absent", owner |-> None, due |-> FALSE, snap |-> None,
          dispatch |-> FALSE, attempts |-> 0]

----------------------------------------------------------------------------
(* Reads *)

\* _generation_result: a saved primary result that is not still generating.
\* Every kind of payload is replayable: a message, or an empty reply whose
\* source is one of _EMPTY_REPLY_SOURCES.
Ready == row.snap # None /\ row.status # "generating"

\* _explicit_generation_lease_expired
LeaseExpired == row.status = "generating" /\ row.owner # None /\ row.due

\* Mutant of Owns: the save matches the run by its request id alone.
OwnsByRequest(c) == row.status # "absent"

\* _generation_owner_loss, negated: the row is this call's to finish.
Owns(c) == row.status = "generating" /\ ~row.dispatch /\ row.owner = c

----------------------------------------------------------------------------
(* Transactions of the synchronous path *)

\* _prepare_v3_request_in_connection, no row yet: reserve it under a lease.
Reserve(c) ==
    /\ row.status = "absent"
    /\ row' = [NoRow EXCEPT !.status = "generating", !.owner = c]

\* The CAS of _claim_expired_generation_for_http_retry.  The deadline is
\* tested on the row read before (`old`); the UPDATE itself compares only
\* status, dispatch, token and deadline text.
CanReclaim(old) ==
    row.status = "generating" /\ ~row.dispatch /\ row.owner = old

Reclaim(c) == row' = [row EXCEPT !.owner = c, !.due = FALSE]

\* Mutant of SavedStatus: the kind lands in the status column.
SavedStatusAsKind(kind, recoverable) == IF recoverable THEN kind ELSE "completed"

\* save_v3_reply_core and save_v3_terminal_no_reply after the owner check:
\* status, response snapshot and finalization job in one transaction.
SavedStatus(kind, recoverable) ==
    IF kind = "fallback" /\ recoverable THEN "fallback_pending" ELSE "completed"

SavePrimary(p, recoverable) ==
    row' = [row EXCEPT !.status = SavedStatus(p.kind, recoverable),
                       !.owner = None, !.due = FALSE, !.snap = p]

\* recover_stale_v3_generations on this row.
ReapStale ==
    /\ row.status = "generating"
    /\ row.due
    /\ row' = [row EXCEPT
                 !.status = IF row.snap # None THEN "completed"
                            ELSE IF row.dispatch THEN "manual_review"
                            ELSE "fallback_pending",
                 !.owner = None,
                 !.due = row.snap = None /\ ~row.dispatch]

\* The clock passes recovery_next_at.
DeadlinePasses ==
    /\ row.status \in {"generating", "fallback_pending", "recovery_claimed"}
    /\ ~row.due
    /\ row' = [row EXCEPT !.due = TRUE]
=============================================================================
