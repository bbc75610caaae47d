----------------------------- MODULE RunDocument -----------------------------
(***************************************************************************)
(* runs.output_snapshot: one JSON text that five writers share.  The reply *)
(* transaction creates the answer and a finalization job in it; the HTTP   *)
(* timing middleware, the finalization worker, the recovery worker and the *)
(* delivery callback each read the text, change their keys in memory and   *)
(* write the whole text back.                                              *)
(*                                                                         *)
(* save_v3_reply_core, save_v3_terminal_no_reply and save_run lock the row *)
(* first, and the transactions that clear the recovery request update it   *)
(* first: they are one step.  The others are a read step and a write step, *)
(* as MySQL runs a SELECT without FOR UPDATE and a later UPDATE by id.     *)
(***************************************************************************)
EXTENDS RecoveryRow

CONSTANTS
    Finalizers,       \* finalization workers; the deployment runs one
    FailAfter,        \* attempts after which a job is failed (6)
    MaxFaults         \* bound: crashes and failed transactions

ASSUME FailAfterPositive == FailAfter \in Nat \ {0}
ASSUME FaultBound == MaxFaults \in Nat

RecoveryWriters == {"worker", "handler"}
Writers == Calls \cup Finalizers \cup RecoveryWriters

ASSUME WritersDiffer ==
    Calls \cap Finalizers = {} /\ (Calls \cup Finalizers) \cap RecoveryWriters = {}

VARIABLES
    enabled,    \* V3_REPLY_RECOVERY_ENABLED: a setting, it never changes
    doc,        \* the document
    pc, copy,   \* where each writer is, and the text it read
    fresh,      \* the finalizers whose text is still the stored one
    responded,  \* calls whose HTTP response has left
    outcome,    \* of the recovery dispatch: "none" until it is sent
    reported,   \* the callback has settled its source
    faults

recovery == <<outcome, reported>>
vars == <<enabled, row, doc, pc, copy, fresh, responded, recovery, faults>>

OpenJob == {"pending", "processing", "error"}
Receipts == {"send_succeeded", "send_failed"}

Docs ==
    [ingress  : Calls,                         \* http_request_ingress_id
     answer   : BOOLEAN,                       \* v3_response_snapshot
     request  : BOOLEAN,                       \* v3_recovery_payload
     job      : OpenJob \cup {"none", "completed", "failed"},
     tries    : 0 .. FailAfter,                \* post_reply_finalization.attempts
     ripe     : BOOLEAN,                       \* next_retry_at or the stale limit passed
     payload  : BOOLEAN]                       \* post_reply_payload

ASSUME NoneIsNoDoc == None \notin Docs

\* _prepare_v3_request_in_connection: the request is kept for a recovery.
NewDoc(c) == [ingress |-> c, answer |-> FALSE, request |-> TRUE, job |-> "none",
              tries |-> 0, ripe |-> FALSE, payload |-> FALSE]

TypeOK ==
    /\ enabled \in BOOLEAN
    /\ row \in Rows
    /\ doc \in Docs
    /\ pc \in [Writers -> Finalizable \cup {"idle", "read", "claiming", "work", "finish",
                                           "error", "finishing", "failing"}]
    /\ copy \in [Writers -> Docs \cup {None}]
    /\ fresh \subseteq Finalizers
    /\ responded \subseteq Calls
    /\ outcome \in Receipts \cup {"none"}
    /\ reported \in BOOLEAN
    /\ faults \in 0 .. MaxFaults

Init ==
    /\ enabled \in BOOLEAN
    /\ \E c \in Calls :
          /\ row = [NoRow EXCEPT !.status = "generating", !.owner = c]
          /\ doc = NewDoc(c)
    /\ pc = [x \in Writers |-> "idle"]
    /\ copy = [x \in Writers |-> None]
    /\ fresh = {}
    /\ responded = {}
    /\ outcome = "none" /\ reported = FALSE
    /\ faults = 0

----------------------------------------------------------------------------
(* Reads and writes of the document *)

Read(x, where) ==
    /\ pc' = [pc EXCEPT ![x] = where]
    /\ copy' = [copy EXCEPT ![x] = doc]
    /\ fresh' = fresh \cup ({x} \cap Finalizers)
    /\ UNCHANGED doc

Move(x, where) ==
    /\ pc' = [pc EXCEPT ![x] = where]
    /\ copy' = [copy EXCEPT ![x] = None]

Store(d) == doc' = d /\ fresh' = {}

NoStore == UNCHANGED <<doc, fresh>>

----------------------------------------------------------------------------
(* The reply process *)

\* The save of the owner: answer, job and payload in one transaction.  The
\* terminal save writes a new document, with the ingress of its own call.
Save(c) ==
    /\ c \notin responded
    /\ Owns(c)
    /\ \E kind \in Kinds, ingress \in {doc.ingress, c} :
          /\ SavePrimary([by |-> c, kind |-> kind], enabled)
          /\ Store([NewDoc(ingress) EXCEPT
                      !.answer = TRUE, !.job = "pending", !.ripe = TRUE, !.payload = TRUE,
                      !.request = doc.request /\ SavedStatus(kind, enabled) = "fallback_pending"])
    /\ UNCHANGED <<pc, copy, responded, recovery, faults>>

\* A retry takes the dead lease over, or the reaper gives the run to recovery.
TakeOver ==
    /\ \/ (\E c \in Calls \ responded : LeaseExpired /\ row.owner # c /\ Reclaim(c))
       \/ enabled /\ ReapStale
    /\ UNCHANGED <<doc, pc, copy, fresh, responded, recovery, faults>>

\* finalize_run_http_timing, started in the background when the response of a
\* call has left, whatever that response was: an answer, or the empty one of a
\* call that lost the run or could not save.
TimingRead(c) ==
    /\ c \notin responded
    /\ responded' = responded \cup {c}
    /\ IF doc.ingress = c THEN Read(c, "read")
                          ELSE UNCHANGED <<doc, pc, copy, fresh>>
    /\ UNCHANGED <<row, recovery, faults>>

\* Mutant of TimingWrite: the document is rebuilt from the timing keys.
TimingRebuilds(c) ==
    /\ pc[c] = "read"
    /\ Store([NewDoc(c) EXCEPT !.request = FALSE])
    /\ Move(c, "idle")
    /\ UNCHANGED <<row, responded, recovery, faults>>

TimingWrite(c) ==
    /\ pc[c] = "read"
    /\ Store(copy[c])
    /\ Move(c, "idle")
    /\ UNCHANGED <<row, responded, recovery, faults>>

----------------------------------------------------------------------------
(* The finalization worker *)

\* claim_v3_reply_finalizations: the SELECT ...
ClaimRead(f) ==
    /\ pc[f] = "idle"
    /\ doc.job \in OpenJob /\ doc.ripe /\ doc.payload
    /\ Read(f, "claiming")
    /\ UNCHANGED <<row, responded, recovery, faults>>

\* ... and the UPDATE, which compares the whole text with the one it read.
ClaimWrite(f) ==
    /\ pc[f] = "claiming"
    /\ \/ /\ f \in fresh
          /\ Store([doc EXCEPT !.job = "processing", !.ripe = FALSE])
          /\ Move(f, "work")
       \/ f \notin fresh /\ NoStore /\ Move(f, "idle")
    /\ UNCHANGED <<row, responded, recovery, faults>>

\* Mutant of SaveRun: the request is not among the keys taken over.
SaveRunReplacing(f) ==
    /\ pc[f] = "work"
    /\ Store([doc EXCEPT !.request = FALSE])
    /\ Move(f, "finish")
    /\ UNCHANGED <<row, responded, recovery, faults>>

\* process_batch on one job: its effects, then save_run, which writes the graph
\* snapshot and takes the keys of the other writers from the locked row.
SaveRun(f) ==
    /\ pc[f] = "work"
    /\ Store(doc)
    /\ Move(f, "finish")
    /\ UNCHANGED <<row, responded, recovery, faults>>

\* Something raises, before or after save_run.
WorkRaises(f) ==
    /\ pc[f] \in {"work", "finish"}
    /\ Move(f, "error")
    /\ NoStore
    /\ UNCHANGED <<row, responded, recovery, faults>>

\* finish_v3_reply_finalizations
FinishRead(f) ==
    /\ pc[f] \in {"finish", "error"}
    /\ Read(f, IF pc[f] = "finish" THEN "finishing" ELSE "failing")
    /\ UNCHANGED <<row, responded, recovery, faults>>

Completed(d) == [d EXCEPT !.job = "completed", !.payload = FALSE, !.ripe = FALSE]

\* One more attempt; the code only asks whether FailAfter is reached.
Tried(d) == IF d.tries = FailAfter THEN FailAfter ELSE d.tries + 1

\* Mutant of Failed: no attempt is counted.
FailedUncounted(d) == [d EXCEPT !.job = "error", !.ripe = FALSE]

\* Mutant of Failed: the budget is tested before the attempt is counted.
FailedLate(d) ==
    [d EXCEPT !.tries = @ + 1, !.ripe = FALSE,
              !.job = IF d.tries >= FailAfter THEN "failed" ELSE "error"]

Failed(d) ==
    [d EXCEPT !.tries = Tried(d), !.ripe = FALSE,
              !.job = IF Tried(d) = FailAfter THEN "failed" ELSE "error"]

FinishWrite(f) ==
    /\ pc[f] \in {"finishing", "failing"}
    /\ Store(IF pc[f] = "finishing" THEN Completed(copy[f]) ELSE Failed(copy[f]))
    /\ Move(f, "idle")
    /\ UNCHANGED <<row, responded, recovery, faults>>

FinalizerStep(f) ==
    \/ ClaimRead(f) \/ ClaimWrite(f)
    \/ SaveRun(f) \/ WorkRaises(f)
    \/ FinishRead(f) \/ FinishWrite(f)

\* The backoff of an error ends; a claim becomes stale after five minutes.
Ripen ==
    /\ doc.job \in OpenJob /\ ~doc.ripe
    /\ doc' = [doc EXCEPT !.ripe = TRUE]
    /\ UNCHANGED <<row, pc, copy, fresh, responded, recovery, faults>>

----------------------------------------------------------------------------
(* The recovery worker and the delivery callback *)

\* _clear_recovery_payload, in the transaction that gives the recovery up.
ClearOnLeave ==
    IF row.status # row'.status /\ row'.status \in {"manual_review", "recovery_failed"}
    THEN Store([doc EXCEPT !.request = FALSE])
    ELSE NoStore

\* claim, escalate, retry, cancel, manual review.  A message that may have been
\* sent is not cancelled, and a staged one only waits (StagedIsReconciled).
RecoverySide ==
    /\ enabled
    /\ pc["worker"] = "idle"
    /\ \/ Escalate
       \/ ~MustEscalate /\ Claim
       \/ Claimed /\ ~row.dispatch /\ (Retry \/ ManualReview \/ (outcome = "none" /\ Cancel))
    /\ ClearOnLeave
    /\ UNCHANGED <<pc, copy, responded, recovery, faults>>

\* The recovery is sent; the platform knows what becomes of it.
Send ==
    /\ pc["worker"] = "idle"
    /\ Claimed /\ outcome = "none"
    /\ outcome' \in Receipts
    /\ UNCHANGED <<row, doc, pc, copy, fresh, responded, reported, faults>>

\* stage_v3_fallback_recovery_delivery
StageRead ==
    /\ pc["worker"] = "idle"
    /\ Open /\ ~row.dispatch /\ outcome # "none"
    /\ Read("worker", "read")
    /\ UNCHANGED <<row, responded, recovery, faults>>

StageWrite ==
    /\ pc["worker"] = "read"
    /\ Stage
    /\ IF Open THEN Store(copy["worker"]) ELSE NoStore
    /\ Move("worker", "idle")
    /\ UNCHANGED <<responded, recovery, faults>>

\* finalize_v3_recovery_delivery: by the callback, or by the worker that claimed
\* the run and finds its dispatch settled.
SettleRead(x) ==
    /\ pc[x] = "idle"
    /\ outcome # "none"
    /\ IF x = "worker" THEN Claimed /\ ~row.dispatch ELSE row.status \in Finalizable /\ ~reported
    /\ Read(x, row.status)
    /\ UNCHANGED <<row, responded, recovery, faults>>

\* The CAS is on the status alone; one that is lost writes nothing.
SettleWrite(x) ==
    /\ pc[x] \in Finalizable
    /\ \/ /\ Settle(pc[x], outcome)
          /\ Store([copy[x] EXCEPT !.request = FALSE])
       \/ row.status # pc[x] /\ UNCHANGED row /\ NoStore
    /\ Move(x, "idle")
    /\ reported' = (reported \/ x = "handler")
    /\ UNCHANGED <<responded, outcome, faults>>

----------------------------------------------------------------------------
Expire ==
    /\ DeadlinePasses
    /\ UNCHANGED <<doc, pc, copy, fresh, responded, recovery, faults>>

\* A process dies, or a transaction of a writer is rolled back.
Crash(x) ==
    /\ faults < MaxFaults /\ faults' = faults + 1
    /\ pc[x] # "idle"
    /\ Move(x, "idle")
    /\ NoStore
    /\ UNCHANGED <<row, responded, recovery>>

Step ==
    \/ \E c \in Calls : Save(c) \/ TimingRead(c) \/ TimingWrite(c)
    \/ TakeOver \/ Expire \/ Ripen
    \/ \E f \in Finalizers : FinalizerStep(f)
    \/ RecoverySide \/ Send \/ StageRead \/ StageWrite
    \/ \E x \in RecoveryWriters : SettleRead(x) \/ SettleWrite(x)
    \/ \E x \in Writers : Crash(x)

Next == Step /\ UNCHANGED enabled

Spec == Init /\ [][Next]_vars

\* The finalization loop is scheduled and time passes.
FairSpec == Spec /\ (\A f \in Finalizers : WF_vars(FinalizerStep(f) /\ UNCHANGED enabled))
                 /\ WF_vars(Ripen /\ UNCHANGED enabled)

----------------------------------------------------------------------------
(* Properties *)

(* "Measure the complete V3 HTTP lifecycle without affecting reply          *)
(* semantics" (V3RequestTimingMiddleware): an answer that was saved stays   *)
(* in the document, where every later retry looks for it.                   *)
AnswerIsKept == row.snap # None => doc.answer

(* As long as the recovery may generate, it finds the customer's request.   *)
RecoveryRequestIsKept ==
    Open /\ ~row.dispatch => doc.request

(* Every saved reply is finalized, or marked failed after its attempts, and *)
(* in the end it stays so, whatever the timing writes put back meanwhile    *)
(* (the writes of the recovery may take the payload of an open job).        *)
FinalizationSettles == <>[](~enabled /\ row.snap # None => doc.job \in {"completed", "failed"})
=============================================================================
