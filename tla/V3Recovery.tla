----------------------------- MODULE V3Recovery -----------------------------
(***************************************************************************)
(* The asynchronous recovery of one message whose synchronous reply gave   *)
(* up.  Workers of the worker process claim the run, check its gates,      *)
(* generate an answer and send it through one idempotent dispatch; the     *)
(* control process applies the platform's delivery callbacks.  They share  *)
(* the run row and the dispatch row, one transaction at a time.            *)
(*                                                                         *)
(* The reply process appears as two environment actions on the run row:    *)
(* V3Generation models it in full.                                         *)
(***************************************************************************)
EXTENDS RecoveryRow, DispatchRow

CONSTANTS
    Workers,    \* recovery workers
    MaxMail,    \* bound: callbacks in flight
    MaxFaults   \* bound: crashes, failed transactions and lost responses

\* supervisor.py starts one: the rows do not tell a claim from a later one.
ASSUME OneWorker == \A v, w \in Workers : v = w
ASSUME MailBound == MaxMail \in Nat
ASSUME FaultBound == MaxFaults \in Nat

VARIABLES
    \* The iteration of worker w:
    pc,       \* where it is
    reply,    \* the messages it generated
    verdict,  \* the dispatch status it is about to record or to settle
    saw,      \* the status its last SELECT returned
    \* The callback handler of the control process, one request at a time:
    hpc, event, receipt, read,
    \* The outside world:
    posts,    \* sends the platform accepted
    outcome,  \* what becomes of each message, once the platform has them
    mail,     \* callbacks the platform will deliver until they are answered
    blocked,  \* the customer wrote again, opted out, paid, ...
    faults

workerVars == <<pc, reply, verdict, saw>>
handlerVars == <<hpc, event, receipt, read>>
world == <<posts, outcome, mail, blocked>>
vars == <<row, dispatch, applied, workerVars, handlerVars, world, faults>>

WorkerPcs == {"idle", "claim", "lookup1", "gate1", "generate", "gate2", "lookup2",
              "send", "record", "recording", "post", "settle", "settling",
              "retry", "cancel", "manual", "stage"}

HandlerPcs == {"idle", "reload", "find", "settling", "mark"}

NoEvent == [status |-> "none", items |-> <<>>]

NoOutcome == [m \in Messages |-> "created"]

TypeOK ==
    /\ row \in Rows
    /\ dispatch \in Dispatches
    /\ applied \subseteq Events
    /\ pc \in [Workers -> WorkerPcs]
    /\ reply \in [Workers -> Replies \cup {NoReply}]
    /\ verdict \in [Workers -> DispatchStatuses]
    /\ saw \in [Workers -> DispatchStatuses \cup Statuses]
    /\ hpc \in HandlerPcs
    /\ event \in Events \cup {NoEvent}
    /\ receipt \in DispatchStatuses
    /\ read \in Statuses
    /\ posts \in Nat
    /\ outcome \in [Messages -> ItemTerminal] \cup {NoOutcome}
    /\ mail \subseteq Events
    /\ blocked \in BOOLEAN
    /\ faults \in 0 .. MaxFaults

\* The message is reserved by a call that may still answer it.
Init ==
    /\ \E c \in Calls : row = [NoRow EXCEPT !.status = "generating", !.owner = c]
    /\ dispatch = NoDispatch
    /\ applied = {}
    /\ pc = [w \in Workers |-> "idle"]
    /\ reply = [w \in Workers |-> NoReply]
    /\ verdict = [w \in Workers |-> "absent"]
    /\ saw = [w \in Workers |-> "absent"]
    /\ hpc = "idle" /\ event = NoEvent /\ receipt = "absent" /\ read = "absent"
    /\ posts = 0
    /\ outcome = NoOutcome
    /\ mail = {}
    /\ blocked = FALSE
    /\ faults = 0

----------------------------------------------------------------------------
(* The worker: run_once and process_claim *)

Goto(w, where) == pc' = [pc EXCEPT ![w] = where] /\ UNCHANGED <<reply, verdict, saw>>

GotoWith(w, where, status) ==
    /\ pc' = [pc EXCEPT ![w] = where]
    /\ verdict' = [verdict EXCEPT ![w] = status]
    /\ UNCHANGED <<reply, saw>>

\* The iteration is over; what it held is gone.
Done(w) ==
    /\ pc' = [pc EXCEPT ![w] = "idle"]
    /\ reply' = [reply EXCEPT ![w] = NoReply]
    /\ verdict' = [verdict EXCEPT ![w] = "absent"]
    /\ saw' = [saw EXCEPT ![w] = "absent"]

RowOnly == UNCHANGED <<dispatch, applied, posts, outcome>>
NoStore == UNCHANGED <<row, dispatch, applied, posts, outcome>>

\* recover_stale_v3_generations comes first in every iteration.
Poll(w) ==
    /\ pc[w] = "idle"
    /\ ReapStale \/ (~(row.status = "generating" /\ row.due) /\ UNCHANGED row)
    /\ Goto(w, "claim")
    /\ RowOnly

ClaimBatch(w) ==
    /\ pc[w] = "claim"
    /\ \/ Escalate /\ Done(w)
       \/ Claim /\ Goto(w, "lookup1")
       \/ ~MustEscalate /\ ~Claimable /\ UNCHANGED row /\ Done(w)
    /\ RowOnly

\* _reconcile_existing_dispatch: a dispatch that is already there is never sent
\* again; one that was created but not marked as submitting is ambiguous.
Reconcile(w) ==
    CASE dispatch.status = "absent" -> Goto(w, IF pc[w] = "lookup1" THEN "gate1" ELSE "send")
      [] dispatch.status \in Terminal -> GotoWith(w, "settle", dispatch.status)
      [] dispatch.status \in Pending -> Goto(w, "stage")
      [] OTHER -> Goto(w, "manual")

\* The first lookup follows the checks of the stored request; a lookup that
\* raises is a retry.
Lookup(w) ==
    /\ pc[w] \in {"lookup1", "lookup2"}
    /\ \/ Reconcile(w)
       \/ Goto(w, "retry")
       \/ pc[w] = "lookup1" /\ Goto(w, "manual")
    /\ NoStore

\* Mutant of Gate: what the first gate allowed still holds after the generation.
GateTrusting(w) ==
    /\ \/ pc[w] = "gate1" /\ Goto(w, IF blocked THEN "cancel" ELSE "generate")
       \/ pc[w] = "gate2" /\ Goto(w, "lookup2")
    /\ NoStore

\* _preflight, before and again after the generation: a fact against the send
\* cancels, one that cannot be read delays, a customer without scope is manual.
Gate(w) ==
    /\ pc[w] \in {"gate1", "gate2"}
    /\ \/ blocked /\ Goto(w, "cancel")
       \/ ~blocked /\ Goto(w, IF pc[w] = "gate1" THEN "generate" ELSE "lookup2")
       \/ Goto(w, "retry")
       \/ Goto(w, "manual")
    /\ NoStore

\* The full graph runs again; every run may word the answer differently.
Generate(w) ==
    /\ pc[w] = "generate"
    /\ \/ \E r \in Replies :
            /\ reply' = [reply EXCEPT ![w] = r]
            /\ pc' = [pc EXCEPT ![w] = "gate2"]
            /\ UNCHANGED <<verdict, saw>>
       \/ Goto(w, "retry")
    /\ NoStore

\* send_reply_messages up to prepare_dispatch.  An existing dispatch with other
\* messages is a ValueError; with the same ones its status decides.
Prepare(w) ==
    /\ pc[w] = "send"
    /\ \/ blocked /\ Goto(w, "cancel") /\ UNCHANGED <<dispatch, applied>>
       \/ Goto(w, "manual") /\ UNCHANGED <<dispatch, applied>>
       \/ Create(reply[w]) /\ GotoWith(w, "record", "submitting")
       \/ /\ dispatch.status # "absent"
          /\ CASE dispatch.reply # reply[w] -> Goto(w, "retry")
               [] dispatch.status = "created" -> GotoWith(w, "record", "submitting")
               [] dispatch.status = "send_succeeded" -> GotoWith(w, "settle", "send_succeeded")
               [] dispatch.status \in Pending -> Goto(w, "stage")
               [] OTHER -> Goto(w, "manual")
          /\ UNCHANGED <<dispatch, applied>>
    /\ UNCHANGED <<row, posts, outcome>>

\* record_submission: its SELECT ...
RecordRead(w) ==
    /\ pc[w] = "record"
    /\ pc' = [pc EXCEPT ![w] = "recording"]
    /\ saw' = [saw EXCEPT ![w] = dispatch.status]
    /\ UNCHANGED <<reply, verdict>>
    /\ NoStore

\* ... and its UPDATE: before the request to the platform or with its answer.
RecordWrite(w) ==
    /\ pc[w] = "recording"
    /\ RecordSubmission(saw[w], verdict[w])
    /\ Goto(w, CASE verdict[w] = "submitting" -> "post"
                 [] verdict[w] = "submission_failed" -> "manual"
                 [] OTHER -> "stage")
    /\ UNCHANGED <<row, posts, outcome>>

\* The platform has the messages; what becomes of them is settled there.
Accepted ==
    /\ posts' = posts + 1
    /\ IF outcome = NoOutcome THEN outcome' \in [Messages -> ItemTerminal]
                              ELSE UNCHANGED outcome

\* Mutant of Post: a transport error is retried like that of any other request.
PostRetries(w) ==
    /\ pc[w] = "post"
    /\ posts' \in posts .. posts + 2
    /\ IF outcome = NoOutcome /\ posts' > posts THEN outcome' \in [Messages -> ItemTerminal]
                                               ELSE UNCHANGED outcome
    /\ GotoWith(w, "record", "submission_unknown")
    /\ UNCHANGED <<row, dispatch, applied>>

\* The POST: answered, timed out, or failed, whether or not the platform took
\* the messages.  A status of 400 or more is recorded as submission_failed.
Post(w) ==
    /\ pc[w] = "post"
    /\ \/ /\ Accepted
          /\ \E status \in {"platform_accepted", "submission_unknown", "submission_failed"} :
                GotoWith(w, "record", status)
       \/ /\ UNCHANGED <<posts, outcome>>
          /\ \E status \in {"submission_unknown", "submission_failed"} :
                GotoWith(w, "record", status)
    /\ UNCHANGED <<row, dispatch, applied>>

\* finalize_v3_recovery_delivery as the worker calls it: the SELECT, the CAS.
SettleRead(w) ==
    /\ pc[w] = "settle"
    /\ \/ /\ row.status \in Finalizable
          /\ pc' = [pc EXCEPT ![w] = "settling"]
          /\ saw' = [saw EXCEPT ![w] = row.status]
          /\ UNCHANGED <<reply, verdict>>
       \/ row.status \notin Finalizable /\ Done(w)
    /\ NoStore

SettleWrite(w) ==
    /\ pc[w] = "settling"
    /\ Settle(saw[w], verdict[w]) \/ (row.status # saw[w] /\ UNCHANGED row)
    /\ Done(w)
    /\ RowOnly

\* The other ends of a claim, one transaction each.
Conclude(w) ==
    /\ \/ pc[w] = "retry" /\ Retry
       \/ pc[w] = "cancel" /\ Cancel
       \/ pc[w] = "manual" /\ ManualReview
       \/ pc[w] = "stage" /\ Stage
    /\ Done(w)
    /\ RowOnly

WorkerStep(w) ==
    /\ \/ Poll(w) \/ ClaimBatch(w) \/ Lookup(w) \/ Gate(w) \/ Generate(w)
       \/ Prepare(w) \/ RecordRead(w) \/ RecordWrite(w) \/ Post(w)
       \/ SettleRead(w) \/ SettleWrite(w) \/ Conclude(w)
    /\ UNCHANGED <<handlerVars, mail, blocked, faults>>

----------------------------------------------------------------------------
(* The callback: message_delivery_callback in the control process *)

HandlerIdle == hpc' = "idle" /\ event' = NoEvent /\ receipt' = "absent" /\ read' = "absent"

\* A 2xx, or a 409, which the contract tells the platform not to retry.
Respond == mail' = mail \ {event} /\ HandlerIdle

Receive(e) ==
    /\ hpc = "idle"
    /\ e \in mail
    /\ \/ Rejects(e) /\ mail' = mail \ {e} /\ UNCHANGED <<dispatch, applied, handlerVars>>
       \/ /\ ApplyEvent(e)
          /\ hpc' = "reload" /\ event' = e
          /\ UNCHANGED <<mail, receipt, read>>
    /\ UNCHANGED row

\* The dispatch is read again; only a terminal one without finalized_at goes on.
Reload ==
    /\ hpc = "reload"
    /\ \/ /\ dispatch.status \in Terminal /\ ~dispatch.finalized
          /\ hpc' = "find" /\ receipt' = dispatch.status
          /\ UNCHANGED <<event, read, mail>>
       \/ /\ dispatch.status \notin Terminal \/ dispatch.finalized
          /\ Respond
    /\ UNCHANGED <<row, dispatch, applied>>

FindRun ==
    /\ hpc = "find"
    /\ \/ /\ row.status \in Finalizable
          /\ hpc' = "settling" /\ read' = row.status
          /\ UNCHANGED <<event, receipt, mail>>
       \/ row.status \notin Finalizable /\ Respond
    /\ UNCHANGED <<row, dispatch, applied>>

\* Mutant of SettleRun: a lost CAS is taken for a settled run.
SettleRunTrusting ==
    /\ hpc = "settling"
    /\ \/ Settle(read, receipt)
       \/ row.status # read /\ UNCHANGED row
    /\ hpc' = "mark"
    /\ UNCHANGED <<dispatch, applied, event, receipt, read, mail>>

\* A lost CAS is a conflict unless the row is found settled as wished; the read
\* that looks may still see the row as the transaction first saw it.
SettleRun ==
    /\ hpc = "settling"
    /\ \/ Settle(read, receipt) /\ hpc' = "mark" /\ UNCHANGED <<event, receipt, read, mail>>
       \/ /\ AlreadySettled(read, receipt) /\ UNCHANGED row
          /\ hpc' = "mark" /\ UNCHANGED <<event, receipt, read, mail>>
       \/ row.status # read /\ UNCHANGED row /\ Respond
    /\ UNCHANGED <<dispatch, applied>>

FinalizeDispatch ==
    /\ hpc = "mark"
    /\ MarkFinalized
    /\ Respond
    /\ UNCHANGED row

HandlerStep ==
    /\ (\E e \in mail : Receive(e)) \/ Reload \/ FindRun \/ SettleRun \/ FinalizeDispatch
    /\ UNCHANGED <<workerVars, posts, outcome, blocked, faults>>

----------------------------------------------------------------------------
(* The platform, the customer, the reply process, failures *)

\* A progress notice about some messages, or the terminal report of the batch.
Notices == {[status |-> "sending", items |-> [m \in part |-> outcome[m]]] : part \in SUBSET Messages}

Report == [status |-> IF \A m \in Messages : outcome[m] = "send_succeeded" THEN "send_succeeded"
                      ELSE IF \A m \in Messages : outcome[m] = "send_failed" THEN "send_failed"
                      ELSE "partial_failed",
           items |-> outcome]

\* It reports what happened, in any order and more than once.
PlatformReports ==
    /\ outcome # NoOutcome
    /\ Cardinality(mail) < MaxMail
    /\ \E e \in Notices \cup {Report} : e \notin mail /\ mail' = mail \cup {e}
    /\ UNCHANGED <<row, dispatch, applied, workerVars, handlerVars, posts, outcome, blocked, faults>>

CustomerActs ==
    /\ ~blocked
    /\ blocked' = TRUE
    /\ UNCHANGED <<row, dispatch, applied, workerVars, handlerVars, posts, outcome, mail, faults>>

\* The reply process: the owner saves a result, or a retry takes the lease over.
ReplyProcess ==
    /\ \E c \in Calls :
          \/ Owns(c) /\ \E kind \in Kinds : SavePrimary([by |-> c, kind |-> kind], TRUE)
          \/ LeaseExpired /\ row.owner # c /\ Reclaim(c)
    /\ UNCHANGED <<dispatch, applied, workerVars, handlerVars, world, faults>>

Expire ==
    /\ DeadlinePasses
    /\ UNCHANGED <<dispatch, applied, workerVars, handlerVars, world, faults>>

Fault == faults < MaxFaults /\ faults' = faults + 1

\* The worker process dies, or a store call outside a `try` ends the iteration.
WorkerFails(w) ==
    /\ Fault
    /\ pc[w] # "idle"
    /\ Done(w)
    /\ UNCHANGED <<row, dispatch, applied, handlerVars, world>>

\* A store call of send_reply_messages raises: process_claim turns it into a
\* retry, whether the platform was called or not.
SendRaises(w) ==
    /\ Fault
    /\ pc[w] \in {"send", "record", "recording"}
    /\ Goto(w, "retry")
    /\ UNCHANGED <<row, dispatch, applied, handlerVars, world>>

\* The handler dies or answers 500, or its response is lost: the callback stays.
HandlerFails ==
    /\ Fault
    /\ hpc # "idle"
    /\ HandlerIdle
    /\ UNCHANGED <<row, dispatch, applied, workerVars, world>>

Next ==
    \/ \E w \in Workers : WorkerStep(w) \/ WorkerFails(w) \/ SendRaises(w)
    \/ HandlerStep \/ HandlerFails
    \/ PlatformReports \/ CustomerActs \/ ReplyProcess \/ Expire

Spec == Init /\ [][Next]_vars

\* The worker's loop and the callback handler are scheduled, every await in
\* them has a timeout, and time passes.  What the platform, the customer and
\* the reply process do is theirs to choose.
Fairness ==
    /\ \A w \in Workers : WF_vars(WorkerStep(w))
    /\ WF_vars(HandlerStep)
    /\ WF_vars(Expire)

FairSpec == Spec /\ Fairness

----------------------------------------------------------------------------
(* Properties *)

(* "a process restart cannot duplicate a send" (V3ReplyRecoveryWorker): the *)
(* platform accepts one proactive send of a message, whatever crashes,      *)
(* retries, timeouts and failed transactions there are around it.           *)
SentOnce == posts <= 1

(* A customer who got an HTTP answer gets no recovery: a proactive send     *)
(* implies that the HTTP result is missing or is the holding fallback.      *)
NoSecondAnswer == posts > 0 => row.snap = None \/ row.snap.kind = "fallback"

(* A recovery that was cancelled because the customer acted sent nothing.   *)
CancelledNeverSent == row.status = "recovery_failed" => posts = 0

(* A run is recovered only if every message of its answer reached the       *)
(* customer; acceptance, timeouts and partial receipts do not count.        *)
RecoveredIsDelivered ==
    row.status = "recovered" => \A m \in Messages : outcome[m] = "send_succeeded"

(* The source of a finalized dispatch agrees with what happened: finalized_at*)
(* is only set once the run is recovered, or under review after a failure,  *)
(* and nothing moves the run away from there afterwards.                    *)
FinalizedIsSettled ==
    dispatch.finalized =>
        row.status = IF \A m \in Messages : outcome[m] = "send_succeeded"
                     THEN "recovered" ELSE "manual_review"

(* "Once a dispatch exists, expiry must escalate for reconciliation rather  *)
(* than blind-send": a staged run leaves its claim by a receipt or into     *)
(* manual review, never back to pending and never cancelled.                *)
StagedIsReconciled ==
    [][Claimed /\ row.dispatch /\ row'.status # row.status
         => row'.status \in {"recovered", "manual_review"}]_vars

\* What the customer and the service see of it all.
RunView ==
    CASE row.status = "completed" -> "answered"
      [] row.status = "recovered" -> "recovered"
      [] row.status = "recovery_failed" -> "cancelled"
      [] row.status = "manual_review" -> "review"
      [] OTHER -> "open"

AnswerView ==
    IF row.snap = None THEN "none" ELSE IF row.snap.kind = "fallback" THEN "holding" ELSE "real"

SentView ==
    IF posts = 0 THEN "no"
    ELSE IF \A m \in Messages : outcome[m] = "send_succeeded" THEN "whole" ELSE "broken"

\* Past its second gate, a worker has an answer and leave to send it.
ClearedView ==
    \E w \in Workers : pc[w] \in {"lookup2", "send", "record", "recording", "post"}

Promise == INSTANCE RecoverOnce
           WITH answer <- AnswerView, run <- RunView, sent <- SentView, acted <- blocked,
                cleared <- ClearedView

(* However claims, sends, receipts, escalations and the reply process's own *)
(* answer interleave: the message is answered over HTTP or by one proactive *)
(* send, a run that is answered, recovered or cancelled stays so, and a run *)
(* is cancelled only after the customer acted and before anything is sent.  *)
(* And an answer that took seconds to generate is sent only if, once it was *)
(* there, it was seen that the customer had not acted.                      *)
ImplementsRecoverOnce == Promise!Spec

(* The contract of the delivery callback calls send_succeeded, send_failed  *)
(* and partial_failed final: a dispatch never leaves them.                  *)
TerminalReceiptIsFinal ==
    [][dispatch.status \in Terminal => dispatch'.status = dispatch.status]_vars

(* Nobody is forgotten: a run that is reserved, waits for recovery or is     *)
(* claimed ends answered, recovered, cancelled or in manual review.  The    *)
(* reaper ends a lease whose owner died, the attempts are bounded, and a    *)
(* claim that died or whose receipt never comes runs out.                   *)
Unsettled == row.status = "generating" \/ Open
NoStuckRun == Unsettled ~> ~Unsettled
=============================================================================
