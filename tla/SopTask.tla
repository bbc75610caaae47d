------------------------------- MODULE SopTask -------------------------------
(***************************************************************************)
(* The execution of third-party SOP tasks (SopPlatformTaskService), for    *)
(* the tasks of one customer.  A poll pulls the tasks the platform has     *)
(* open and queues them as one batch; a queue worker, or the recovery loop *)
(* for a task it finds unfinished, takes the lock of the customer and runs *)
(* one pass: gates, content, delivery, consumption, strategy report.       *)
(*                                                                         *)
(* A pass is cut where the code waits (the lock, a request) and between    *)
(* transactions whose order a restart can observe.  The platform and the   *)
(* aggregate messaging service are external: what they do to a request is  *)
(* nondeterministic, and a response may be lost.                           *)
(***************************************************************************)
EXTENDS SopTaskRow, Sequences, SequencesExt

CONSTANTS
    MaxAttempts,  \* SOP_PRE_SEND_FAILURE_MAX_ATTEMPTS (3)
    MaxFaults     \* bound: failed or lost requests and restarts of the worker process

ASSUME AttemptsPositive == MaxAttempts \in Nat \ {0}
ASSUME BoundIsNumber == MaxFaults \in Nat

VARIABLES
    platform,  \* the SOP platform: [task: its status 10, 30 or 70; bound: the task that consumed a group]
    event,     \* sop_events: the status of each task's event
    retries,   \* sop_events.retry_count, as far as it is compared
    local,     \* sop_send_tasks
    dispatch,  \* message_dispatches: the submission under each key
    reserved,  \* _reserved_prefix_ids
    terminal,  \* _terminal_ids
    poll,      \* the poll in progress: [stage, tasks]
    queue,     \* _queue: the batches, as sets of tasks
    waiters,   \* holders-to-be of the customer lock, in order
    recovering,\* recoveries selected that do not wait for the lock yet
    pass,      \* the pass that holds the lock, or None
    sent,      \* submissions the messaging service accepted: <<task, key>> with their number
    faults

durable == <<event, retries, local, dispatch>>
external == <<platform, sent>>
memory == <<reserved, terminal, poll, queue, waiters, recovering, pass>>
vars == <<durable, external, memory, faults>>

Earliest(batch) == CHOOSE t \in batch : \A u \in batch : t <= u

\* A lock request: rstat is the recovery status, "none" for a queue worker.
Requests == [batch : SUBSET Tasks, rstat : Recoverable \cup {"none"}]

Passes ==
    [task : Tasks, batch : SUBSET Tasks, rstat : Recoverable \cup {"none"},
     pc : {"gate", "content", "invoke", "submit", "posting", "posted", "record", "pending",
           "consume30", "report30", "finish30", "consume70", "report70"},
     how : {"sent", "recovered"}]        \* which caller finalizes it

TypeOK ==
    /\ platform \in [task : [Tasks -> {10, 30, 70}], bound : [Groups -> Tasks \cup {None}]]
    /\ event \in [Tasks -> EventStatuses]
    /\ retries \in [Tasks -> 0 .. MaxAttempts]
    /\ local \in [Tasks -> Rows]
    /\ dispatch \in [Keys -> {"none", "created", "accepted", "unknown", "failed"}]
    /\ reserved \subseteq Tasks /\ terminal \subseteq Tasks
    /\ poll \in [stage : {"idle", "pulled", "persisting"}, tasks : SUBSET Tasks]
    /\ queue \in Seq(SUBSET Tasks)
    /\ waiters \in Seq(Requests)
    /\ recovering \subseteq Requests
    /\ pass \in Passes \cup {None}
    /\ sent \in [Tasks \X Keys -> 0 .. 2]
    /\ faults \in 0 .. MaxFaults

Forgotten ==
    /\ reserved' = {} /\ terminal' = {}
    /\ poll' = [stage |-> "idle", tasks |-> {}]
    /\ queue' = <<>> /\ waiters' = <<>> /\ recovering' = {}
    /\ pass' = None

Init ==
    /\ platform = [task |-> [t \in Tasks |-> 10], bound |-> [g \in Groups |-> None]]
    /\ event = [t \in Tasks |-> "none"]
    /\ retries = [t \in Tasks |-> 0]
    /\ local = [t \in Tasks |-> NoRow]
    /\ dispatch = [k \in Keys |-> "none"]
    /\ reserved = {} /\ terminal = {}
    /\ poll = [stage |-> "idle", tasks |-> {}]
    /\ queue = <<>> /\ waiters = <<>> /\ recovering = {}
    /\ pass = None
    /\ sent = [x \in Tasks \X Keys |-> 0]
    /\ faults = 0

Fault == faults < MaxFaults /\ faults' = faults + 1
NoFault == UNCHANGED faults

Queued ==                                       \* _queued_ids
    UNION ToSet(queue) \cup (IF poll.stage = "persisting" THEN poll.tasks ELSE {})

InFlight ==                                     \* _in_flight_ids
    UNION {w.batch : w \in {w \in ToSet(waiters) : w.rstat = "none"}}
        \cup (IF pass # None /\ pass.rstat = "none" THEN pass.batch ELSE {})

----------------------------------------------------------------------------
(* The poll and the queue *)

\* poll_once: the reservations are restored, then /pending is read.
Pull ==
    /\ poll.stage = "idle"
    /\ reserved' = reserved \cup {t \in Tasks : event[t] \in Restored}
                            \cup UNION {local[t].held : t \in {u \in Tasks : event[u] \in Restored}}
    /\ poll' = [stage |-> "pulled", tasks |-> {t \in Tasks : platform.task[t] = 10}]
    /\ UNCHANGED <<durable, external, terminal, queue, waiters, recovering, pass, faults>>

\* ... what the page holds and this process does not work on is reserved for
\* the queue before it is persisted.
Filter ==
    /\ poll.stage = "pulled"
    /\ LET new == poll.tasks \ (Queued \cup InFlight \cup reserved \cup terminal)
       IN poll' = IF new = {} THEN [stage |-> "idle", tasks |-> {}]
                              ELSE [stage |-> "persisting", tasks |-> new]
    /\ UNCHANGED <<durable, external, reserved, terminal, queue, waiters, recovering, pass, faults>>

\* The status an event has after _ensure_local_task.
Ensured(t, status) ==
    IF event[t] \in {"none", "accepted", "platform_queued"} THEN status ELSE event[t]

\* _ensure_local_task for each of them, and put_nowait.
Enqueue ==
    /\ poll.stage = "persisting"
    /\ event' = [t \in Tasks |-> IF t \in poll.tasks THEN Ensured(t, "platform_queued") ELSE event[t]]
    /\ local' = [t \in Tasks |->
                   IF t \in poll.tasks /\ local[t].status = "none"
                   THEN [NoRow EXCEPT !.status = "platform_queued", !.mode = "gate"]
                   ELSE local[t]]
    /\ queue' = Append(queue, poll.tasks)
    /\ poll' = [stage |-> "idle", tasks |-> {}]
    /\ UNCHANGED <<retries, dispatch, external, reserved, terminal, waiters, recovering, pass, faults>>

\* _queue_worker takes a batch and asks for the lock of the customer.
Dequeue ==
    /\ queue # <<>>
    /\ waiters' = Append(waiters, [batch |-> Head(queue), rstat |-> "none"])
    /\ queue' = Tail(queue)
    /\ UNCHANGED <<durable, external, reserved, terminal, poll, recovering, pass, faults>>

----------------------------------------------------------------------------
(* The recovery loop *)

\* Mutant of FoundAs: an open sending is found under the status of its event.
FoundUnchanged(t) ==
    IF event[t] \in Recoverable \/ local[t].status = "sending" THEN event[t] ELSE "none"

\* The status under which process_recoveries finds an event: its own, or
\* "platform_processing" for a completed one whose sending is still open.
FoundAs(t) ==
    IF event[t] \in Recoverable THEN event[t]
    ELSE IF event[t] = "platform_completed" /\ local[t].status = "sending"
               /\ local[t].resp = "none"
         THEN "platform_processing" ELSE "none"

NoRecovery ==
    /\ recovering = {}
    /\ \A w \in ToSet(waiters) : w.rstat = "none"
    /\ pass # None => pass.rstat = "none"

\* Mutant of Selectable: what a poll must not take is not recovered either.
SelectableUnreserved(t) == FoundAs(t) # "none" /\ t \notin Queued \cup InFlight \cup reserved

Selectable(t) == FoundAs(t) # "none" /\ t \notin Queued \cup InFlight

\* process_recoveries: the unfinished tasks S are due.  A task without an
\* execution mode is taken for one of the removed execution path.
Select(S) ==
    /\ NoRecovery
    /\ S # {} /\ \A t \in S : Selectable(t)
    /\ LET legacy == {t \in S : local[t].mode = "none"}
       IN /\ recovering' = {[batch |-> {t}, rstat |-> FoundAs(t)] : t \in S \ legacy}
          /\ reserved' = reserved \cup legacy
          /\ event' = [t \in Tasks |-> IF t \in legacy THEN "platform_legacy_quarantined"
                                                       ELSE event[t]]
    /\ UNCHANGED <<retries, local, dispatch, external, terminal, poll, queue, waiters, pass, faults>>

\* A selected recovery gets its place among the concurrent ones.
Recover(w) ==
    /\ w \in recovering
    /\ waiters' = Append(waiters, w)
    /\ recovering' = recovering \ {w}
    /\ UNCHANGED <<durable, external, reserved, terminal, poll, queue, pass, faults>>

----------------------------------------------------------------------------
(* The end of a pass *)

Goto(where) == pass' = [pass EXCEPT !.pc = where]

\* _schedule_recovery_backoff writes the status the event was found with.
Backoff(t) ==
    /\ event' = [event EXCEPT ![t] = pass.rstat]
    /\ retries' = [retries EXCEPT ![t] = IF @ = MaxAttempts THEN @ ELSE @ + 1]

\* An exception, or a result that is not processed: a recovery is deferred;
\* the queue worker only logs it.
Abandon ==
    /\ pass' = None
    /\ IF pass.rstat = "none" THEN UNCHANGED <<event, retries>> ELSE Backoff(pass.task)

\* The platform says that the task is over.
AlreadyOver ==
    LET t == pass.task IN
    /\ pass' = None
    /\ IF pass.rstat = "none"
       THEN UNCHANGED <<event, local, reserved>>
       ELSE /\ event' = [event EXCEPT ![t] = "platform_failed"]
            /\ local' = [local EXCEPT ![t] = Update(@, [@ EXCEPT !.status = "send_failed"])]
            /\ reserved' = reserved \cup {t}
    /\ UNCHANGED retries

\* Mutant of Release: the held tasks are completed with the task that held them.
ReleaseCompletes(t, held) ==
    /\ reserved' = reserved \ held
    /\ event' = [u \in Tasks |-> IF u = t \/ u \in held THEN "platform_completed" ELSE event[u]]

\* _release_sequence_reservations
Release(t, held) ==
    /\ reserved' = reserved \ held
    /\ event' = [u \in Tasks |->
                   IF u = t THEN "platform_completed"
                   ELSE IF u \in held /\ event[u] = "platform_sequence_waiting"
                        THEN "accepted" ELSE event[u]]

\* _consume_batch_without_send, up to its request.
Close(t, p, mode) ==
    /\ local' = [local EXCEPT ![t] =
                   Update(@, [@ EXCEPT !.mode = mode, !.close = 70, !.content = None, !.held = {},
                                       !.status = IF mode = "failure" THEN "failure_consume_pending"
                                                  ELSE "completed_without_send"])]
    /\ event' = [event EXCEPT ![t] = "platform_complete_pending"]
    /\ pass' = [p EXCEPT !.pc = "consume70"]

\* _defer_batch_failure: a failure before the send boundary.
Defer(t) ==
    IF retries[t] + 1 >= MaxAttempts
    THEN Close(t, pass, "failure") /\ UNCHANGED <<retries, reserved>>
    ELSE /\ local' = [local EXCEPT ![t] =
                        Update(@, [@ EXCEPT !.status = "processing_retry", !.mode = "gate",
                                            !.close = 0, !.content = None])]
         /\ event' = [event EXCEPT ![t] = "platform_processing_retry"]
         /\ retries' = [retries EXCEPT ![t] = @ + 1]
         /\ reserved' = reserved \cup {t}
         /\ pass' = None

----------------------------------------------------------------------------
(* The pass: the lock, the state of the task, the gates *)

\* Mutant of Resumes: only a recovery resumes.
ResumesInRecovery(r, rstat) ==
    rstat # "none" /\ (SendEvidence(r) \/ (r.status = "sending" /\ r.invoked))

\* The send was invoked, or there is evidence of it: only its consumption is
\* to be finished.  The evidence is only looked for by a recovery.
Resumes(r, rstat) ==
    \/ r.status = "sending" /\ r.invoked
    \/ rstat # "none" /\ SendEvidence(r)

\* The task was being closed as not sent: the mode to finish that with.
ClosesAs(t, rstat) ==
    LET r == local[t] IN
    IF \/ event[t] = "platform_legacy_quarantined"
       \/ r.status \in {"processing_retry", "failure_consume_pending"} /\ r.mode = "failure"
    THEN "failure"
    ELSE IF rstat \in {"platform_complete_pending", "platform_failure_rule_data_pending"}
              /\ r.close = 70
         THEN r.mode ELSE "none"

\* _process_customer_batch_locked, up to the gate queries.  Of a batch the
\* earliest task is handled; the others stay open on the platform.
Begin ==
    /\ pass = None /\ waiters # <<>>
    /\ LET w == Head(waiters)
           t == Earliest(w.batch)
           p == [task |-> t, batch |-> w.batch, rstat |-> w.rstat, pc |-> "gate", how |-> "sent"]
       IN \/ /\ event[t] = "platform_completed" /\ local[t].status \in DoneStatuses
             /\ terminal' = terminal \cup {t}
             /\ pass' = None
             /\ UNCHANGED <<event, local>>
          \/ /\ ~(event[t] = "platform_completed" /\ local[t].status \in DoneStatuses)
             /\ UNCHANGED terminal
             /\ IF ClosesAs(t, w.rstat) # "none"
                THEN Close(t, p, ClosesAs(t, w.rstat))
                ELSE /\ event' = [event EXCEPT ![t] = Ensured(t, "platform_queued")]
                     /\ IF Resumes(local[t], w.rstat)
                        THEN /\ pass' = [p EXCEPT !.pc = "consume30", !.how = "recovered"]
                             /\ UNCHANGED local
                        ELSE /\ pass' = p
                             /\ local' = [local EXCEPT ![t] =
                                            Update(@, [@ EXCEPT !.status = "platform_queued",
                                                                !.mode = "gate"])]
    /\ waiters' = Tail(waiters)
    /\ UNCHANGED <<retries, dispatch, external, reserved, poll, queue, recovering, faults>>

At(where) == pass # None /\ pass.pc = where

\* conversation/status and conversation: send, or one of the three business
\* outcomes (the customer has spoken, the relation is deleted, a human took
\* over, which may end again).
Gate ==
    /\ At("gate")
    /\ \/ Goto("content") /\ NoFault /\ UNCHANGED <<event, retries, local, reserved>>
       \/ Close(pass.task, pass, "no_send") /\ NoFault /\ UNCHANGED <<retries, reserved>>
       \/ Fault /\ Defer(pass.task)
    /\ UNCHANGED <<dispatch, external, terminal, poll, queue, waiters, recovering>>

Unconsumed == {g \in Groups : platform.bound[g] = None}

\* _send_selected_batch_task, up to the send: the other tasks of the sequence
\* wait, and prepare_platform_sop_send writes both rows, whatever they hold.
Prepare(k) ==
    LET t == pass.task
        held == local[t].held \cup pass.batch
    IN /\ local' = [local EXCEPT ![t] = [@ EXCEPT !.status = "sending", !.mode = "gate",
                                          !.invoked = FALSE, !.unsure = FALSE, !.content = k,
                                          !.close = 30, !.held = held]]
       /\ event' = [u \in Tasks |-> IF u = t THEN "platform_processing"
                                    ELSE IF u \in held THEN "platform_sequence_waiting"
                                    ELSE event[u]]
       /\ reserved' = reserved \cup held
       /\ Goto("invoke")
       /\ UNCHANGED retries

\* What there is to send: the content the task came with, or else the first
\* group /sop-messages has unconsumed.
Offered(t) ==
    {[kind |-> "task", id |-> u] : u \in {t} \cap OwnContent}
        \cup {[kind |-> "group", id |-> g] : g \in {h \in Unconsumed : \A i \in Unconsumed : h <= i}}

Content ==
    /\ At("content")
    /\ LET t == pass.task IN
       \/ NoFault /\ \E k \in Offered(t) : Prepare(k)
       \/ NoFault /\ Unconsumed = {} /\ Close(t, pass, "failure") /\ UNCHANGED <<retries, reserved>>
       \/ Fault /\ Defer(t)
    /\ UNCHANGED <<dispatch, external, terminal, poll, queue, waiters, recovering>>

----------------------------------------------------------------------------
(* The pass: delivery *)

\* send_invoked_at, before the call.
Invoke ==
    /\ At("invoke")
    /\ local' = [local EXCEPT ![pass.task] =
                   Update(@, [@ EXCEPT !.status = "sending", !.invoked = TRUE])]
    /\ Goto("submit")
    /\ UNCHANGED <<event, retries, dispatch, external, reserved, terminal, poll, queue, waiters,
                   recovering, faults>>

Key == local[pass.task].content

\* OutreachSystemClient.send, up to its request: a submission that is known
\* under this key is not repeated.
Submit ==
    /\ At("submit")
    /\ \/ /\ dispatch[Key] \in {"accepted", "unknown"}
          /\ Goto("record") /\ UNCHANGED dispatch
       \/ /\ dispatch[Key] \notin {"accepted", "unknown"}
          /\ dispatch' = [dispatch EXCEPT ![Key] = IF @ = "none" THEN "created" ELSE @]
          /\ Goto("posting")
    /\ UNCHANGED <<event, retries, local, external, reserved, terminal, poll, queue, waiters,
                   recovering, faults>>

\* The messaging service takes the message; the counter is capped at two.
Arrive ==
    /\ At("posting")
    /\ sent' = [sent EXCEPT ![<<pass.task, Key>>] = IF @ = 2 THEN 2 ELSE @ + 1]
    /\ Goto("posted")
    /\ UNCHANGED <<durable, platform, reserved, terminal, poll, queue, waiters, recovering,
                   faults>>

\* Its answer, or none in time: the client returns in both cases.
Answer ==
    /\ At("posted")
    /\ \/ dispatch' = [dispatch EXCEPT ![Key] = "accepted"] /\ NoFault
       \/ dispatch' = [dispatch EXCEPT ![Key] = "unknown"] /\ Fault
    /\ Goto("record")
    /\ UNCHANGED <<event, retries, local, external, reserved, terminal, poll, queue, waiters,
                   recovering>>

\* An explicit rejection (wecom_aggregate_send_failed) closes the task.
Reject ==
    /\ At("posting") /\ Fault
    /\ dispatch' = [dispatch EXCEPT ![Key] = "failed"]
    /\ Close(pass.task, pass, "failure")
    /\ UNCHANGED <<retries, external, reserved, terminal, poll, queue, waiters, recovering>>

\* Any other exception leaves the outcome open: the task is finished as sent.
LoseAnswer ==
    /\ At("posting") \/ At("posted")
    /\ Fault
    /\ dispatch' = [dispatch EXCEPT ![Key] = "failed"]
    /\ local' = [local EXCEPT ![pass.task] =
                   Update(@, [@ EXCEPT !.status = "sending", !.close = 30,
                                       !.invoked = TRUE, !.unsure = TRUE])]
    /\ event' = [event EXCEPT ![pass.task] = "platform_complete_pending"]
    /\ pass' = [pass EXCEPT !.pc = "consume30", !.how = "recovered"]
    /\ UNCHANGED <<retries, external, reserved, terminal, poll, queue, waiters, recovering>>

\* The send returned: the row, ...
Record ==
    /\ At("record")
    /\ local' = [local EXCEPT ![pass.task] =
                   [@ EXCEPT !.status = "sent", !.invoked = TRUE, !.sentAt = TRUE,
                             !.resp = dispatch[Key]]]
    /\ Goto("pending")
    /\ UNCHANGED <<event, retries, dispatch, external, reserved, terminal, poll, queue, waiters,
                   recovering, faults>>

\* ... then the event.
Pending ==
    /\ At("pending")
    /\ event' = [event EXCEPT ![pass.task] = "platform_complete_pending"]
    /\ Goto("consume30")
    /\ UNCHANGED <<retries, local, dispatch, external, reserved, terminal, poll, queue, waiters,
                   recovering, faults>>

----------------------------------------------------------------------------
(* The pass: consumption and report *)

\* What /consume does to (task, 30, msgId): it is idempotent.
Consumable(t, k) ==
    \/ platform.task[t] = 10 /\ (k.kind = "group" => platform.bound[k.id] \in {None, t})
    \/ platform.task[t] = 30 /\ (k.kind = "group" => platform.bound[k.id] = t)

Consumed(t, k) ==
    [task  |-> [platform.task EXCEPT ![t] = 30],
     bound |-> IF k.kind = "group" THEN [platform.bound EXCEPT ![k.id] = t] ELSE platform.bound]

\* _finalize_batch_prefix: /consume.
Consume30 ==
    /\ At("consume30")
    /\ LET t == pass.task IN
       \/ /\ Consumable(t, Key)
          /\ platform' = Consumed(t, Key)
          /\ \/ NoFault /\ Goto("report30") /\ UNCHANGED <<event, retries>>
             \/ Fault /\ Abandon
          /\ UNCHANGED <<local, reserved>>
       \/ /\ Fault /\ Abandon                                  \* the request is lost
          /\ UNCHANGED <<platform, local, reserved>>
       \/ /\ platform.task[t] = 10 /\ ~Consumable(t, Key)      \* the group is bound
          /\ IF pass.how = "recovered"
             THEN Close(t, pass, "failure") /\ UNCHANGED retries
             ELSE Abandon /\ UNCHANGED local
          /\ UNCHANGED <<platform, reserved>> /\ NoFault
       \/ /\ platform.task[t] # 10 /\ ~Consumable(t, Key)      \* the task is over
          /\ IF pass.how = "recovered"
             THEN /\ local' = [local EXCEPT ![t] =
                                 Update(@, [@ EXCEPT !.status = "completed_without_send"])]
                  /\ event' = [event EXCEPT ![t] = "platform_completed"]
                  /\ pass' = None
                  /\ UNCHANGED <<retries, reserved>>
             ELSE AlreadyOver
          /\ UNCHANGED platform /\ NoFault
    /\ UNCHANGED <<dispatch, sent, terminal, poll, queue, waiters, recovering>>

\* ... and /service-rule-data.
Report30 ==
    /\ At("report30")
    /\ LET t == pass.task IN
       \/ /\ NoFault
          /\ event' = [event EXCEPT ![t] = "platform_completed"]
          /\ reserved' = reserved \ {t}
          /\ Goto("finish30")
          /\ UNCHANGED retries
       \/ /\ Fault /\ pass' = None
          /\ IF pass.rstat = "none"
             THEN /\ event' = [event EXCEPT ![t] = "platform_failure_rule_data_pending"]
                  /\ UNCHANGED retries
             ELSE Backoff(t)
          /\ UNCHANGED reserved
    /\ UNCHANGED <<local, dispatch, external, terminal, poll, queue, waiters, recovering>>

\* The row is final; the sequence may go on.
Finish30 ==
    /\ At("finish30")
    /\ LET t == pass.task IN
       /\ local' = [local EXCEPT ![t] =
                      IF pass.how = "sent" THEN [@ EXCEPT !.status = "sent"]
                      ELSE [@ EXCEPT !.status = "sent_recovered", !.sentAt = TRUE,
                                     !.resp = IF local[t].unsure THEN "unknown" ELSE "accepted"]]
       /\ Release(t, local[t].held)
    /\ pass' = None
    /\ UNCHANGED <<retries, dispatch, external, terminal, poll, queue, waiters, recovering, faults>>

\* _consume_batch_without_send: /consume without messages.
Consume70 ==
    /\ At("consume70")
    /\ LET t == pass.task IN
       \/ /\ platform.task[t] \in {10, 70}
          /\ platform' = [platform EXCEPT !.task[t] = 70]
          /\ \/ NoFault /\ Goto("report70") /\ UNCHANGED <<event, retries>>
             \/ Fault /\ Abandon
          /\ UNCHANGED <<local, reserved>>
       \/ Fault /\ Abandon /\ UNCHANGED <<platform, local, reserved>>
       \/ platform.task[t] = 30 /\ AlreadyOver /\ UNCHANGED platform /\ NoFault
    /\ UNCHANGED <<dispatch, sent, terminal, poll, queue, waiters, recovering>>

\* ... and /service-rule-data.  The audit written by Close holds no sequence:
\* nothing is released here.
Report70 ==
    /\ At("report70")
    /\ LET t == pass.task
           status == IF local[t].status = "failure_consume_pending"
                     THEN "failed_consumed" ELSE local[t].status
       IN
       /\ local' = [local EXCEPT ![t] = Update(@, [@ EXCEPT !.status = status])]
       /\ \/ /\ NoFault
             /\ event' = [event EXCEPT ![t] = "platform_completed"]
             /\ terminal' = terminal \cup {t}
             /\ UNCHANGED retries
          \/ /\ Fault
             /\ IF pass.rstat = "none"
                THEN /\ event' = [event EXCEPT ![t] = "platform_failure_rule_data_pending"]
                     /\ UNCHANGED retries
                ELSE Backoff(t)
             /\ UNCHANGED terminal
    /\ pass' = None
    /\ UNCHANGED <<dispatch, external, reserved, poll, queue, waiters, recovering>>

----------------------------------------------------------------------------
\* The process stops.  A task it was just persisting may be left without its
\* execution mode (_ensure_local_task: event, row, mode, event status).
Crash ==
    /\ Fault
    /\ Forgotten
    /\ \/ UNCHANGED <<event, local>>
       \/ /\ poll.stage = "persisting"
          /\ \E t \in poll.tasks :
                /\ event[t] = "none"
                /\ event' = [event EXCEPT ![t] = "accepted"]
                /\ local' = [local EXCEPT ![t] = [NoRow EXCEPT !.status = "platform_queued"]]
    /\ UNCHANGED <<retries, dispatch, external>>

Pass ==
    \/ Begin \/ Gate \/ Content \/ Invoke \/ Submit \/ Arrive \/ Answer \/ Reject \/ LoseAnswer
    \/ Record \/ Pending \/ Consume30 \/ Report30 \/ Finish30 \/ Consume70 \/ Report70

Polling == Pull \/ Filter \/ Enqueue
Recovery ==
    \/ \E S \in SUBSET Tasks : Select(S)
    \/ \E w \in recovering : Recover(w)

Next == Polling \/ Dequeue \/ Recovery \/ Pass \/ Crash

Spec == Init /\ [][Next]_vars

\* The loops run, every request has a timeout, and the scan for unfinished
\* tasks takes the least recently touched first, so it reaches each of them.
Fairness ==
    /\ WF_vars(Polling)
    /\ WF_vars(Dequeue \/ Pass \/ \E w \in recovering : Recover(w))
    /\ \A t \in Tasks : SF_vars(\E S \in SUBSET Tasks : t \in S /\ Select(S))

FairSpec == Spec /\ Fairness

----------------------------------------------------------------------------
(* Properties *)

Closed(t) == platform.task[t] # 10

(* A task this side has completed is over for the platform too, whatever    *)
(* was lost, repeated or interrupted between the two.                       *)
CompletedIsClosed == \A t \in Tasks : event[t] = "platform_completed" => Closed(t)

(* A send nobody got to record, because the process stopped or the           *)
(* connection broke, is not made again: as long as a task is open on the     *)
(* platform and its row names no answer, one submission of one content has   *)
(* gone out for it.                                                          *)
Deliveries(t) == {k \in Keys : sent[<<t, k>>] > 0}

LostIsNotRepeated ==
    \A t \in Tasks : ~Closed(t) /\ local[t].resp = "none" =>
        /\ \A j, k \in Deliveries(t) : j = k
        /\ \A k \in Deliveries(t) : sent[<<t, k>>] = 1

\* What the polls leave out, in this process or after its restart.
LeftOut(t) ==
    \/ t \in reserved \cup terminal
    \/ \E u \in Tasks : event[u] \in Restored /\ t \in local[u].held \cup {u}

(* What the polls leave out, the recovery scan finds: the reservations in    *)
(* memory, the rows that restore them and the statuses the scan looks for    *)
(* are three lists that have to agree.  They do but for two cases: a task of *)
(* the removed execution path, and one that was released by one task while   *)
(* another still held it, which is an ordinary task again and still reserved.*)
LeftOutIsFound ==
    \A t \in Tasks : ~Closed(t) /\ LeftOut(t) =>
        FoundAs(t) # "none" \/ event[t] \in {"accepted", "platform_legacy_quarantined"}

\* The second case is for good where the other task is closed without a send:
\* its audit names nobody any more, and so nothing is released (Report70).
Marooned(t) == event[t] = "accepted" /\ LeftOut(t)

(* Every task the platform has open is eventually closed there, or set      *)
(* aside as one of the removed execution path, or marooned until a restart. *)
EveryTaskEnds ==
    \A t \in Tasks :
       <>[](Closed(t) \/ event[t] = "platform_legacy_quarantined" \/ Marooned(t))

(* "Once send_invoked_at is recorded the task, re-entering from recovery or  *)
(* from the ordinary poll, may only finish its consumption; the send must   *)
(* not be called again" (third-party-sop-v3.md): the messages of a task go  *)
(* out once.                                                                *)
InvokedIsNotSentAgain ==
    [][\A t \in Tasks : Deliveries(t) # {} => \A k \in Keys : sent'[<<t, k>>] = sent[<<t, k>>]]_vars
=============================================================================
