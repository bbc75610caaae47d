------------------------------ MODULE Outreach ------------------------------
(***************************************************************************)
(* Silence outreach to one customer: the monitor plans a series of         *)
(* messages to a customer who has opened a conversation and fell silent    *)
(* (first_day.py, planning.py), the executor sends them one by one         *)
(* (execution.py), and the customer's next message cancels what is left    *)
(* (outreach_repository.py).  Plans and tasks are rows that four actors    *)
(* write: the monitor and the executor of the worker process, the reply    *)
(* processes, and the process that takes the delivery receipts.            *)
(*                                                                         *)
(* One step is one transaction or one request.  The conversation and the   *)
(* messaging service are external.  Only the first-day trigger is planned  *)
(* and executed by the worker; its tasks all have before_send_check.       *)
(***************************************************************************)
EXTENDS Naturals, FiniteSets, Sequences

CONSTANTS
    Tasks,      \* pairs of a plan, numbered in the order they are created, and a step
    MaxReplies, \* bound: messages of the customer
    MaxFaults   \* bound: failed or lost requests, and restarts of a process

ASSUME TasksAreNumbered == Tasks \subseteq (Nat \ {0}) \X (Nat \ {0}) /\ IsFiniteSet(Tasks)
ASSUME BoundsAreNumbers == MaxReplies \in Nat /\ MaxFaults \in Nat

VARIABLES
    receipts,    \* message_delivery_callback_required: a setting, never changed
    said,        \* messages the customer has written on the platform, ...
    heard,       \* ... those whose reply call has begun ...
    ended,       \* ... and those whose call ended without a generated reply
    plan,        \* outreach_plans
    task,        \* outreach_tasks: the status of each step
    dispatch,    \* message_dispatches: the submission of each step
    posts,       \* the messages of each step the messaging service took: what the
                 \* customer had written at the time
    monitor,     \* the evaluation of this customer by the monitor
    executor,    \* the execution in progress
    finalizer,   \* the finalization of each step's receipt
    interrupted, \* plans whose execution a restart broke off
    faults

conversation == <<said, heard, ended>>
service == <<dispatch, posts>>
vars == <<receipts, conversation, plan, task, service, monitor, executor, finalizer,
          interrupted, faults>>

Plans == {x[1] : x \in Tasks}
Of(p) == {x \in Tasks : x[1] = p}

PlanStatuses == {"none", "draft", "active", "waiting", "completed", "cancelled"}
Open == {"draft", "active", "waiting"}

TaskStatuses == {"none", "pending", "checking", "sending", "sent", "failed", "skipped"}
Unsent == {"pending", "checking"}
Live == Unsent \cup {"sending"}

\* A plan row: seen is what the customer had said when it was made, doneAt
\* when it was completed.
Rows == [status : PlanStatuses, seen : 0 .. MaxReplies, doneAt : 0 .. MaxReplies]
NoPlan == [status |-> "none", seen |-> 0, doneAt |-> 0]

Confirmed == {"succeeded", "send_failed"}
Submissions == {"none", "submitted", "submission_failed"} \cup Confirmed

\* Where a thread that settles a task is: counting what remains, about to
\* write the plan, or closing a plan that cannot go on.
Settling == {"count", "more", "last", "rest", "cancel"}

Executing == {"listed", "check", "prepare", "send", "posting", "posted"} \cup Settling
Executions == [pc : Executing, task : Tasks]
Idle == [pc |-> "idle", task |-> <<0, 0>>]

Finalizations == {"none", "written", "done"} \cup Settling

\* What the monitor is about to do, for which plan, and what it has read.
Evaluations == [pc : {"idle", "refresh", "generate", "approve"}, plan : Plans \cup {0},
                seen : 0 .. MaxReplies]
Asleep == [pc |-> "idle", plan |-> 0, seen |-> 0]

TypeOK ==
    /\ receipts \in BOOLEAN
    /\ said \in 0 .. MaxReplies /\ heard \in 0 .. said /\ ended \in 0 .. heard
    /\ plan \in [Plans -> Rows]
    /\ task \in [Tasks -> TaskStatuses]
    /\ dispatch \in [Tasks -> Submissions]
    /\ posts \in [Tasks -> Seq(0 .. MaxReplies)]
    /\ monitor \in Evaluations
    /\ executor \in Executions \cup {Idle}
    /\ finalizer \in [Tasks -> Finalizations]
    /\ interrupted \subseteq Plans
    /\ faults \in 0 .. MaxFaults

\* The customer has spoken and was answered; nothing is planned.
Init ==
    /\ receipts \in BOOLEAN
    /\ said = 0 /\ heard = 0 /\ ended = 0
    /\ plan = [p \in Plans |-> NoPlan]
    /\ task = [x \in Tasks |-> "none"]
    /\ dispatch = [x \in Tasks |-> "none"]
    /\ posts = [x \in Tasks |-> <<>>]
    /\ monitor = Asleep /\ executor = Idle
    /\ finalizer = [x \in Tasks |-> "none"]
    /\ interrupted = {}
    /\ faults = 0

Fault == faults < MaxFaults /\ faults' = faults + 1
NoFault == UNCHANGED faults

Mine == executor.task

\* get_active_outreach_plan_for_customer
Active(p) == plan[p].status \in Open /\ \E x \in Of(p) : task[x] \in Live

\* outreach_plan_has_remaining_tasks
HasRemaining(p) == \E x \in Of(p) : task[x] \in Live

\* skip_remaining_outreach_tasks, without the task that is excluded.
SkipRemaining(p, but) ==
    task' = [x \in Tasks |-> IF x \in Of(p) \ {but} /\ task[x] \in Unsent THEN "skipped" ELSE task[x]]

\* update_outreach_plan_status writes whatever the status is.
SetPlan(p, status) ==
    plan' = [plan EXCEPT ![p].status = status,
                         ![p].doneAt = IF status = "completed" THEN said ELSE @]

----------------------------------------------------------------------------
(* The conversation, and the reply processes *)

CustomerWrites ==
    /\ said < MaxReplies
    /\ said' = said + 1
    /\ UNCHANGED <<receipts, heard, ended, plan, task, service, monitor, executor, finalizer,
                   interrupted, faults>>

\* _cancel_outreach_for_customer_reply_in_connection
CancelForReply ==
    LET open == {p \in Plans : plan[p].status \in Open} IN
    /\ plan' = [p \in Plans |-> IF p \in open THEN [plan[p] EXCEPT !.status = "cancelled"] ELSE plan[p]]
    /\ task' = [x \in Tasks |-> IF x[1] \in open /\ task[x] \in Unsent THEN "skipped" ELSE task[x]]

IngressAgain ==
    /\ heard' = heard + 1
    /\ CancelForReply
    /\ UNCHANGED <<receipts, said, ended, service, monitor, executor, finalizer, interrupted, faults>>

\* The ingress transaction of a message of the customer, ...
Ingress ==
    /\ heard < said
    /\ heard' = heard + 1
    /\ CancelForReply
    /\ UNCHANGED <<receipts, said, ended, service, monitor, executor, finalizer, interrupted, faults>>

\* ... and the one that ends its call where no reply is generated (a human
\* took over, the message was filtered or superseded).
EndWithoutReply ==
    /\ ended < heard
    /\ ended' = ended + 1
    /\ CancelForReply
    /\ UNCHANGED <<receipts, said, heard, service, monitor, executor, finalizer, interrupted, faults>>

----------------------------------------------------------------------------
(* The monitor *)

\* Bound: the rows for further plans.
Room == \E p \in Plans : plan[p].status = "none"

\* The customer's active plan ends the evaluation, unless it is a draft that
\* still has to be approved.
Scan ==
    /\ monitor.pc = "idle"
    /\ LET active == {p \in Plans : Active(p)} IN
       \/ active = {} /\ Room /\ monitor' = [pc |-> "refresh", plan |-> 0, seen |-> 0]
       \/ \E p \in active :
             /\ \A q \in active : q <= p
             /\ plan[p].status = "draft"
             /\ monitor' = [pc |-> "approve", plan |-> p, seen |-> 0]
    /\ UNCHANGED <<receipts, conversation, plan, task, service, executor, finalizer, interrupted, faults>>

\* _completed_cycle_blocks_automatic_replan
CycleIsOver == \E p \in Plans : plan[p].status = "completed" /\ plan[p].doneAt = said

\* The conversation is read; any of the other gates may end the evaluation.
Refresh ==
    /\ monitor.pc = "refresh"
    /\ \/ ~CycleIsOver /\ monitor' = [pc |-> "generate", plan |-> 0, seen |-> said]
       \/ monitor' = Asleep
    /\ UNCHANGED <<receipts, conversation, plan, task, service, executor, finalizer, interrupted, faults>>

\* generate_plan: model calls, then create_outreach_plan.
Generate ==
    /\ monitor.pc = "generate"
    /\ \/ \E p \in Plans :
             /\ \A q \in Plans : plan[q].status = "none" <=> q >= p
             /\ plan' = [plan EXCEPT ![p] = [status |-> "draft", seen |-> monitor.seen, doneAt |-> 0]]
             /\ task' = [x \in Tasks |-> IF x \in Of(p) THEN "pending" ELSE task[x]]
             /\ monitor' = [pc |-> "approve", plan |-> p, seen |-> 0]
       \/ monitor' = Asleep /\ UNCHANGED <<plan, task>>
    /\ UNCHANGED <<receipts, conversation, service, executor, finalizer, interrupted, faults>>

\* _auto_approve_plan; if it fails the plan stays a draft.
Approve ==
    /\ monitor.pc = "approve"
    /\ \/ SetPlan(monitor.plan, "active") /\ NoFault
       \/ Fault /\ UNCHANGED plan
    /\ monitor' = Asleep
    /\ UNCHANGED <<receipts, conversation, task, service, executor, finalizer, interrupted>>

----------------------------------------------------------------------------
(* The executor *)

Go(pc) == executor' = [executor EXCEPT !.pc = pc]

DueWhenNoneIsLeftBefore(x) ==
    /\ task[x] = "pending"
    /\ plan[x[1]].status \in {"active", "waiting"}
    /\ \A y \in Of(x[1]) : y[2] < x[2] => task[y] \notin Unsent

\* list_due_first_day_tasks: a step is due when all before it are sent.
Due(x) ==
    /\ task[x] = "pending"
    /\ plan[x[1]].status \in {"active", "waiting"}
    /\ \A y \in Of(x[1]) : y[2] < x[2] => task[y] = "sent"

List ==
    /\ executor.pc = "idle"
    /\ \E x \in Tasks : Due(x) /\ executor' = [pc |-> "listed", task |-> x]
    /\ UNCHANGED <<receipts, conversation, plan, task, service, monitor, finalizer, interrupted, faults>>

\* claim_outreach_task
Claim ==
    /\ executor.pc = "listed"
    /\ IF task[Mine] = "pending"
       THEN task' = [task EXCEPT ![Mine] = "checking"] /\ Go("check")
       ELSE executor' = Idle /\ UNCHANGED task
    /\ UNCHANGED <<receipts, conversation, plan, service, monitor, finalizer, interrupted, faults>>

RepliedAndHeard(p) == heard > plan[p].seen

\* _customer_replied_after_plan, on the conversation read from the platform.
Replied(p) == said > plan[p].seen

\* Give up the plan, beginning with this task.
GiveUp == task' = [task EXCEPT ![Mine] = "skipped"] /\ Go("rest")

\* The gates of execute and _check_send_eligibility: the task may go out, the
\* plan is given up, or a check could not be made and the task is put back.
Check ==
    /\ executor.pc = "check"
    /\ \/ ~Replied(executor.task[1]) /\ Go("prepare") /\ NoFault /\ UNCHANGED task
       \/ GiveUp /\ NoFault
       \/ Fault /\ task' = [task EXCEPT ![Mine] = "pending"] /\ executor' = Idle
    /\ UNCHANGED <<receipts, conversation, plan, service, monitor, finalizer, interrupted>>

\* _prepare_delivery writes the message, by a model call: it may go out, the
\* plan is given up, or the task alone is, when it held nothing but a payment
\* card.
Prepare ==
    /\ executor.pc = "prepare"
    /\ \/ Go("send") /\ UNCHANGED task
       \/ GiveUp
       \/ task' = [task EXCEPT ![Mine] = "skipped"] /\ executor' = Idle
    /\ UNCHANGED <<receipts, conversation, plan, service, monitor, finalizer, interrupted, faults>>

\* _submit_delivery, up to the request.
Submit ==
    /\ executor.pc = "send"
    /\ task' = [task EXCEPT ![Mine] = "sending"]
    /\ dispatch' = [dispatch EXCEPT ![Mine] = "submitted"]
    /\ Go("posting")
    /\ UNCHANGED <<receipts, conversation, plan, posts, monitor, finalizer, interrupted, faults>>

\* The messaging service takes the message; the history keeps two.
Arrive ==
    /\ executor.pc = "posting"
    /\ posts' = [posts EXCEPT ![Mine] = IF Len(@) = 2 THEN @ ELSE Append(@, said)]
    /\ Go("posted")
    /\ UNCHANGED <<receipts, conversation, plan, task, dispatch, monitor, finalizer, interrupted,
                   faults>>

FailAndRetry ==
    /\ executor.pc \in {"prepare", "posting", "posted"}
    /\ Fault
    /\ dispatch' = [dispatch EXCEPT ![Mine] = IF @ = "submitted" THEN "submission_failed" ELSE @]
    /\ task' = [task EXCEPT ![Mine] = "pending"]
    /\ executor' = Idle
    /\ UNCHANGED <<receipts, conversation, plan, posts, monitor, finalizer, interrupted>>

FailAndLeave ==
    /\ executor.pc \in {"prepare", "posting", "posted"}
    /\ Fault
    /\ dispatch' = [dispatch EXCEPT ![Mine] = IF @ = "submitted" THEN "submission_failed" ELSE @]
    /\ task' = [task EXCEPT ![Mine] = "failed"]
    /\ executor' = Idle
    /\ UNCHANGED <<receipts, conversation, plan, posts, monitor, finalizer, interrupted>>

\* An error, before the request or whether or not the message was taken:
\* _record_execution_failure.
Fail ==
    /\ executor.pc \in {"prepare", "posting", "posted"}
    /\ Fault
    /\ dispatch' = [dispatch EXCEPT ![Mine] = IF @ = "submitted" THEN "submission_failed" ELSE @]
    /\ task' = [task EXCEPT ![Mine] = "failed"]
    /\ Go("rest")
    /\ UNCHANGED <<receipts, conversation, plan, posts, monitor, finalizer, interrupted>>

\* An answer, or none in time; a submission that has its receipt keeps it.
\* _finalize_delivery: with receipts the task waits for its own.
Finalize ==
    /\ executor.pc = "posted"
    /\ IF receipts THEN executor' = Idle /\ UNCHANGED task
       ELSE task' = [task EXCEPT ![Mine] = "sent"] /\ Go("count")
    /\ UNCHANGED <<receipts, conversation, plan, service, monitor, finalizer, interrupted, faults>>

----------------------------------------------------------------------------
(* Settling a task: the rest of the plan *)

\* What a thread that settles task x does at pc, and where it is then.
Settle(x, pc, next) ==
  LET p == x[1] IN
    \/ pc = "count" /\ next = (IF HasRemaining(p) THEN "more" ELSE "last") /\ UNCHANGED <<plan, task>>
    \/ pc = "more" /\ next = "end" /\ SetPlan(p, "waiting") /\ UNCHANGED task
    \/ pc = "last" /\ next = "end" /\ SetPlan(p, "completed") /\ UNCHANGED task
    \/ pc = "rest" /\ next = "cancel" /\ SkipRemaining(p, x) /\ UNCHANGED plan
    \/ pc = "cancel" /\ next = "end" /\ SetPlan(p, "cancelled") /\ UNCHANGED task

SettleExecuted ==
    /\ \E next \in Settling \cup {"end"} :
          /\ Settle(Mine, executor.pc, next)
          /\ IF next = "end" THEN executor' = Idle ELSE Go(next)
    /\ UNCHANGED <<receipts, conversation, service, monitor, finalizer, interrupted, faults>>

----------------------------------------------------------------------------
(* The receipts *)

\* A callback, applied to the dispatch.
Receipt(x) ==
    /\ receipts /\ posts[x] # <<>> /\ dispatch[x] \notin Confirmed
    /\ \E outcome \in Confirmed : dispatch' = [dispatch EXCEPT ![x] = outcome]
    /\ UNCHANGED <<receipts, conversation, plan, task, posts, monitor, executor, finalizer,
                   interrupted, faults>>

\* finalize_message_delivery, up to the task.
FinalizeReceipt(x) ==
    /\ dispatch[x] \in Confirmed /\ finalizer[x] = "none"
    /\ LET ok == dispatch[x] = "succeeded" IN
       /\ task' = [task EXCEPT ![x] = IF ok THEN "sent" ELSE "failed"]
       /\ finalizer' = [finalizer EXCEPT ![x] = IF ok THEN "count" ELSE "rest"]
    /\ UNCHANGED <<receipts, conversation, plan, service, monitor, executor, interrupted, faults>>

SettleReceipt(x) ==
    /\ \E next \in Settling \cup {"end"} :
          /\ Settle(x, finalizer[x], next)
          /\ finalizer' = [finalizer EXCEPT ![x] = IF next = "end" THEN "written" ELSE next]
    /\ UNCHANGED <<receipts, conversation, service, monitor, executor, interrupted, faults>>

MarkFinalized(x) ==
    /\ finalizer[x] = "written"
    /\ finalizer' = [finalizer EXCEPT ![x] = "done"]
    /\ UNCHANGED <<receipts, conversation, plan, task, service, monitor, executor, interrupted, faults>>

----------------------------------------------------------------------------
\* The worker process stops.
WorkerCrash ==
    /\ Fault
    /\ monitor' = Asleep /\ executor' = Idle
    /\ interrupted' = interrupted \cup ({Mine[1]} \ {0})
    /\ UNCHANGED <<receipts, conversation, plan, task, service, finalizer>>

\* The process of the callbacks stops: the platform repeats those it did not
\* answer.
CallbackCrash ==
    /\ Fault
    /\ finalizer' = [x \in Tasks |-> IF finalizer[x] = "done" THEN "done" ELSE "none"]
    /\ UNCHANGED <<receipts, conversation, plan, task, service, monitor, executor, interrupted>>

Conversing == CustomerWrites \/ Ingress \/ EndWithoutReply
Monitoring == Scan \/ Refresh \/ Generate \/ Approve
Execute ==
    \/ List \/ Claim \/ Check \/ Prepare \/ Submit \/ Arrive \/ Fail \/ Finalize \/ SettleExecuted
Finalizing(x) == FinalizeReceipt(x) \/ SettleReceipt(x) \/ MarkFinalized(x)

Next ==
    \/ Conversing \/ Monitoring \/ Execute
    \/ \E x \in Tasks : Receipt(x) \/ Finalizing(x)
    \/ WorkerCrash \/ CallbackCrash

Spec == Init /\ [][Next]_vars

\* The executor's loop runs, and a callback is repeated until it is answered.
\* Nothing is assumed of the customer, and no receipt has to come.
Fairness ==
    /\ WF_vars(Execute)
    /\ \A x \in Tasks : WF_vars(Finalizing(x))

FairSpec == Spec /\ Fairness

----------------------------------------------------------------------------
(* Properties *)

Posted(x) == Len(posts'[x]) > Len(posts[x])

\* No step of a plan is sent twice, whatever fails: neither a claim taken a
\* second time, a lost answer, a restart nor a late receipt leads the executor
\* back to a step it has handed over.
PostedOnce == \A x \in Tasks : Len(posts[x]) <= 1

\* A step is sent only when the customer has all the steps before it; where
\* receipts are required, only when each of them was confirmed.  A step that
\* failed, was skipped or still waits for its receipt stops those after it.
InOrder ==
    [][\A x \in Tasks : Posted(x) =>
          \A y \in Of(x[1]) : y[2] < x[2] =>
             posts[y] # <<>> /\ (receipts => dispatch[y] = "succeeded")]_vars

\* Once the customer has written again, at most one more message of the plan
\* reaches them, the one whose checks were made before they wrote.  The rows
\* do not give this: the reply's cancellation, a failed check and the receipt
\* of an earlier step overwrite each other's task and plan status.
OneAfterReply ==
    \A p \in Plans :
       Cardinality({x \in Of(p) : \E i \in DOMAIN posts[x] : posts[x][i] > plan[p].seen}) <= 1

Running(p) == plan[p].status \in {"active", "waiting"} /\ HasRemaining(p)
Unconfirmed(p) == \E x \in Of(p) : task[x] = "sending"
Stranded(p) == \E x, y \in Of(p) : x[2] < y[2] /\ task[x] = "skipped" /\ task[y] = "pending"

\* A step of the plan may be taken up, or a thread is at work on one, or a
\* callback that is not answered yet will be repeated.
Moving(p) ==
    \/ \E x \in Of(p) : Due(x) \/ (dispatch[x] \in Confirmed /\ finalizer[x] # "done")
    \/ executor.pc # "idle" /\ Mine[1] = p

\* A plan that runs never stands still: whatever the reply's cancellation, the
\* executor and a receipt wrote over each other, a step of it can be taken up or
\* somebody works on it.  The three exceptions are those of ActivePlanEnds.
NoPlanIsStuck ==
    \A p \in Plans : Running(p) =>
       p \in interrupted \/ Unconfirmed(p) \/ Stranded(p) \/ Moving(p)

\* A plan that runs comes to an end.  Three things hold it open in the code,
\* and a plan with tasks left keeps the customer from further plans: a restart
\* in the middle of its execution, a receipt that does not come, and a step
\* skipped alone because it held nothing but a payment card.
ActivePlanEnds ==
    \A p \in Plans : <>[](~Running(p) \/ p \in interrupted \/ Unconfirmed(p) \/ Stranded(p))
=============================================================================
