----------------------------- MODULE SopTaskRow -----------------------------
(***************************************************************************)
(* The two durable rows of a third-party SOP task: its event in sop_events *)
(* and its execution record in sop_send_tasks, with the audit the recovery *)
(* of an interrupted task works from (send_payload_json).                  *)
(***************************************************************************)
EXTENDS Naturals

CONSTANTS
    Tasks,       \* platform tasks of one customer, numbered in scheduled order
    Groups,      \* content groups of /sop-messages, numbered in platform order
    OwnContent,  \* tasks that may carry their content in /pending
    None

ASSUME TasksAreNumbers == Tasks \subseteq Nat \ {0}
ASSUME GroupsAreNumbers == Groups \subseteq Nat \ {0}
ASSUME OwnContentAreTasks == OwnContent \subseteq Tasks

\* The delivery idempotency key: sop_platform_message:{msgId}, or
\* sop_platform_task_content:{taskId} for content that came with the task.
Keys == [kind : {"group"}, id : Groups] \cup [kind : {"task"}, id : OwnContent]

----------------------------------------------------------------------------
Recoverable ==                                 \* RECOVERY_STATUSES
    {"platform_queued", "platform_processing", "platform_processing_retry",
     "platform_complete_pending", "platform_sequence_waiting",
     "platform_failure_rule_data_pending"}

EventStatuses == Recoverable \cup
    {"none", "accepted", "platform_completed", "platform_failed",
     "platform_legacy_quarantined"}

\* What a poll reserves again before it pulls (_restore_reserved_prefix_ids).
Restored == {"platform_processing", "platform_complete_pending",
             "platform_failure_rule_data_pending", "platform_failed"}

SentStatuses == {"sent", "sent_recovered"}
DoneStatuses == SentStatuses \cup {"completed_without_send", "failed_consumed"}

Rows ==
    [status  : DoneStatuses \cup {"none", "platform_queued", "sending", "processing_retry",
                                  "failure_consume_pending", "send_failed"},
     mode    : {"none", "gate", "no_send", "failure"},   \* processing_mode
     invoked : BOOLEAN,                                  \* send_invoked_at
     unsure  : BOOLEAN,                                  \* send_result_unconfirmed
     content : Keys \cup {None},                         \* content_message_results
     close   : {0, 30, 70},                              \* terminal_task_status
     held    : SUBSET Tasks,                             \* sequence_reserved_task_ids
     sentAt  : BOOLEAN,
     resp    : {"none", "accepted", "unknown"}]          \* delivery_status of send_response

NoRow == [status |-> "none", mode |-> "none", invoked |-> FALSE, unsure |-> FALSE,
          content |-> None, close |-> 0, held |-> {}, sentAt |-> FALSE, resp |-> "none"]

\* _has_successful_send_evidence
SendEvidence(r) == r.resp = "accepted" \/ (r.status \in SentStatuses /\ r.sentAt)

\* update_sop_send_task: a row with evidence of a sending is not downgraded.
Update(r, new) ==
    IF SendEvidence(r) /\ new.status \notin SentStatuses
    THEN [r EXCEPT !.status = IF @ \in SentStatuses THEN @ ELSE "sent"]
    ELSE new

=============================================================================
