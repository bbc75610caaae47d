----------------------------- MODULE DispatchRow -----------------------------
(***************************************************************************)
(* One row of message_dispatches with its items and the delivery events    *)
(* applied to it: the durable record of one proactive send, found by its   *)
(* idempotency key.  Every operator below that primes a variable is one    *)
(* transaction of the repository, or the write half of one that reads the  *)
(* status first and is not locked in between (RecordSubmission).           *)
(***************************************************************************)
EXTENDS FiniteSets

CONSTANTS
    Messages,  \* the client_message_ids of the batch
    Replies,   \* payloads a sender may prepare
    NoReply

ASSUME MessagesInBatch == IsFiniteSet(Messages) /\ Messages # {}
ASSUME NoReplyIsFresh == NoReply \notin Replies

VARIABLES
    dispatch,  \* the row and its items
    applied    \* message_delivery_events

Terminal == {"send_succeeded", "send_failed", "partial_failed"}

\* May have reached the platform and has no receipt yet.
Pending == {"submitting", "platform_accepted", "submission_unknown", "sending"}

DispatchStatuses == Terminal \cup Pending \cup {"absent", "created", "submission_failed"}

ItemTerminal == {"send_succeeded", "send_failed"}

ItemStatuses == ItemTerminal \cup {"created", "sending"}

Dispatches ==
    [status    : DispatchStatuses,
     reply     : Replies \cup {NoReply},
     items     : [Messages -> ItemStatuses],
     finalized : BOOLEAN]

\* A MessageDeliveryCallback; equal events carry the same event_id.
Events ==
    [status : Terminal \cup {"sending"},
     items  : UNION {[part -> ItemTerminal \cup {"sending"}] : part \in SUBSET Messages}]

NoDispatch == [status |-> "absent", reply |-> NoReply,
               items |-> [m \in Messages |-> "created"], finalized |-> FALSE]

----------------------------------------------------------------------------
(* The sender's side *)

\* create_message_dispatch: INSERT OR IGNORE on the idempotency key.
Create(reply) ==
    /\ dispatch.status = "absent"
    /\ dispatch' = [NoDispatch EXCEPT !.status = "created", !.reply = reply]
    /\ UNCHANGED applied

\* Mutant of RecordSubmission: no test of the status that was read.
RecordAlways(read, status) ==
    dispatch' = [dispatch EXCEPT !.status = status] /\ UNCHANGED applied

\* update_message_dispatch_submission, its UPDATE: `read` is what its SELECT saw.
RecordSubmission(read, status) ==
    /\ dispatch' = IF read \in Terminal THEN dispatch
                   ELSE [dispatch EXCEPT !.status = status]
    /\ UNCHANGED applied

----------------------------------------------------------------------------
(* The callback's side *)

Reported(e) == DOMAIN e.items

\* _apply_delivery_items
ItemsAfter(e) ==
    [m \in Messages |->
        IF m \in Reported(e) THEN e.items[m]
        ELSE IF Reported(e) = {} /\ e.status \in ItemTerminal THEN e.status
        ELSE dispatch.items[m]]

\* Mutant of Aggregate: trusts the status of the callback.
AggregateTrusting(items, status) == status

\* _delivery_summary and _aggregate_delivery_status
Aggregate(items, status) ==
    LET Having(s) == {m \in Messages : items[m] = s}
    IN  CASE Having("send_succeeded") = Messages -> "send_succeeded"
          [] Having("send_failed") = Messages -> "send_failed"
          [] Having("send_succeeded") # {} /\ Having("send_failed") # {} -> "partial_failed"
          [] OTHER -> status

\* The checks of accept_callback that reject an event before it is stored.
Malformed(e) ==
    \/ e.status = "partial_failed" /\ Reported(e) = {}
    \/ e.status \in Terminal /\ Reported(e) \notin {{}, Messages}

\* A terminal item or batch that the event would change: 409, rolled back.
Contradicts(e) ==
    \/ \E m \in Reported(e) :
          dispatch.items[m] \in ItemTerminal /\ dispatch.items[m] # e.items[m]
    \/ /\ dispatch.status \in Terminal
       /\ Aggregate(ItemsAfter(e), e.status) # dispatch.status

Rejects(e) == Malformed(e) \/ (e \notin applied /\ Contradicts(e))

\* apply_message_delivery_event: a repeated event changes nothing.
ApplyEvent(e) ==
    /\ ~Rejects(e)
    /\ applied' = applied \cup {e}
    /\ dispatch' = IF e \in applied THEN dispatch
                   ELSE [dispatch EXCEPT !.items = ItemsAfter(e),
                                         !.status = Aggregate(ItemsAfter(e), e.status)]

MarkFinalized == dispatch' = [dispatch EXCEPT !.finalized = TRUE] /\ UNCHANGED applied
=============================================================================
