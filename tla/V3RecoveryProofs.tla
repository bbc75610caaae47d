-------------------------- MODULE V3RecoveryProofs --------------------------
(***************************************************************************)
(* TypeOK, SentOnce, NoSecondAnswer, CancelledNeverSent,                   *)
(* RecoveredIsDelivered, FinalizedIsSettled and StagedIsReconciled, and    *)
(* from them that recovery with delivery implements RecoverOnce: for every *)
(* set of calls, messages and payloads, every number of attempts and every *)
(* bound on the faults and the callbacks in flight.                        *)
(***************************************************************************)
EXTENDS V3Recovery, TLAPS

Active == WorkerPcs \ {"idle", "claim"}

\* After a lookup that found no dispatch, and before one is created.
Looked == {"gate1", "generate", "gate2", "lookup2", "send", "cancel"}

Recordable == {"submitting", "platform_accepted", "submission_unknown", "submission_failed"}

Delivered == \A m \in Messages : outcome[m] = "send_succeeded"

Agrees(status) == status \in Terminal /\ (status = "send_succeeded" <=> Delivered)

\* Where the run ends once the receipt is in.
Final == IF Delivered THEN "recovered" ELSE "manual_review"

\* What the platform has, and what the worker is about to hand over.
Sending ==
    /\ posts \in {0, 1} /\ (posts = 0 <=> outcome = NoOutcome)
    /\ dispatch.status \in {"absent", "created"} => posts = 0
    /\ \A w \in Workers :
          /\ pc[w] \in Looked => dispatch.status = "absent"
          /\ pc[w] \in {"record", "recording"} =>
                /\ verdict[w] \in Recordable
                /\ verdict[w] = "submitting" => posts = 0 /\ dispatch.status = "created"
          /\ pc[w] = "recording" /\ verdict[w] = "submitting" => saw[w] = "created"
          /\ pc[w] = "post" => posts = 0 /\ dispatch.status = "submitting"

\* Before anything was posted there is no receipt anywhere.
Quiet ==
    posts = 0 => /\ mail = {} /\ hpc = "idle"
                 /\ dispatch.status \notin Terminal /\ ~dispatch.finalized
                 /\ \A m \in Messages : dispatch.items[m] = "created"

\* Every receipt says what happened.
Truth ==
    /\ \A m \in Messages : dispatch.items[m] \in ItemTerminal => dispatch.items[m] = outcome[m]
    /\ mail \subseteq Notices \cup {Report}
    /\ dispatch.status \in Terminal => Agrees(dispatch.status)
    /\ \A w \in Workers : pc[w] \in {"settle", "settling"} => posts = 1 /\ Agrees(verdict[w])
    /\ hpc \in {"find", "settling", "mark"} => Agrees(receipt)

\* What the run row says meanwhile.
Run ==
    /\ row.status = "generating" => row.snap = None
    /\ row.status # "completed" => row.snap = None \/ row.snap.kind = "fallback"
    /\ posts = 1 => row.status \in Finalizable
    /\ \A w \in Workers : pc[w] \in Active =>
          /\ posts = 0 => Claimed
          /\ Open => ~row.dispatch
    /\ hpc = "mark" \/ dispatch.finalized => row.status = Final

IInv == TypeOK /\ Sending /\ Quiet /\ Truth /\ Run /\ RecoveredIsDelivered

-----------------------------------------------------------------------------
(* The worker *)

(* There is one worker, so what a step does to it is all it does. *)
LEMMA TheWorker ==
    ASSUME NEW w \in Workers, NEW f, NEW S, f \in [Workers -> S], NEW x \in S
    PROVE  /\ [f EXCEPT ![w] = x] \in [Workers -> S]
           /\ \A v \in Workers : v = w /\ [f EXCEPT ![w] = x][v] = x
  BY OneWorker

LEMMA GotoTo ==
    ASSUME TypeOK, NEW w \in Workers, NEW where \in WorkerPcs, Goto(w, where)
    PROVE  /\ pc' \in [Workers -> WorkerPcs] /\ reply' = reply /\ verdict' = verdict /\ saw' = saw
           /\ \A v \in Workers : v = w /\ pc'[v] = where
  BY TheWorker DEF TypeOK, Goto

LEMMA GotoWithTo ==
    ASSUME TypeOK, NEW w \in Workers, NEW where \in WorkerPcs, NEW status \in DispatchStatuses,
           GotoWith(w, where, status)
    PROVE  /\ pc' \in [Workers -> WorkerPcs] /\ verdict' \in [Workers -> DispatchStatuses]
           /\ reply' = reply /\ saw' = saw
           /\ \A v \in Workers : v = w /\ pc'[v] = where /\ verdict'[v] = status
  BY TheWorker DEF TypeOK, GotoWith

LEMMA DoneTo ==
    ASSUME TypeOK, NEW w \in Workers, Done(w)
    PROVE  /\ pc' \in [Workers -> WorkerPcs] /\ verdict' \in [Workers -> DispatchStatuses]
           /\ reply' \in [Workers -> Replies \cup {NoReply}]
           /\ saw' \in [Workers -> DispatchStatuses \cup Statuses]
           /\ \A v \in Workers : v = w /\ pc'[v] = "idle"
<1> "idle" \in WorkerPcs /\ "absent" \in DispatchStatuses
    BY DEF WorkerPcs, DispatchStatuses
<1>1. pc' \in [Workers -> WorkerPcs] /\ \A v \in Workers : v = w /\ pc'[v] = "idle"
      BY TheWorker DEF TypeOK, Done
<1>2. verdict' \in [Workers -> DispatchStatuses]
      BY TheWorker DEF TypeOK, Done
<1>3. reply' \in [Workers -> Replies \cup {NoReply}]
      BY TheWorker DEF TypeOK, Done
<1>4. saw' \in [Workers -> DispatchStatuses \cup Statuses]
      BY TheWorker DEF TypeOK, Done
<1> QED BY <1>1, <1>2, <1>3, <1>4

-----------------------------------------------------------------------------
(* The run row *)

(* What the steps of a claim, of a receipt and of the reply process do. *)
LEMMA RowTyped ==
    ASSUME row \in Rows,
           \/ Escalate \/ Claim \/ Retry \/ Cancel \/ ManualReview \/ Stage
           \/ ReapStale \/ DeadlinePasses
           \/ \E old, got : Settle(old, got)
           \/ \E c \in Calls, kind \in Kinds : SavePrimary([by |-> c, kind |-> kind], TRUE)
           \/ \E c \in Calls : Reclaim(c)
    PROVE  row' \in Rows
<1> USE DEF Rows, Statuses
<1>1. CASE Escalate \/ Retry \/ Cancel \/ ManualReview
      BY <1>1 DEF Escalate, Retry, Cancel, ManualReview, ToReview
<1>6. CASE Stage
      BY <1>6 DEF Stage
<1>2. CASE Claim
  <2>1. row.attempts + 1 \in 0 .. MaxAttempts
        BY <1>2, MaxAttemptsPositive DEF Claim, Claimable, Exhausted
  <2> QED BY <1>2, <2>1 DEF Claim
<1>3. CASE ReapStale \/ DeadlinePasses \/ \E c \in Calls : Reclaim(c)
      BY <1>3 DEF ReapStale, DeadlinePasses, Reclaim
<1>4. CASE \E old, got : Settle(old, got)
      BY <1>4 DEF Settle, Settled
<1>5. CASE \E c \in Calls, kind \in Kinds : SavePrimary([by |-> c, kind |-> kind], TRUE)
  <2>1. PICK c \in Calls, kind \in Kinds : SavePrimary([by |-> c, kind |-> kind], TRUE)
        BY <1>5
  <2> DEFINE p == [by |-> c, kind |-> kind]
  <2>2. p \in Payloads /\ SavedStatus(p.kind, TRUE) \in {"fallback_pending", "completed"}
        BY DEF Payloads, SavedStatus
  <2>3. row' = [row EXCEPT !.status = SavedStatus(p.kind, TRUE), !.owner = None, !.due = FALSE,
                           !.snap = p]
        BY <2>1 DEF SavePrimary
  <2> HIDE DEF p
  <2> QED BY <2>2, <2>3
<1> QED BY <1>1, <1>2, <1>3, <1>4, <1>5, <1>6

(* A run leaves generating with the answer of its owner or with none, and after
   that only a receipt moves it on from recovered and manual_review. *)
LEMMA AnswerStays ==
    ASSUME row \in Rows,
           row.status = "generating" => row.snap = None,
           row.status # "completed" => row.snap = None \/ row.snap.kind = "fallback",
           \/ Escalate \/ Claim \/ Retry \/ Cancel \/ ManualReview \/ Stage
           \/ ReapStale \/ DeadlinePasses
           \/ \E old \in Finalizable : \E got : Settle(old, got)
           \/ \E c \in Calls, kind \in Kinds : SavePrimary([by |-> c, kind |-> kind], TRUE)
           \/ \E c \in Calls : row.status = "generating" /\ Reclaim(c)
    PROVE  /\ row'.status = "generating" => row'.snap = None
           /\ row'.status # "completed" => row'.snap = None \/ row'.snap.kind = "fallback"
<1> USE DEF Rows, Statuses
<1>1. CASE Escalate \/ Claim \/ Retry \/ Cancel \/ ManualReview \/ Stage
      BY <1>1 DEF Escalate, Claim, Claimable, MustEscalate, Retry, Cancel, ManualReview, Stage,
                  ToReview, Open, Claimed
<1>2. CASE ReapStale \/ DeadlinePasses \/ \E c \in Calls : row.status = "generating" /\ Reclaim(c)
      BY <1>2 DEF ReapStale, DeadlinePasses, Reclaim
<1>3. CASE \E old \in Finalizable : \E got : Settle(old, got)
      BY <1>3 DEF Settle, Settled, Finalizable
<1>4. CASE \E c \in Calls, kind \in Kinds : SavePrimary([by |-> c, kind |-> kind], TRUE)
      BY <1>4 DEF SavePrimary, SavedStatus, Kinds
<1> QED BY <1>1, <1>2, <1>3, <1>4

-----------------------------------------------------------------------------
(* The dispatch row and its receipts *)

(* The messages of a batch have an outcome of their own once they are posted. *)
LEMMA OutcomeIsNew == NoOutcome \notin [Messages -> ItemTerminal]
  BY MessagesInBatch DEF NoOutcome, ItemTerminal

LEMMA EventsTyped ==
    ASSUME outcome \in [Messages -> ItemTerminal]
    PROVE  Notices \subseteq Events /\ Report \in Events
<1>1. \A part \in SUBSET Messages :
         [m \in part |-> outcome[m]] \in [part -> ItemTerminal \cup {"sending"}]
      OBVIOUS
<1>2. ASSUME NEW part \in SUBSET Messages
      PROVE  [m \in part |-> outcome[m]]
                \in UNION {[p -> ItemTerminal \cup {"sending"}] : p \in SUBSET Messages}
      BY <1>1
<1>3. Notices \subseteq Events
      BY <1>2 DEF Notices, Events
<1>4. outcome \in UNION {[p -> ItemTerminal \cup {"sending"}] : p \in SUBSET Messages}
  <2>1. outcome \in [Messages -> ItemTerminal \cup {"sending"}]
        OBVIOUS
  <2> QED BY <2>1
<1>5. Report.status \in Terminal /\ Report.items = outcome
      BY DEF Report, Terminal
<1>6. Report = [status |-> Report.status, items |-> Report.items]
      BY DEF Report
<1>7. Report \in Events
      BY <1>4, <1>5, <1>6 DEF Events
<1> QED BY <1>3, <1>7

LEMMA ReportAgrees ==
    ASSUME outcome \in [Messages -> ItemTerminal]
    PROVE  Agrees(Report.status)
  BY MessagesInBatch DEF Agrees, Delivered, Report, Terminal

(* The dispatch row stays typed under each of its transactions. *)
LEMMA DispatchTyped ==
    ASSUME dispatch \in Dispatches, applied \subseteq Events,
           \/ \E r \in Replies \cup {NoReply} : Create(r)
           \/ \E old, status \in DispatchStatuses : RecordSubmission(old, status)
           \/ MarkFinalized
           \/ \E e \in Events : ApplyEvent(e)
    PROVE  dispatch' \in Dispatches /\ applied' \subseteq Events
<1>1. CASE \E r \in Replies \cup {NoReply} : Create(r)
  <2>1. PICK r \in Replies \cup {NoReply} : dispatch' = [NoDispatch EXCEPT !.status = "created", !.reply = r]
        BY <1>1 DEF Create
  <2>2. NoDispatch \in Dispatches
        BY DEF NoDispatch, Dispatches, DispatchStatuses, ItemStatuses
  <2> QED BY <1>1, <2>1, <2>2 DEF Create, Dispatches, DispatchStatuses
<1>2. CASE \E old, status \in DispatchStatuses : RecordSubmission(old, status)
      BY <1>2 DEF RecordSubmission, Dispatches
<1>3. CASE MarkFinalized
      BY <1>3 DEF MarkFinalized, Dispatches
<1>4. ASSUME NEW e \in Events, ApplyEvent(e)
      PROVE  dispatch' \in Dispatches /\ applied' \subseteq Events
  <2>1. e.status \in Terminal \cup {"sending"}
        BY DEF Events
  <2>2. \A m \in Reported(e) : e.items[m] \in ItemStatuses
        BY DEF Events, Reported, ItemStatuses
  <2>3. ItemsAfter(e) \in [Messages -> ItemStatuses]
        BY <2>1, <2>2 DEF ItemsAfter, Dispatches, ItemStatuses
  <2>4. Aggregate(ItemsAfter(e), e.status) \in DispatchStatuses
        BY <2>1 DEF Aggregate, DispatchStatuses, Pending, Terminal
  <2> QED BY <1>4, <2>3, <2>4 DEF ApplyEvent, Dispatches
<1> QED BY <1>1, <1>2, <1>3, <1>4

(* A truthful callback leaves a truthful dispatch, whatever it repeats. *)
LEMMA AppliedIsTrue ==
    ASSUME dispatch \in Dispatches, outcome \in [Messages -> ItemTerminal], Truth,
           NEW e \in Notices \cup {Report}, ApplyEvent(e)
    PROVE  /\ \A m \in Messages : dispatch'.items[m] \in ItemTerminal => dispatch'.items[m] = outcome[m]
           /\ dispatch'.status \in Terminal => Agrees(dispatch'.status)
           /\ dispatch'.status \in Terminal \cup {"sending"} \/ dispatch' = dispatch
           /\ dispatch'.finalized = dispatch.finalized
<1>1. CASE e \in applied
      BY <1>1 DEF ApplyEvent, Truth
<1>2. CASE e \notin applied
  <2>1. /\ e.status = "sending" \/ (e.status = Report.status /\ e.items = outcome)
        /\ \A m \in Reported(e) : e.items[m] = outcome[m]
        /\ e.status # "sending" => Reported(e) = Messages
        BY DEF Notices, Report, Reported
  <2>2. dispatch'.items = ItemsAfter(e) /\ dispatch'.status = Aggregate(ItemsAfter(e), e.status)
        /\ dispatch'.finalized = dispatch.finalized
        BY <1>2 DEF ApplyEvent, Dispatches
  <2>3. ASSUME NEW m \in Messages
        PROVE  ItemsAfter(e)[m] \in ItemTerminal => ItemsAfter(e)[m] = outcome[m]
        BY <2>1 DEF ItemsAfter, Truth, ItemTerminal
  <2>4. CASE \A m \in Messages : ItemsAfter(e)[m] = "send_succeeded"
    <3>1. /\ {m \in Messages : ItemsAfter(e)[m] = "send_succeeded"} = Messages
          /\ {m \in Messages : ItemsAfter(e)[m] = "send_failed"} = {}
          BY <2>4
    <3>2. Aggregate(ItemsAfter(e), e.status) = "send_succeeded"
          BY <3>1, MessagesInBatch DEF Aggregate
    <3>3. Delivered
          BY <2>3, <2>4 DEF Delivered, ItemTerminal
    <3> QED BY <2>2, <2>3, <3>2, <3>3 DEF Agrees, Terminal
  <2>5. CASE \E m \in Messages : ItemsAfter(e)[m] # "send_succeeded"
    <3> DEFINE status == Aggregate(ItemsAfter(e), e.status)
    <3>1. \/ status = "send_failed" /\ \A m \in Messages : ItemsAfter(e)[m] = "send_failed"
          \/ status = "partial_failed" /\ \E m \in Messages : ItemsAfter(e)[m] = "send_failed"
          \/ status = e.status
          BY <2>5 DEF Aggregate
    <3>2. CASE status # e.status
      <4>1. ~Delivered
            BY <3>1, <3>2, <2>3, MessagesInBatch DEF Delivered, ItemTerminal
      <4> QED BY <2>2, <2>3, <3>1, <3>2, <4>1 DEF Agrees, Terminal
    <3>3. CASE status = e.status
          BY <2>1, <2>2, <2>3, <3>3, ReportAgrees DEF Agrees, Terminal
    <3> QED BY <3>2, <3>3
  <2> QED BY <2>4, <2>5
<1> QED BY <1>1, <1>2

-----------------------------------------------------------------------------
(* Types *)

LEMMA InitTypeOK == Init => TypeOK
<1> SUFFICES ASSUME Init PROVE TypeOK
    OBVIOUS
<1>1. row \in Rows
  <2>1. PICK c \in Calls : row = [NoRow EXCEPT !.status = "generating", !.owner = c]
        BY DEF Init
  <2>2. NoRow \in Rows
        BY MaxAttemptsPositive DEF NoRow, Rows, Statuses
  <2> QED BY <2>1, <2>2 DEF Rows, Statuses
<1>2. dispatch \in Dispatches
      BY DEF Init, NoDispatch, Dispatches, DispatchStatuses, ItemStatuses
<1>3. /\ pc \in [Workers -> WorkerPcs] /\ reply \in [Workers -> Replies \cup {NoReply}]
      /\ verdict \in [Workers -> DispatchStatuses]
      /\ saw \in [Workers -> DispatchStatuses \cup Statuses]
      BY DEF Init, WorkerPcs, DispatchStatuses
<1>4. /\ applied \subseteq Events /\ mail \subseteq Events /\ blocked \in BOOLEAN
      /\ outcome \in [Messages -> ItemTerminal] \cup {NoOutcome}
      BY DEF Init
<1>6. posts \in Nat /\ faults \in 0 .. MaxFaults
  <2>1. posts = 0 /\ faults = 0
        BY DEF Init
  <2> QED BY <2>1, FaultBound
<1>5. /\ hpc \in HandlerPcs /\ event \in Events \cup {NoEvent} /\ receipt \in DispatchStatuses
      /\ read \in Statuses
      BY DEF Init, HandlerPcs, DispatchStatuses, Statuses
<1> QED BY <1>1, <1>2, <1>3, <1>4, <1>5, <1>6 DEF TypeOK

LEMMA WorkerTyped ==
    ASSUME TypeOK, NEW w \in Workers, WorkerStep(w)
    PROVE  TypeOK'
<1> USE DEF WorkerPcs, WorkerStep
<1> DEFINE Worker == /\ pc' \in [Workers -> WorkerPcs]
                     /\ reply' \in [Workers -> Replies \cup {NoReply}]
                     /\ verdict' \in [Workers -> DispatchStatuses]
                     /\ saw' \in [Workers -> DispatchStatuses \cup Statuses]
           Row == row' \in Rows
           Store == dispatch' \in Dispatches /\ applied' \subseteq Events
           World == posts' \in Nat /\ outcome' \in [Messages -> ItemTerminal] \cup {NoOutcome}
<1> SUFFICES Worker /\ Row /\ Store /\ World
    BY DEF TypeOK, handlerVars
<1>a. dispatch.status \in DispatchStatuses /\ row.status \in Statuses
      BY DEF TypeOK, Dispatches, Rows
<1>b. ASSUME NEW where \in WorkerPcs, Goto(w, where) PROVE Worker
      BY <1>b, GotoTo DEF TypeOK
<1>c. ASSUME NEW where \in WorkerPcs, NEW status \in DispatchStatuses, GotoWith(w, where, status)
      PROVE  Worker
      BY <1>c, GotoWithTo DEF TypeOK
<1>d. ASSUME Done(w) PROVE Worker
      BY <1>d, DoneTo
<1>e. ASSUME RowOnly PROVE Store /\ World
      BY <1>e DEF RowOnly, TypeOK
<1>f. ASSUME NoStore PROVE Row /\ Store /\ World
      BY <1>f DEF NoStore, TypeOK
<1>1. CASE Poll(w)
  <2>1. Row
        BY <1>1, RowTyped DEF Poll, TypeOK
  <2> QED BY <1>1, <1>b, <1>e, <2>1 DEF Poll
<1>2. CASE ClaimBatch(w)
  <2>1. Row
        BY <1>2, RowTyped DEF ClaimBatch, TypeOK
  <2> QED BY <1>2, <1>b, <1>d, <1>e, <2>1 DEF ClaimBatch
<1>3. CASE Lookup(w)
  <2>1. Worker
        BY <1>3, <1>a, <1>b, <1>c DEF Lookup, Reconcile
  <2> QED BY <1>3, <1>f, <2>1 DEF Lookup
<1>4. CASE Gate(w)
  <2>1. Worker
        BY <1>4, <1>b DEF Gate
  <2> QED BY <1>4, <1>f, <2>1 DEF Gate
<1>5. CASE Generate(w)
  <2>1. ASSUME NEW r \in Replies, reply' = [reply EXCEPT ![w] = r],
               pc' = [pc EXCEPT ![w] = "gate2"], UNCHANGED <<verdict, saw>>
        PROVE  Worker
        BY <2>1, TheWorker DEF TypeOK
  <2>2. Worker
        BY <1>5, <1>b, <2>1 DEF Generate
  <2> QED BY <1>5, <1>f, <2>2 DEF Generate
<1>6. CASE Prepare(w)
  <2>1. Worker
    <3> "submitting" \in DispatchStatuses /\ "send_succeeded" \in DispatchStatuses
        BY DEF DispatchStatuses, Pending, Terminal
    <3> QED BY <1>6, <1>b, <1>c DEF Prepare
  <2>2. reply[w] \in Replies \cup {NoReply}
        BY DEF TypeOK
  <2>3. (dispatch' = dispatch /\ applied' = applied) \/ Create(reply[w])
        BY <1>6 DEF Prepare
  <2>4. Store
        BY <2>2, <2>3, DispatchTyped DEF TypeOK
  <2> QED BY <1>6, <2>1, <2>4 DEF Prepare, TypeOK
<1>7. CASE RecordRead(w)
  <2>1. Worker
        BY <1>7, <1>a, TheWorker DEF RecordRead, TypeOK
  <2> QED BY <1>7, <1>f, <2>1 DEF RecordRead
<1>8. CASE RecordWrite(w)
  <2>1. Worker
        BY <1>8, <1>b DEF RecordWrite
  <2>2. Store
        BY <1>8 DEF RecordWrite, RecordSubmission, TypeOK, Dispatches
  <2> QED BY <1>8, <2>1, <2>2 DEF RecordWrite, TypeOK
<1>9. CASE Post(w)
  <2>1. Worker
    <3> {"platform_accepted", "submission_unknown", "submission_failed"} \subseteq DispatchStatuses
        BY DEF DispatchStatuses, Pending
    <3> QED BY <1>9, <1>c DEF Post
  <2>2. World
        BY <1>9 DEF Post, Accepted, TypeOK
  <2> QED BY <1>9, <2>1, <2>2 DEF Post, TypeOK
<1>10. CASE SettleRead(w)
  <2>1. Worker
        BY <1>10, <1>a, <1>d, TheWorker DEF SettleRead, TypeOK
  <2> QED BY <1>10, <1>f, <2>1 DEF SettleRead
<1>11. CASE SettleWrite(w)
  <2>1. Row
        BY <1>11, RowTyped DEF SettleWrite, TypeOK
  <2> QED BY <1>11, <1>d, <1>e, <2>1 DEF SettleWrite
<1>12. CASE Conclude(w)
  <2>1. Row
        BY <1>12, RowTyped DEF Conclude, TypeOK
  <2> QED BY <1>12, <1>d, <1>e, <2>1 DEF Conclude
<1> QED BY <1>1, <1>2, <1>3, <1>4, <1>5, <1>6, <1>7, <1>8, <1>9, <1>10, <1>11, <1>12

LEMMA HandlerTyped ==
    ASSUME TypeOK, HandlerStep
    PROVE  TypeOK'
<1> USE DEF HandlerPcs, HandlerStep
<1> DEFINE Handler == /\ hpc' \in HandlerPcs /\ event' \in Events \cup {NoEvent}
                      /\ receipt' \in DispatchStatuses /\ read' \in Statuses
                      /\ mail' \subseteq Events
           Store == row' \in Rows /\ dispatch' \in Dispatches /\ applied' \subseteq Events
<1> SUFFICES Handler /\ Store
    BY DEF TypeOK, workerVars
<1>a. ASSUME Respond PROVE Handler
      BY <1>a DEF Respond, HandlerIdle, TypeOK, DispatchStatuses, Statuses
<1>b. dispatch.status \in DispatchStatuses /\ row.status \in Statuses
      BY DEF TypeOK, Dispatches, Rows
<1>1. ASSUME NEW e \in mail, Receive(e) PROVE Handler /\ Store
  <2>1. Store
        BY <1>1, DispatchTyped DEF Receive, TypeOK
  <2>2. Handler
        BY <1>1 DEF Receive, handlerVars, TypeOK
  <2> QED BY <2>1, <2>2
<1>2. CASE Reload
  <2>1. Handler
        BY <1>2, <1>a, <1>b DEF Reload, TypeOK
  <2> QED BY <1>2, <2>1 DEF Reload, TypeOK
<1>3. CASE FindRun
  <2>1. Handler
        BY <1>3, <1>a, <1>b DEF FindRun, TypeOK
  <2> QED BY <1>3, <2>1 DEF FindRun, TypeOK
<1>4. CASE SettleRun
  <2>1. Handler
        BY <1>4, <1>a DEF SettleRun, TypeOK
  <2>2. row' \in Rows
        BY <1>4, RowTyped DEF SettleRun, TypeOK
  <2> QED BY <1>4, <2>1, <2>2 DEF SettleRun, TypeOK
<1>5. CASE FinalizeDispatch
  <2>1. Store
        BY <1>5, DispatchTyped DEF FinalizeDispatch, TypeOK
  <2> QED BY <1>5, <1>a, <2>1 DEF FinalizeDispatch
<1> QED BY <1>1, <1>2, <1>3, <1>4, <1>5

LEMMA NextTypeOK ==
    ASSUME TypeOK, [Next]_vars
    PROVE  TypeOK'
<1>1. CASE \E w \in Workers : WorkerStep(w)
      BY <1>1, WorkerTyped
<1>2. CASE HandlerStep
      BY <1>2, HandlerTyped
<1>f. Fault => faults' \in 0 .. MaxFaults
      BY FaultBound DEF Fault, TypeOK
<1>3. ASSUME NEW w \in Workers, WorkerFails(w) PROVE TypeOK'
  <2>1. Done(w) /\ UNCHANGED <<row, dispatch, applied, handlerVars, world>> /\ Fault
        BY <1>3 DEF WorkerFails
  <2> QED BY <1>f, <2>1, DoneTo DEF TypeOK, handlerVars, world
<1>4. ASSUME NEW w \in Workers, SendRaises(w) PROVE TypeOK'
  <2>1. Goto(w, "retry") /\ UNCHANGED <<row, dispatch, applied, handlerVars, world>> /\ Fault
        BY <1>4 DEF SendRaises
  <2>2. "retry" \in WorkerPcs
        BY DEF WorkerPcs
  <2> QED BY <1>f, <2>1, <2>2, GotoTo DEF TypeOK, handlerVars, world
<1>5. CASE HandlerFails
      BY <1>5, <1>f DEF HandlerFails, HandlerIdle, TypeOK, workerVars, world, HandlerPcs,
                        DispatchStatuses, Statuses
<1>6. CASE PlatformReports
  <2>1. mail' \subseteq Events
        BY <1>6, EventsTyped DEF PlatformReports, TypeOK
  <2> QED BY <1>6, <2>1 DEF PlatformReports, TypeOK, workerVars, handlerVars
<1>7. CASE CustomerActs
      BY <1>7 DEF CustomerActs, TypeOK, workerVars, handlerVars
<1>8. CASE ReplyProcess \/ Expire
  <2>1. row' \in Rows
        BY <1>8, RowTyped DEF ReplyProcess, Expire, TypeOK
  <2> QED BY <1>8, <2>1 DEF ReplyProcess, Expire, TypeOK, workerVars, handlerVars, world
<1>9. CASE UNCHANGED vars
      BY <1>9 DEF vars, TypeOK, workerVars, handlerVars, world
<1> QED BY <1>1, <1>2, <1>3, <1>4, <1>5, <1>6, <1>7, <1>8, <1>9 DEF Next

-----------------------------------------------------------------------------
(* What is sent *)

(* No receipt, no callback and no request before the platform has the messages. *)
LEMMA Before ==
    ASSUME IInv
    PROVE  /\ posts \in {0, 1} /\ (posts = 1 => outcome \in [Messages -> ItemTerminal])
           /\ (mail # {} \/ hpc # "idle" \/ dispatch.status \in Terminal \/ dispatch.finalized
                 => posts = 1)
  BY OutcomeIsNew DEF IInv, TypeOK, Sending, Quiet

LEMMA WorkerSending ==
    ASSUME IInv, NEW w \in Workers, WorkerStep(w)
    PROVE  Sending'
<1> USE DEF WorkerStep, WorkerPcs, Looked
<1> DEFINE At(v) == /\ pc[v] \in Looked => dispatch.status = "absent"
                    /\ pc[v] \in {"record", "recording"} =>
                          /\ verdict[v] \in Recordable
                          /\ verdict[v] = "submitting" => posts = 0 /\ dispatch.status = "created"
                    /\ pc[v] = "recording" /\ verdict[v] = "submitting" => saw[v] = "created"
                    /\ pc[v] = "post" => posts = 0 /\ dispatch.status = "submitting"
           Sent == /\ posts \in {0, 1} /\ (posts = 0 <=> outcome = NoOutcome)
                   /\ dispatch.status \in {"absent", "created"} => posts = 0
<1> SUFFICES Sent' /\ \A v \in Workers : At(v)'
    BY DEF Sending, NoOutcome
<1>a. TypeOK /\ Sent /\ At(w)
      BY DEF IInv, Sending
<1>b. ASSUME NEW where \in WorkerPcs \ {"record", "recording", "post"}, Goto(w, where),
             where \in Looked => dispatch'.status = "absent"
      PROVE  \A v \in Workers : At(v)'
      BY <1>a, <1>b, GotoTo
<1>c. ASSUME NEW status \in DispatchStatuses, GotoWith(w, "settle", status)
      PROVE  \A v \in Workers : At(v)'
      BY <1>a, <1>c, GotoWithTo
<1>d. ASSUME NEW status \in DispatchStatuses \cap Recordable, GotoWith(w, "record", status),
             status = "submitting" => posts' = 0 /\ dispatch'.status = "created"
      PROVE  \A v \in Workers : At(v)'
      BY <1>a, <1>d, GotoWithTo
<1>e. ASSUME Done(w) PROVE \A v \in Workers : At(v)'
      BY <1>a, <1>e, DoneTo
<1>f. ASSUME UNCHANGED <<dispatch, posts, outcome>> PROVE Sent'
      BY <1>a, <1>f DEF NoOutcome
<1>g. dispatch.status \in DispatchStatuses /\ Terminal \subseteq DispatchStatuses
      BY <1>a DEF TypeOK, Dispatches, DispatchStatuses
<1>1. CASE Poll(w)
      BY <1>1, <1>b, <1>f DEF Poll, RowOnly
<1>2. CASE ClaimBatch(w)
      BY <1>2, <1>b, <1>e, <1>f DEF ClaimBatch, RowOnly
<1>3. CASE Lookup(w)
  <2>1. \A v \in Workers : At(v)'
        BY <1>3, <1>b, <1>c, <1>g DEF Lookup, Reconcile, NoStore
  <2> QED BY <1>3, <1>f, <2>1 DEF Lookup, NoStore
<1>4. CASE Gate(w)
  <2>1. \A v \in Workers : At(v)'
        BY <1>4, <1>a, <1>b DEF Gate, NoStore
  <2> QED BY <1>4, <1>f, <2>1 DEF Gate, NoStore
<1>5. CASE Generate(w)
  <2>1. ASSUME NEW r \in Replies, pc' = [pc EXCEPT ![w] = "gate2"]
        PROVE  \A v \in Workers : At(v)'
        BY <1>5, <1>a, <2>1, TheWorker DEF Generate, NoStore, TypeOK
  <2>2. \A v \in Workers : At(v)'
        BY <1>5, <1>b, <2>1 DEF Generate
  <2> QED BY <1>5, <1>f, <2>2 DEF Generate, NoStore
<1>6. CASE Prepare(w)
  <2>1. posts = 0 /\ dispatch.status = "absent"
        BY <1>6, <1>a DEF Prepare
  <2>2. CASE Create(reply[w])
    <3>1. dispatch'.status = "created"
          BY <2>2 DEF Create, NoDispatch
    <3>2. UNCHANGED <<posts, outcome>>
          BY <1>6 DEF Prepare
    <3>3. Sent'
          BY <1>a, <2>1, <3>1, <3>2 DEF NoOutcome
    <3>4. "submitting" \in DispatchStatuses \cap Recordable
          BY DEF DispatchStatuses, Pending, Recordable
    <3>5. GotoWith(w, "record", "submitting") \/ Goto(w, "cancel") \/ Goto(w, "manual")
          BY <1>6, <2>1 DEF Prepare
    <3>6. dispatch' # dispatch
          BY <2>1, <3>1
    <3>7. GotoWith(w, "record", "submitting")
          BY <1>6, <2>1, <3>6 DEF Prepare
    <3> QED BY <2>1, <3>1, <3>2, <3>3, <3>4, <3>7, <1>d
  <2>3. CASE ~Create(reply[w])
    <3>1. UNCHANGED <<dispatch, posts, outcome>> /\ (Goto(w, "cancel") \/ Goto(w, "manual"))
          BY <1>6, <2>1, <2>3 DEF Prepare
    <3> QED BY <2>1, <3>1, <1>b, <1>f
  <2> QED BY <2>2, <2>3
<1>7. CASE RecordRead(w)
  <2>1. \A v \in Workers : At(v)'
        BY <1>7, <1>a, <1>g, TheWorker DEF RecordRead, NoStore, TypeOK
  <2> QED BY <1>7, <1>f, <2>1 DEF RecordRead, NoStore
<1>8. CASE RecordWrite(w)
  <2>1. UNCHANGED <<posts, outcome>> /\ verdict[w] \in Recordable
        BY <1>8, <1>a DEF RecordWrite
  <2>2. dispatch' = dispatch \/ (dispatch'.status = verdict[w] /\ saw[w] \notin Terminal)
        BY <1>8, <1>a DEF RecordWrite, RecordSubmission, TypeOK, Dispatches
  <2>3. Sent'
        BY <1>a, <2>1, <2>2 DEF NoOutcome, Recordable
  <2>4. CASE verdict[w] = "submitting"
    <3>1. posts = 0 /\ saw[w] = "created"
          BY <1>8, <1>a, <2>4 DEF RecordWrite
    <3>2. dispatch'.status = "submitting"
          BY <1>8, <1>a, <2>4, <3>1 DEF RecordWrite, RecordSubmission, TypeOK, Dispatches, Terminal
    <3>3. Goto(w, "post")
          BY <1>8, <2>4 DEF RecordWrite
    <3> QED BY <1>a, <2>1, <2>3, <3>1, <3>2, <3>3, GotoTo
  <2>5. CASE verdict[w] # "submitting"
    <3>1. Goto(w, "manual") \/ Goto(w, "stage")
          BY <1>8, <2>5 DEF RecordWrite
    <3> QED BY <2>3, <3>1, <1>b
  <2> QED BY <2>4, <2>5
<1>9. CASE Post(w)
  <2>1. posts = 0 /\ dispatch' = dispatch /\ dispatch.status = "submitting" /\ outcome = NoOutcome
        BY <1>9, <1>a DEF Post
  <2>2. Sent'
        BY <1>9, <2>1, OutcomeIsNew DEF Post, Accepted, NoOutcome
  <2>3. {"platform_accepted", "submission_unknown", "submission_failed"}
           \subseteq (DispatchStatuses \cap Recordable) \ {"submitting"}
        BY DEF DispatchStatuses, Pending, Recordable
  <2>4. \A v \in Workers : At(v)'
        BY <1>9, <1>d, <2>3 DEF Post
  <2> QED BY <2>2, <2>4
<1>10. CASE SettleRead(w)
  <2>1. CASE Done(w)
        BY <1>10, <1>e, <1>f, <2>1 DEF SettleRead, NoStore
  <2>2. CASE pc' = [pc EXCEPT ![w] = "settling"]
    <3>1. \A v \in Workers : At(v)'
          BY <2>2, <1>a, TheWorker DEF TypeOK
    <3> QED BY <1>10, <1>f, <3>1 DEF SettleRead, NoStore
  <2> QED BY <1>10, <2>1, <2>2 DEF SettleRead
<1>11. CASE SettleWrite(w)
       BY <1>11, <1>e, <1>f DEF SettleWrite, RowOnly
<1>12. CASE Conclude(w)
       BY <1>12, <1>e, <1>f DEF Conclude, RowOnly
<1> QED BY <1>1, <1>2, <1>3, <1>4, <1>5, <1>6, <1>7, <1>8, <1>9, <1>10, <1>11, <1>12

LEMMA NextSending ==
    ASSUME IInv, [Next]_vars
    PROVE  Sending'
<1>1. CASE \E w \in Workers : WorkerStep(w)
      BY <1>1, WorkerSending
<1>2. CASE HandlerStep
  <2>1. UNCHANGED <<workerVars, posts, outcome>>
        BY <1>2 DEF HandlerStep
  <2>2. posts = 1
        BY <1>2, Before DEF HandlerStep, Receive, Reload, FindRun, SettleRun, FinalizeDispatch
  <2>3. dispatch' = dispatch \/ dispatch'.status = dispatch.status
           \/ dispatch'.status \in Terminal \cup {"sending"}
    <3>1. ASSUME NEW e \in mail, Receive(e)
          PROVE  dispatch' = dispatch \/ dispatch'.status \in Terminal \cup {"sending"}
          BY <2>2, <3>1, Before, AppliedIsTrue DEF Receive, IInv, Truth, TypeOK
    <3>2. CASE FinalizeDispatch
          BY <3>2 DEF FinalizeDispatch, MarkFinalized, IInv, TypeOK, Dispatches
    <3> QED BY <1>2, <3>1, <3>2 DEF HandlerStep, Reload, FindRun, SettleRun
  <2>4. \A w \in Workers : pc[w] \in {"record", "recording"} => verdict[w] # "submitting"
        BY <2>2 DEF IInv, Sending
  <2>5. \A w \in Workers : pc[w] \in Looked \cup {"post"} => FALSE
        BY <2>2 DEF IInv, Sending
  <2>6. dispatch'.status \notin {"absent", "created"}
        BY <2>2, <2>3 DEF IInv, Sending, Terminal
  <2> QED BY <2>1, <2>2, <2>4, <2>5, <2>6 DEF IInv, Sending, workerVars, NoOutcome
<1>3. ASSUME NEW w \in Workers, WorkerFails(w) PROVE Sending'
  <2>1. Done(w) /\ UNCHANGED <<dispatch, posts, outcome>>
        BY <1>3 DEF WorkerFails, world
  <2>2. \A v \in Workers : pc'[v] = "idle"
        BY <2>1, DoneTo DEF IInv
  <2> QED BY <2>1, <2>2 DEF IInv, Sending, NoOutcome, Looked
<1>4. ASSUME NEW w \in Workers, SendRaises(w) PROVE Sending'
  <2>1. Goto(w, "retry") /\ UNCHANGED <<dispatch, posts, outcome>> /\ "retry" \in WorkerPcs
        BY <1>4 DEF SendRaises, world, WorkerPcs
  <2>2. \A v \in Workers : pc'[v] = "retry"
        BY <2>1, GotoTo DEF IInv
  <2> QED BY <2>1, <2>2 DEF IInv, Sending, NoOutcome, Looked
<1>5. CASE UNCHANGED <<dispatch, posts, outcome, workerVars>>
      BY <1>5 DEF IInv, Sending, workerVars, NoOutcome
<1>6. HandlerFails \/ PlatformReports \/ CustomerActs \/ ReplyProcess \/ Expire \/ UNCHANGED vars
         => UNCHANGED <<dispatch, posts, outcome, workerVars>>
      BY DEF HandlerFails, PlatformReports, CustomerActs, ReplyProcess, Expire, vars, world
<1> QED BY <1>1, <1>2, <1>3, <1>4, <1>5, <1>6 DEF Next

LEMMA NextQuiet ==
    ASSUME IInv, [Next]_vars
    PROVE  Quiet'
<1> SUFFICES ASSUME posts' = 0 PROVE Quiet'
    BY DEF Quiet
<1>1. ASSUME NEW w \in Workers, WorkerStep(w)
      PROVE  Quiet'
  <2>1. mail' = mail /\ hpc' = hpc
        BY <1>1 DEF WorkerStep, handlerVars
  <2>2. posts = 0
        BY <1>1 DEF WorkerStep, Poll, ClaimBatch, Lookup, Gate, Generate, Prepare, RecordRead,
                    RecordWrite, Post, Accepted, SettleRead, SettleWrite, Conclude, RowOnly, NoStore,
                    IInv, Sending
  <2>3. CASE dispatch' = dispatch
        BY <2>1, <2>2, <2>3 DEF IInv, Quiet
  <2>4. CASE Prepare(w) /\ dispatch' # dispatch
    <3>1. Create(reply[w])
          BY <2>4 DEF Prepare
    <3>2. dispatch' = [NoDispatch EXCEPT !.status = "created", !.reply = reply[w]]
          BY <3>1 DEF Create
    <3>3. /\ dispatch'.status = "created" /\ ~dispatch'.finalized
          /\ \A m \in Messages : dispatch'.items[m] = "created"
          BY <3>2 DEF NoDispatch
    <3> QED BY <2>1, <2>2, <3>3 DEF IInv, Quiet, Terminal
  <2>5. CASE RecordWrite(w) /\ dispatch' # dispatch
    <3>1. dispatch' = [dispatch EXCEPT !.status = verdict[w]] /\ verdict[w] \in Recordable
          BY <2>5 DEF RecordWrite, RecordSubmission, IInv, Sending
    <3> QED BY <2>1, <2>2, <3>1 DEF IInv, Quiet, TypeOK, Dispatches, Recordable, Terminal
  <2>6. dispatch' = dispatch \/ Prepare(w) \/ RecordWrite(w)
        BY <1>1 DEF WorkerStep, Poll, ClaimBatch, Lookup, Gate, Generate, RecordRead, Post,
                    SettleRead, SettleWrite, Conclude, RowOnly, NoStore
  <2> QED BY <2>3, <2>4, <2>5, <2>6
<1>2. CASE HandlerStep
  <2>1. posts = 1
        BY <1>2, Before DEF HandlerStep, Receive, Reload, FindRun, SettleRun, FinalizeDispatch
  <2> QED BY <1>2, <2>1 DEF HandlerStep
<1>3. CASE HandlerFails
  <2>1. posts = 0 /\ hpc # "idle"
        BY <1>3 DEF HandlerFails, world
  <2> QED BY <2>1 DEF IInv, Quiet
<1>4. CASE PlatformReports
      BY <1>4 DEF PlatformReports, IInv, Sending
<1>5. CASE UNCHANGED <<dispatch, posts, mail, hpc>>
      BY <1>5 DEF IInv, Quiet
<1>6. (\E w \in Workers : WorkerFails(w) \/ SendRaises(w))
         \/ CustomerActs \/ ReplyProcess \/ Expire \/ UNCHANGED vars
         => UNCHANGED <<dispatch, posts, mail, hpc>>
      BY DEF WorkerFails, SendRaises, CustomerActs, ReplyProcess, Expire, vars, world, handlerVars
<1> QED BY <1>1, <1>2, <1>3, <1>4, <1>5, <1>6 DEF Next

-----------------------------------------------------------------------------
(* What is known of it *)

LEMMA WorkerTruth ==
    ASSUME IInv, NEW w \in Workers, WorkerStep(w)
    PROVE  Truth'
<1> USE DEF WorkerStep
<1> DEFINE At(v) == pc[v] \in {"settle", "settling"} => posts = 1 /\ Agrees(verdict[v])
           Known == /\ \A m \in Messages :
                          dispatch.items[m] \in ItemTerminal => dispatch.items[m] = outcome[m]
                    /\ mail \subseteq Notices \cup {Report}
                    /\ dispatch.status \in Terminal => Agrees(dispatch.status)
                    /\ hpc \in {"find", "settling", "mark"} => Agrees(receipt)
<1> SUFFICES Known' /\ \A v \in Workers : At(v)'
    BY DEF Truth
<1>a. TypeOK /\ Known /\ At(w) /\ UNCHANGED <<mail, hpc, receipt>>
      BY DEF IInv, Truth, handlerVars
<1>b. ASSUME UNCHANGED <<posts, outcome>>, pc[w] \in {"settle", "settling"},
             pc' = [pc EXCEPT ![w] = "settling"], verdict' = verdict
      PROVE  \A v \in Workers : At(v)'
      BY <1>a, <1>b, TheWorker DEF TypeOK, WorkerPcs, Agrees, Delivered
<1>c. ASSUME UNCHANGED <<posts, outcome>>, dispatch.status \in Terminal,
             GotoWith(w, "settle", dispatch.status)
      PROVE  \A v \in Workers : At(v)'
  <2>1. posts = 1
        BY <1>c, Before
  <2>2. "settle" \in WorkerPcs /\ dispatch.status \in DispatchStatuses
        BY <1>a DEF TypeOK, WorkerPcs, Dispatches
  <2> QED BY <1>a, <1>c, <2>1, <2>2, GotoWithTo DEF Agrees, Delivered
<1>d. ASSUME NEW where \in WorkerPcs \ {"settle", "settling"},
             \/ Goto(w, where) \/ (\E status : GotoWith(w, where, status))
             \/ pc' = [pc EXCEPT ![w] = where]
      PROVE  \A v \in Workers : At(v)'
  <2>1. pc' = [pc EXCEPT ![w] = where]
        BY <1>d DEF Goto, GotoWith
  <2> QED BY <1>a, <2>1, TheWorker DEF TypeOK
<1>e. ASSUME Done(w) PROVE \A v \in Workers : At(v)'
      BY <1>a, <1>e, DoneTo
<1>f. ASSUME UNCHANGED <<dispatch, outcome>> PROVE Known'
      BY <1>a, <1>f DEF Notices, Report, Agrees, Delivered
<1>1. CASE Poll(w)
      BY <1>1, <1>d, <1>f DEF Poll, RowOnly, WorkerPcs
<1>2. CASE ClaimBatch(w)
      BY <1>2, <1>d, <1>e, <1>f DEF ClaimBatch, RowOnly, WorkerPcs
<1>3. CASE Lookup(w)
  <2>1. \A v \in Workers : At(v)'
        BY <1>3, <1>c, <1>d DEF Lookup, Reconcile, NoStore, WorkerPcs
  <2> QED BY <1>3, <1>f, <2>1 DEF Lookup, NoStore
<1>4. CASE Gate(w) \/ Generate(w) \/ RecordRead(w)
  <2>1. \A v \in Workers : At(v)'
        BY <1>4, <1>d DEF Gate, Generate, RecordRead, WorkerPcs
  <2> QED BY <1>4, <1>f, <2>1 DEF Gate, Generate, RecordRead, NoStore
<1>5. CASE Prepare(w)
  <2>1. posts = 0 /\ dispatch.status = "absent"
        BY <1>5 DEF Prepare, IInv, Sending, Looked
  <2>2. \A v \in Workers : At(v)'
        BY <1>5, <1>d, <2>1 DEF Prepare, WorkerPcs
  <2>3. dispatch' = dispatch \/ Create(reply[w])
        BY <1>5 DEF Prepare
  <2>4. outcome' = outcome
        BY <1>5 DEF Prepare
  <2>5. CASE Create(reply[w])
    <3>1. dispatch'.status = "created" /\ \A m \in Messages : dispatch'.items[m] = "created"
          BY <2>5 DEF Create, NoDispatch
    <3> QED BY <1>a, <2>2, <2>4, <3>1
            DEF Notices, Report, Agrees, Delivered, Terminal, ItemTerminal
  <2> QED BY <1>f, <2>2, <2>3, <2>4, <2>5
<1>6. CASE RecordWrite(w)
  <2>1. \A v \in Workers : At(v)'
        BY <1>6, <1>d DEF RecordWrite, WorkerPcs
  <2>2. /\ dispatch'.items = dispatch.items
        /\ dispatch' = dispatch \/ dispatch'.status = verdict[w]
        BY <1>6, <1>a DEF RecordWrite, RecordSubmission, TypeOK, Dispatches
  <2>3. verdict[w] \notin Terminal
        BY <1>6 DEF RecordWrite, IInv, Sending, Recordable, Terminal
  <2> QED BY <1>6, <1>a, <1>f, <2>1, <2>2, <2>3
          DEF RecordWrite, Notices, Report, Agrees, Delivered
<1>7. CASE Post(w)
  <2>1. \A v \in Workers : At(v)'
        BY <1>7, <1>d DEF Post, WorkerPcs
  <2>2. posts = 0
        BY <1>7 DEF Post, IInv, Sending
  <2>3. /\ mail = {} /\ hpc = "idle" /\ dispatch.status \notin Terminal
        /\ \A m \in Messages : dispatch.items[m] = "created"
        BY <2>2 DEF IInv, Quiet
  <2> QED BY <1>7, <1>a, <2>1, <2>3 DEF Post, ItemTerminal
<1>8. CASE SettleRead(w)
  <2>1. \A v \in Workers : At(v)'
        BY <1>8, <1>b, <1>e DEF SettleRead, NoStore
  <2> QED BY <1>8, <1>f, <2>1 DEF SettleRead, NoStore
<1>9. CASE SettleWrite(w)
      BY <1>9, <1>e, <1>f DEF SettleWrite, RowOnly
<1>10. CASE Conclude(w)
       BY <1>10, <1>e, <1>f DEF Conclude, RowOnly
<1> QED BY <1>1, <1>2, <1>3, <1>4, <1>5, <1>6, <1>7, <1>8, <1>9, <1>10

LEMMA HandlerTruth ==
    ASSUME IInv, HandlerStep
    PROVE  Truth'
<1> USE DEF HandlerStep
<1>a. UNCHANGED <<posts, outcome, pc, verdict>> /\ posts = 1 /\ outcome \in [Messages -> ItemTerminal]
      BY Before DEF workerVars, Receive, Reload, FindRun, SettleRun, FinalizeDispatch
<1>b. (\A w \in Workers : pc[w] \in {"settle", "settling"} => posts = 1 /\ Agrees(verdict[w]))'
      BY <1>a DEF IInv, Truth, Agrees, Delivered
<1>c. Notices' = Notices /\ Report' = Report /\ \A s : Agrees(s)' <=> Agrees(s)
      BY <1>a DEF Notices, Report, Agrees, Delivered
<1> DEFINE Known == /\ \A m \in Messages :
                          dispatch.items[m] \in ItemTerminal => dispatch.items[m] = outcome[m]
                    /\ dispatch.status \in Terminal => Agrees(dispatch.status)
<1>d. ASSUME UNCHANGED dispatch PROVE Known'
      BY <1>a, <1>d DEF IInv, Truth, Agrees, Delivered
<1> SUFFICES Known' /\ mail' \subseteq mail
             /\ (hpc' \in {"find", "settling", "mark"} => Agrees(receipt)')
    BY <1>b, <1>c DEF IInv, Truth
<1>e. ASSUME Respond PROVE mail' \subseteq mail /\ hpc' = "idle"
      BY <1>e DEF Respond, HandlerIdle
<1>1. ASSUME NEW e \in mail, Receive(e)
      PROVE  Known' /\ mail' \subseteq mail /\ hpc' \in {"idle", "reload"}
  <2>1. CASE Rejects(e)
        BY <1>1, <1>d, <2>1 DEF Receive, ApplyEvent, handlerVars
  <2>2. CASE ApplyEvent(e)
    <3>1. Known'
          BY <1>a, <2>2, AppliedIsTrue DEF IInv, TypeOK, Truth, Agrees, Delivered
    <3> QED BY <1>1, <2>2, <3>1 DEF Receive, ApplyEvent
  <2> QED BY <1>1, <2>1, <2>2 DEF Receive
<1>2. CASE Reload
  <2>1. CASE Respond
        BY <1>2, <1>d, <1>e, <2>1 DEF Reload
  <2>2. CASE dispatch.status \in Terminal /\ receipt' = dispatch.status /\ mail' = mail
    <3>1. Agrees(receipt)'
          BY <1>a, <2>2 DEF IInv, Truth, Agrees, Delivered
    <3> QED BY <1>2, <1>d, <2>2, <3>1 DEF Reload
  <2> QED BY <1>2, <2>1, <2>2 DEF Reload
<1>f. ASSUME receipt' = receipt, hpc \in {"find", "settling", "mark"} PROVE Agrees(receipt)'
      BY <1>a, <1>f DEF IInv, Truth, Agrees, Delivered
<1>3. CASE FindRun
      BY <1>3, <1>d, <1>e, <1>f DEF FindRun
<1>4. CASE SettleRun
      BY <1>4, <1>d, <1>e, <1>f DEF SettleRun
<1>5. CASE FinalizeDispatch
  <2>1. dispatch'.items = dispatch.items /\ dispatch'.status = dispatch.status
        BY <1>5 DEF FinalizeDispatch, MarkFinalized, IInv, TypeOK, Dispatches
  <2>2. Known'
        BY <1>a, <2>1 DEF IInv, Truth, Agrees, Delivered
  <2> QED BY <1>5, <1>e, <2>2 DEF FinalizeDispatch
<1> QED BY <1>1, <1>2, <1>3, <1>4, <1>5

LEMMA NextTruth ==
    ASSUME IInv, [Next]_vars
    PROVE  Truth'
<1>1. CASE \E w \in Workers : WorkerStep(w)
      BY <1>1, WorkerTruth
<1>2. CASE HandlerStep
      BY <1>2, HandlerTruth
<1>a. ASSUME UNCHANGED <<dispatch, posts, outcome>>, mail' \subseteq mail \cup Notices \cup {Report},
             receipt' = receipt \/ hpc' = "idle", hpc' \in {hpc, "idle"},
             \A v \in Workers : (pc'[v] = pc[v] /\ verdict'[v] = verdict[v]) \/ pc'[v] \in {"idle", "retry"}
      PROVE  Truth'
  <2>1. Notices' = Notices /\ Report' = Report
        BY <1>a DEF Notices, Report
  <2>2. /\ (\A m \in Messages : dispatch.items[m] \in ItemTerminal => dispatch.items[m] = outcome[m])'
        /\ (mail \subseteq Notices \cup {Report})'
        /\ (dispatch.status \in Terminal => Agrees(dispatch.status))'
        BY <1>a, <2>1 DEF IInv, Truth, Agrees, Delivered
  <2>3. (\A v \in Workers : pc[v] \in {"settle", "settling"} => posts = 1 /\ Agrees(verdict[v]))'
        BY <1>a DEF IInv, Truth, Agrees, Delivered
  <2>4. (hpc \in {"find", "settling", "mark"} => Agrees(receipt))'
        BY <1>a DEF IInv, Truth, Agrees, Delivered
  <2> QED BY <2>2, <2>3, <2>4 DEF Truth
<1>3. ASSUME NEW w \in Workers, WorkerFails(w) PROVE Truth'
  <2>1. \A v \in Workers : pc'[v] = "idle"
        BY <1>3, DoneTo DEF WorkerFails, IInv
  <2> QED BY <1>3, <1>a, <2>1 DEF WorkerFails, world, handlerVars
<1>4. ASSUME NEW w \in Workers, SendRaises(w) PROVE Truth'
  <2>1. Goto(w, "retry") /\ "retry" \in WorkerPcs
        BY <1>4 DEF SendRaises, WorkerPcs
  <2>2. \A v \in Workers : pc'[v] = "retry"
        BY <2>1, GotoTo DEF IInv
  <2> QED BY <1>4, <1>a, <2>2 DEF SendRaises, world, handlerVars
<1>5. CASE HandlerFails
      BY <1>5, <1>a DEF HandlerFails, HandlerIdle, world, workerVars
<1>6. CASE PlatformReports
      BY <1>6, <1>a DEF PlatformReports, handlerVars, workerVars
<1>7. CASE CustomerActs \/ ReplyProcess \/ Expire \/ UNCHANGED vars
      BY <1>7, <1>a DEF CustomerActs, ReplyProcess, Expire, vars, world, handlerVars, workerVars
<1> QED BY <1>1, <1>2, <1>3, <1>4, <1>5, <1>6, <1>7 DEF Next

-----------------------------------------------------------------------------
(* What the run row says meanwhile *)

Unanswered ==
    /\ row.status = "generating" => row.snap = None
    /\ row.status # "completed" => row.snap = None \/ row.snap.kind = "fallback"

(* A step on the row that leaves the answer alone. *)
LEMMA StaysUnanswered ==
    ASSUME IInv,
           \/ UNCHANGED row
           \/ Escalate \/ Claim \/ Retry \/ Cancel \/ ManualReview \/ Stage
           \/ ReapStale \/ DeadlinePasses
           \/ posts = 1 /\ \E old, got : Settle(old, got)
           \/ \E c \in Calls, kind \in Kinds : SavePrimary([by |-> c, kind |-> kind], TRUE)
           \/ \E c \in Calls : row.status = "generating" /\ Reclaim(c)
    PROVE  Unanswered'
<1>1. Unanswered /\ row \in Rows
      BY DEF IInv, Run, Unanswered, TypeOK
<1>2. CASE UNCHANGED row
      BY <1>1, <1>2 DEF Unanswered
<1>3. CASE posts = 1 /\ \E old, got : Settle(old, got)
  <2>1. \E old \in Finalizable : \E got : Settle(old, got)
        BY <1>3 DEF Settle, IInv, Run
  <2> QED BY <1>1, <2>1, AnswerStays DEF Unanswered
<1> QED BY <1>1, <1>2, <1>3, AnswerStays DEF Unanswered

(* A receipt that says what happened puts the run where it stays. *)
LEMMA SettledIsFinal ==
    ASSUME NEW status, Agrees(status)
    PROVE  Settled(status) = Final
  BY DEF Agrees, Settled, Final

LEMMA WorkerRun ==
    ASSUME IInv, NEW w \in Workers, WorkerStep(w)
    PROVE  Run'
<1> USE DEF WorkerStep
<1> DEFINE Where == posts = 1 => row.status \in Finalizable
           Ended == hpc = "mark" \/ dispatch.finalized => row.status = Final
           At(v) == pc[v] \in Active => /\ posts = 0 => Claimed
                                        /\ Open => ~row.dispatch
<1> SUFFICES Unanswered' /\ Where' /\ Ended' /\ \A v \in Workers : At(v)'
    BY DEF Run, Unanswered
<1>a. TypeOK /\ Where /\ Ended /\ At(w) /\ hpc' = hpc
      BY DEF IInv, Run, handlerVars
<1>b. ASSUME Done(w) PROVE \A v \in Workers : At(v)'
      BY <1>a, <1>b, DoneTo DEF Active
<1>c. posts = 0 => hpc # "mark" /\ ~dispatch.finalized
      BY Before
<1>d. posts \in {0, 1}
      BY Before
<1>e. row.status \in {"generating", "fallback_pending", "recovery_claimed"}
         => hpc # "mark" /\ ~dispatch.finalized
      BY <1>a DEF Final
<1>1. CASE Poll(w)
  <2>1. pc' = [pc EXCEPT ![w] = "claim"]
        BY <1>1 DEF Poll, Goto
  <2>2. \A v \in Workers : At(v)'
        BY <1>a, <2>1, TheWorker DEF Active, WorkerPcs, TypeOK
  <2>3. Unanswered'
        BY <1>1, StaysUnanswered DEF Poll
  <2>4. row' = row \/ (row.status = "generating" /\ ReapStale)
        BY <1>1 DEF Poll, ReapStale
  <2>5. UNCHANGED <<dispatch, posts, outcome>>
        BY <1>1 DEF Poll, RowOnly
  <2>6. row.status = "generating" => posts = 0
        BY <1>a, <1>d DEF Finalizable
  <2>7. Where' /\ Ended'
        BY <1>a, <1>e, <2>4, <2>5, <2>6 DEF Final, Delivered
  <2> QED BY <2>2, <2>3, <2>7
<1>2. CASE ClaimBatch(w)
  <2>1. UNCHANGED <<dispatch, posts, outcome>>
        BY <1>2 DEF ClaimBatch, RowOnly
  <2>2. Unanswered'
        BY <1>2, StaysUnanswered DEF ClaimBatch
  <2>3. CASE UNCHANGED row /\ Done(w)
        BY <1>a, <1>b, <2>1, <2>2, <2>3 DEF Final, Delivered
  <2>4. CASE Escalate /\ Done(w)
    <3>1. row'.status = "manual_review" /\ row.status = "recovery_claimed"
          BY <1>a, <2>4 DEF Escalate, MustEscalate, Claimed, ToReview, TypeOK, Rows
    <3> QED BY <1>a, <1>b, <1>e, <2>1, <2>2, <2>4, <3>1 DEF Finalizable
  <2>5. CASE Claim /\ Goto(w, "lookup1")
    <3>1. /\ row'.status = "recovery_claimed" /\ ~row'.dispatch
          /\ row.status \in {"fallback_pending", "recovery_claimed"}
          BY <1>a, <2>5 DEF Claim, Claimable, Open, TypeOK, Rows
    <3> QED BY <1>a, <1>e, <2>1, <2>2, <3>1 DEF Finalizable, Claimed
  <2> QED BY <1>2, <2>3, <2>4, <2>5 DEF ClaimBatch
<1>3. ASSUME pc[w] \in Active, UNCHANGED <<row, posts, outcome>>,
             dispatch'.finalized => dispatch.finalized
      PROVE  Unanswered' /\ Where' /\ Ended' /\ \A v \in Workers : At(v)'
  <2>1. Unanswered'
        BY <1>3, StaysUnanswered
  <2> QED BY <1>a, <1>3, <2>1, OneWorker DEF Final, Delivered, Claimed, Open
<1>4. CASE Lookup(w) \/ Gate(w) \/ Generate(w) \/ RecordRead(w) \/ SettleRead(w)
      BY <1>3, <1>4 DEF Lookup, Gate, Generate, RecordRead, SettleRead, NoStore, Active, WorkerPcs
<1>5. CASE Prepare(w)
  <2>1. dispatch' = dispatch \/ dispatch' = [NoDispatch EXCEPT !.status = "created", !.reply = reply[w]]
        BY <1>5 DEF Prepare, Create
  <2>2. dispatch'.finalized => dispatch.finalized
        BY <2>1 DEF NoDispatch
  <2> QED BY <1>3, <1>5, <2>2 DEF Prepare, Active, WorkerPcs
<1>6. CASE RecordWrite(w)
  <2>1. dispatch'.finalized = dispatch.finalized
        BY <1>6, <1>a DEF RecordWrite, RecordSubmission, TypeOK, Dispatches
  <2> QED BY <1>3, <1>6, <2>1 DEF RecordWrite, Active, WorkerPcs
<1>7. CASE Post(w)
  <2>1. posts = 0 /\ pc[w] \in Active /\ UNCHANGED <<row, dispatch>>
        BY <1>7 DEF Post, IInv, Sending, Active, WorkerPcs
  <2>2. Claimed /\ ~row.dispatch
        BY <1>a, <2>1 DEF Claimed, Open
  <2>3. Unanswered'
        BY <2>1, StaysUnanswered
  <2> QED BY <1>a, <1>c, <2>1, <2>2, <2>3 DEF Claimed, Open, Finalizable
<1>8. CASE SettleWrite(w)
  <2>1. UNCHANGED <<dispatch, posts, outcome>> /\ Done(w)
        BY <1>8 DEF SettleWrite, RowOnly
  <2>2. posts = 1 /\ Agrees(verdict[w])
        BY <1>8 DEF SettleWrite, IInv, Truth
  <2>3. row' = row \/ row'.status = Final
        BY <1>8, <1>a, <2>2, SettledIsFinal DEF SettleWrite, Settle, TypeOK, Rows
  <2>4. Unanswered'
        BY <1>8, <2>2, StaysUnanswered DEF SettleWrite
  <2>5. Where' /\ Ended'
        BY <1>a, <2>1, <2>3 DEF Final, Delivered, Finalizable
  <2> QED BY <1>b, <2>1, <2>4, <2>5
<1>9. CASE Conclude(w)
  <2>1. UNCHANGED <<dispatch, posts, outcome>> /\ Done(w)
        BY <1>9 DEF Conclude, RowOnly
  <2>2. Unanswered'
        BY <1>9, StaysUnanswered DEF Conclude
  <2>3. CASE UNCHANGED row
        BY <1>a, <1>b, <2>1, <2>2, <2>3 DEF Final, Delivered
  <2>4. CASE row' # row
    <3>1. row.status \in {"fallback_pending", "recovery_claimed"}
          BY <1>9, <2>4 DEF Conclude, Retry, Cancel, ManualReview, Stage, Open, Claimed
    <3>2. row'.status \in Finalizable \/ pc[w] = "cancel"
          BY <1>9, <1>a, <2>4 DEF Conclude, Retry, ManualReview, Stage, ToReview, Finalizable,
                                TypeOK, Rows
    <3>3. pc[w] = "cancel" => posts = 0
          BY DEF IInv, Sending, Looked
    <3>4. posts = 1 => row'.status \in Finalizable
          BY <3>2, <3>3
    <3>5. Ended'
          BY <1>a, <1>e, <2>1, <3>1
    <3> QED BY <1>b, <2>1, <2>2, <3>4, <3>5
  <2> QED BY <2>3, <2>4
<1> QED BY <1>1, <1>2, <1>4, <1>5, <1>6, <1>7, <1>8, <1>9

LEMMA HandlerRun ==
    ASSUME IInv, HandlerStep
    PROVE  Run'
<1> USE DEF HandlerStep
<1>a. /\ TypeOK /\ posts = 1 /\ outcome \in [Messages -> ItemTerminal]
      /\ UNCHANGED <<posts, outcome, pc>> /\ row.status \in Finalizable
  <2>1. posts = 1 /\ outcome \in [Messages -> ItemTerminal] /\ UNCHANGED <<posts, outcome, pc>>
        BY Before DEF workerVars, Receive, Reload, FindRun, SettleRun, FinalizeDispatch
  <2> QED BY <2>1 DEF IInv, Run
<1>b. ASSUME UNCHANGED row, (hpc' = "mark" \/ dispatch'.finalized) => row.status = Final
      PROVE  Run'
  <2>1. Unanswered'
        BY <1>b, StaysUnanswered
  <2> QED BY <1>a, <1>b, <2>1 DEF IInv, Run, Unanswered, Final, Delivered, Claimed, Open
<1>1. ASSUME NEW e \in mail, Receive(e) PROVE Run'
  <2>1. dispatch'.finalized = dispatch.finalized /\ hpc' # "mark"
        BY <1>1, <1>a, AppliedIsTrue DEF Receive, IInv, TypeOK, Truth, handlerVars
  <2> QED BY <1>1, <1>b, <2>1 DEF Receive, IInv, Run
<1>2. CASE Reload \/ FindRun
  <2>1. UNCHANGED <<row, dispatch>> /\ hpc' # "mark"
        BY <1>2 DEF Reload, FindRun, Respond, HandlerIdle
  <2> QED BY <1>b, <2>1 DEF IInv, Run
<1>3. CASE SettleRun
  <2>1. Agrees(receipt) /\ UNCHANGED dispatch
        BY <1>3 DEF SettleRun, IInv, Truth
  <2>2. CASE Settle(read, receipt)
    <3>1. row'.status = Final
          BY <1>a, <2>1, <2>2, SettledIsFinal DEF Settle, TypeOK, Rows
    <3>2. Unanswered'
          BY <1>a, <2>2, StaysUnanswered
    <3> QED BY <1>a, <2>1, <3>1, <3>2
            DEF Run, Unanswered, Final, Delivered, Claimed, Open, Finalizable
  <2>3. CASE AlreadySettled(read, receipt) /\ UNCHANGED row
    <3>1. row.status = Final
          BY <2>1, <2>3, SettledIsFinal DEF AlreadySettled
    <3> QED BY <1>b, <2>3, <3>1
  <2>4. CASE UNCHANGED row /\ Respond
    <3>1. hpc' = "idle"
          BY <2>4 DEF Respond, HandlerIdle
    <3> QED BY <1>b, <2>1, <2>4, <3>1 DEF IInv, Run
  <2> QED BY <1>3, <2>2, <2>3, <2>4 DEF SettleRun
<1>4. CASE FinalizeDispatch
  <2>1. row.status = Final /\ UNCHANGED row
        BY <1>4 DEF FinalizeDispatch, IInv, Run
  <2> QED BY <1>b, <2>1
<1> QED BY <1>1, <1>2, <1>3, <1>4

LEMMA NextRun ==
    ASSUME IInv, [Next]_vars
    PROVE  Run'
<1>1. CASE \E w \in Workers : WorkerStep(w)
      BY <1>1, WorkerRun
<1>2. CASE HandlerStep
      BY <1>2, HandlerRun
<1>a. ASSUME UNCHANGED <<row, dispatch, posts, outcome>>, hpc' \in {hpc, "idle"},
             \A v \in Workers : pc'[v] \in {pc[v], "idle"} \/ (pc'[v] = "retry" /\ pc[v] \in Active)
      PROVE  Run'
      BY <1>a DEF IInv, Run, Final, Delivered, Claimed, Open, Active
<1>3. ASSUME NEW w \in Workers, WorkerFails(w) PROVE Run'
  <2>1. \A v \in Workers : pc'[v] = "idle"
        BY <1>3, DoneTo DEF WorkerFails, IInv
  <2> QED BY <1>3, <1>a, <2>1 DEF WorkerFails, world, handlerVars
<1>4. ASSUME NEW w \in Workers, SendRaises(w) PROVE Run'
  <2>1. Goto(w, "retry") /\ "retry" \in WorkerPcs /\ pc[w] \in Active
        BY <1>4 DEF SendRaises, WorkerPcs, Active
  <2>2. \A v \in Workers : pc'[v] = "retry" /\ v = w
        BY <2>1, GotoTo DEF IInv
  <2> QED BY <1>4, <1>a, <2>1, <2>2 DEF SendRaises, world, handlerVars
<1>5. CASE HandlerFails \/ PlatformReports \/ CustomerActs \/ UNCHANGED vars
      BY <1>5, <1>a DEF HandlerFails, HandlerIdle, PlatformReports, CustomerActs, vars,
                        world, handlerVars, workerVars
<1>6. CASE ReplyProcess
  <2>1. /\ row.status = "generating" /\ UNCHANGED <<dispatch, pc, hpc, posts, outcome>>
        /\ \/ \E c \in Calls, kind \in Kinds : SavePrimary([by |-> c, kind |-> kind], TRUE)
           \/ \E c \in Calls : Reclaim(c)
        BY <1>6 DEF ReplyProcess, Owns, LeaseExpired, workerVars, handlerVars, world
  <2>2. posts = 0 /\ hpc # "mark" /\ ~dispatch.finalized
        BY <2>1, Before DEF IInv, Run, Finalizable
  <2>3. \A w \in Workers : pc[w] \notin Active
        BY <2>1, <2>2 DEF IInv, Run, Claimed
  <2>4. Unanswered'
        BY <2>1, StaysUnanswered
  <2> QED BY <2>1, <2>2, <2>3, <2>4 DEF Run, Unanswered
<1>7. CASE Expire
  <2>1. UNCHANGED <<dispatch, pc, hpc, posts, outcome>> /\ DeadlinePasses
        BY <1>7 DEF Expire, workerVars, handlerVars, world
  <2>2. row'.status = row.status /\ row'.dispatch = row.dispatch
        BY <2>1 DEF DeadlinePasses, IInv, TypeOK, Rows
  <2>3. Unanswered'
        BY <2>1, StaysUnanswered
  <2> QED BY <2>1, <2>2, <2>3 DEF IInv, Run, Unanswered, Final, Delivered, Claimed, Open
<1> QED BY <1>1, <1>2, <1>3, <1>4, <1>5, <1>6, <1>7 DEF Next

(* Only a receipt recovers a run. *)
LEMMA OthersDoNotRecover ==
    ASSUME row \in Rows,
           \/ Escalate \/ Claim \/ Retry \/ Cancel \/ ManualReview \/ Stage
           \/ ReapStale \/ DeadlinePasses
           \/ \E c \in Calls, kind \in Kinds : SavePrimary([by |-> c, kind |-> kind], TRUE)
           \/ \E c \in Calls : Reclaim(c)
    PROVE  row'.status = "recovered" => row.status = "recovered"
<1> USE DEF Rows, Statuses
<1>1. CASE Escalate \/ Claim \/ Retry \/ Cancel \/ ManualReview \/ Stage
      BY <1>1 DEF Escalate, Claim, Retry, Cancel, ManualReview, Stage, ToReview
<1>2. CASE ReapStale \/ DeadlinePasses \/ \E c \in Calls : Reclaim(c)
      BY <1>2 DEF ReapStale, DeadlinePasses, Reclaim
<1>3. CASE \E c \in Calls, kind \in Kinds : SavePrimary([by |-> c, kind |-> kind], TRUE)
      BY <1>3 DEF SavePrimary, SavedStatus
<1> QED BY <1>1, <1>2, <1>3

(* What a step may do to the run and to the outcome of its messages. *)
LEMMA StepOnTheRun ==
    ASSUME IInv, [Next]_vars
    PROVE  /\ outcome' = outcome \/ (Claimed /\ row' = row)
           /\ \/ row' = row
              \/ Escalate \/ Claim \/ Retry \/ Cancel \/ ManualReview \/ Stage
              \/ ReapStale \/ DeadlinePasses
              \/ \E c \in Calls, kind \in Kinds : SavePrimary([by |-> c, kind |-> kind], TRUE)
              \/ \E c \in Calls : Reclaim(c)
              \/ \E read_, status : Settle(read_, status) /\ Agrees(status)
<1>1. ASSUME NEW w \in Workers, WorkerStep(w), ~Post(w), ~SettleWrite(w)
      PROVE  /\ outcome' = outcome
             /\ \/ row' = row
                \/ Escalate \/ Claim \/ Retry \/ Cancel \/ ManualReview \/ Stage \/ ReapStale
      BY <1>1 DEF WorkerStep, Poll, ClaimBatch, Lookup, Gate, Generate, Prepare, RecordRead,
                  RecordWrite, SettleRead, Conclude, RowOnly, NoStore
<1>2. ASSUME NEW w \in Workers, Post(w)
      PROVE  Claimed /\ row' = row
      BY <1>2 DEF Post, IInv, Sending, Run, Active, WorkerPcs
<1>3. ASSUME NEW w \in Workers, SettleWrite(w)
      PROVE  /\ outcome' = outcome
             /\ row' = row \/ (Settle(saw[w], verdict[w]) /\ Agrees(verdict[w]))
      BY <1>3 DEF SettleWrite, RowOnly, IInv, Truth
<1>4. ASSUME HandlerStep
      PROVE  /\ outcome' = outcome
             /\ row' = row \/ (Settle(read, receipt) /\ Agrees(receipt))
      BY <1>4 DEF HandlerStep, Receive, Reload, FindRun, SettleRun, FinalizeDispatch, IInv, Truth
<1>5. ASSUME \/ \E w \in Workers : WorkerFails(w) \/ SendRaises(w)
             \/ HandlerFails \/ PlatformReports \/ CustomerActs \/ UNCHANGED vars
      PROVE  outcome' = outcome /\ row' = row
      BY <1>5 DEF WorkerFails, SendRaises, HandlerFails, PlatformReports, CustomerActs, vars, world
<1>6. ASSUME ReplyProcess \/ Expire
      PROVE  /\ outcome' = outcome
             /\ \/ DeadlinePasses
                \/ \E c \in Calls, kind \in Kinds : SavePrimary([by |-> c, kind |-> kind], TRUE)
                \/ \E c \in Calls : Reclaim(c)
      BY <1>6 DEF ReplyProcess, Expire, world
<1> QED BY <1>1, <1>2, <1>3, <1>4, <1>5, <1>6 DEF Next

LEMMA NextRecovered ==
    ASSUME IInv, [Next]_vars
    PROVE  RecoveredIsDelivered'
<1>a. row \in Rows /\ (row.status = "recovered" => Delivered)
      BY DEF IInv, TypeOK, RecoveredIsDelivered, Delivered
<1>1. CASE Claimed /\ row' = row
      BY <1>1 DEF RecoveredIsDelivered, Claimed
<1>2. CASE outcome' = outcome /\ row' = row
      BY <1>a, <1>2 DEF RecoveredIsDelivered, Delivered
<1>3. ASSUME outcome' = outcome, NEW read_, NEW status, Settle(read_, status), Agrees(status)
      PROVE  RecoveredIsDelivered'
  <2>1. row'.status = Final
        BY <1>a, <1>3, SettledIsFinal DEF Settle, Rows
  <2> QED BY <1>3, <2>1 DEF Final, Delivered, RecoveredIsDelivered
<1>4. CASE outcome' = outcome /\ (row'.status = "recovered" => row.status = "recovered")
      BY <1>a, <1>4 DEF RecoveredIsDelivered, Delivered
<1> QED BY <1>a, <1>1, <1>2, <1>3, <1>4, StepOnTheRun, OthersDoNotRecover

-----------------------------------------------------------------------------
(* The theorems *)

LEMMA InitIInv == Init => IInv
<1> SUFFICES ASSUME Init PROVE IInv
    OBVIOUS
<1>1. TypeOK
      BY InitTypeOK
<1>2. /\ posts = 0 /\ outcome = NoOutcome /\ mail = {} /\ hpc = "idle"
      /\ dispatch = NoDispatch /\ \A w \in Workers : pc[w] = "idle"
      BY DEF Init
<1>3. Sending
      BY <1>2 DEF Sending, Looked
<1>4. Quiet
      BY <1>2 DEF Quiet, NoDispatch, Terminal
<1>5. Truth
      BY <1>2 DEF Truth, NoDispatch, Terminal, ItemTerminal
<1>6. Run
  <2>1. PICK c \in Calls : row = [NoRow EXCEPT !.status = "generating", !.owner = c]
        BY DEF Init
  <2>2. row.status = "generating" /\ row.snap = None
        BY <2>1 DEF NoRow
  <2> QED BY <1>2, <2>2 DEF Run, NoDispatch, Active
<1>7. RecoveredIsDelivered
  <2>1. row.status = "generating"
        BY DEF Init, NoRow
  <2> QED BY <2>1 DEF RecoveredIsDelivered
<1> QED BY <1>1, <1>3, <1>4, <1>5, <1>6, <1>7 DEF IInv

LEMMA NextIInv == IInv /\ [Next]_vars => IInv'
  BY NextTypeOK, NextSending, NextQuiet, NextTruth, NextRun, NextRecovered DEF IInv

(* The strengthened invariant holds in every reachable state. *)
THEOREM Invariance == Spec => []IInv
<1>1. Init => IInv
      BY InitIInv
<1>2. IInv /\ [Next]_vars => IInv'
      BY NextIInv
<1> QED BY <1>1, <1>2, PTL DEF Spec

(* Every variable keeps its type; in particular the attempts stay bounded. *)
THEOREM TypeCorrect == Spec => []TypeOK
<1>1. IInv => TypeOK
      BY DEF IInv
<1> QED BY <1>1, Invariance, PTL

(* A message is sent at most once, whatever fails around the send. *)
THEOREM SentAtMostOnce == Spec => []SentOnce
<1>1. IInv => SentOnce
      BY DEF IInv, Sending, SentOnce
<1> QED BY <1>1, Invariance, PTL

(* A customer who was answered over HTTP gets no proactive answer. *)
THEOREM HttpAnswerIsTheOnlyOne == Spec => []NoSecondAnswer
<1>1. IInv => NoSecondAnswer
  <2> SUFFICES ASSUME IInv, posts > 0 PROVE row.snap = None \/ row.snap.kind = "fallback"
      BY DEF NoSecondAnswer
  <2>1. posts = 1
        BY DEF IInv, Sending
  <2> QED BY <2>1 DEF IInv, Run, Finalizable
<1> QED BY <1>1, Invariance, PTL

(* A recovery cancelled because the customer acted has sent nothing. *)
THEOREM CancelledSendsNothing == Spec => []CancelledNeverSent
<1>1. IInv => CancelledNeverSent
      BY DEF IInv, Sending, Run, Finalizable, CancelledNeverSent
<1> QED BY <1>1, Invariance, PTL

(* A run is recovered only when the customer has every message of its answer. *)
THEOREM RecoveredMeansDelivered == Spec => []RecoveredIsDelivered
<1>1. IInv => RecoveredIsDelivered
      BY DEF IInv
<1> QED BY <1>1, Invariance, PTL

(* A dispatch is marked finalized only when its run is where it stays. *)
THEOREM FinalizedMeansSettled == Spec => []FinalizedIsSettled
<1>1. IInv => FinalizedIsSettled
      BY DEF IInv, Run, Final, Delivered, FinalizedIsSettled
<1> QED BY <1>1, Invariance, PTL

(* A staged recovery leaves its claim by a receipt or into manual review. *)
THEOREM StagedReconciles == Spec => StagedIsReconciled
<1>1. ASSUME IInv, [Next]_vars, Claimed, row.dispatch, row'.status # row.status
      PROVE  row'.status \in {"recovered", "manual_review"}
  <2>a. row \in Rows /\ row.status = "recovery_claimed" /\ row' # row
        BY <1>1 DEF IInv, TypeOK, Claimed
  <2>b. \A w \in Workers : pc[w] \notin Active
        BY <1>1 DEF IInv, Run, Open, Claimed
  <2>1. ASSUME NEW w \in Workers, WorkerStep(w)
        PROVE  Escalate
    <3>1. pc[w] \in {"idle", "claim"}
          BY <1>1, <2>b DEF Active, IInv, TypeOK
    <3>2. Poll(w) \/ ClaimBatch(w)
          BY <2>1, <3>1 DEF WorkerStep, Lookup, Gate, Generate, Prepare, RecordRead, RecordWrite,
                           Post, SettleRead, SettleWrite, Conclude
    <3>3. ~Poll(w)
          BY <2>a DEF Poll, ReapStale
    <3> QED BY <1>1, <2>a, <3>2, <3>3 DEF ClaimBatch, Claim, Claimable
  <2>2. CASE Escalate
        BY <2>a, <2>2 DEF Escalate, ToReview, Rows
  <2>3. ASSUME NEW read_, NEW status, Settle(read_, status)
        PROVE  row'.status \in {"recovered", "manual_review"}
        BY <2>a, <2>3 DEF Settle, Settled, Rows
  <2>4. CASE HandlerStep
        BY <2>a, <2>3, <2>4 DEF HandlerStep, Receive, Reload, FindRun, SettleRun, FinalizeDispatch
  <2>5. ~ReplyProcess
        BY <2>a DEF ReplyProcess, Owns, LeaseExpired
  <2>6. ~Expire
        BY <1>1, <2>a DEF Expire, DeadlinePasses, Rows
  <2> QED BY <1>1, <2>a, <2>1, <2>2, <2>4, <2>5, <2>6
          DEF Next, WorkerFails, SendRaises, HandlerFails, PlatformReports, CustomerActs, vars, world
<1>2. IInv /\ [Next]_vars => [Claimed /\ row.dispatch /\ row'.status # row.status
                                => row'.status \in {"recovered", "manual_review"}]_vars
      BY <1>1
<1> QED BY <1>2, Invariance, PTL DEF Spec, StagedIsReconciled

-----------------------------------------------------------------------------
(* The promise *)

\* Past the second gate, until the attempt is over.
Passed == {"lookup2", "send", "record", "recording", "post"}

(* A worker passes the second gate only with the customer's leave, and leaves
   that part of its iteration before it ends the claim. *)
LEMMA WorkerPasses ==
    ASSUME IInv, NEW w \in Workers, WorkerStep(w)
    PROVE  \/ pc'[w] \in Passed <=> pc[w] \in Passed
           \/ UNCHANGED <<row, posts, outcome>> /\ pc'[w] \notin Passed
           \/ UNCHANGED <<row, posts, outcome>> /\ pc[w] = "gate2" /\ ~blocked
<1> DEFINE Goal == \/ pc'[w] \in Passed <=> pc[w] \in Passed
                   \/ UNCHANGED <<row, posts, outcome>> /\ pc'[w] \notin Passed
                   \/ UNCHANGED <<row, posts, outcome>> /\ pc[w] = "gate2" /\ ~blocked
<1>1. pc \in [Workers -> WorkerPcs] /\ verdict \in [Workers -> DispatchStatuses]
      BY DEF IInv, TypeOK
<1>2. ASSUME NEW where, Goto(w, where) PROVE pc'[w] = where
      BY <1>1, <1>2 DEF Goto
<1>3. ASSUME NEW where, NEW status, GotoWith(w, where, status) PROVE pc'[w] = where
      BY <1>1, <1>3 DEF GotoWith
<1>4. ASSUME Done(w) PROVE pc'[w] = "idle"
      BY <1>1, <1>4 DEF Done
<1>5. CASE Poll(w) \/ ClaimBatch(w) \/ SettleWrite(w) \/ Conclude(w)
      BY <1>2, <1>4, <1>5 DEF Poll, ClaimBatch, SettleWrite, Conclude, Passed
<1>6. CASE Lookup(w)
      BY <1>2, <1>3, <1>6 DEF Lookup, Reconcile, NoStore, Passed
<1>7. CASE Gate(w)
      BY <1>2, <1>7 DEF Gate, NoStore, Passed
<1>8. CASE Generate(w) \/ RecordRead(w) \/ SettleRead(w)
      BY <1>1, <1>2, <1>4, <1>8 DEF Generate, RecordRead, SettleRead, Passed
<1>9. CASE Prepare(w)
      BY <1>9 DEF Prepare, Passed
<1>10. CASE RecordWrite(w)
      BY <1>10 DEF RecordWrite, Passed
<1>11. CASE Post(w)
      BY <1>3, <1>11 DEF Post, Passed
<1> QED BY <1>5, <1>6, <1>7, <1>8, <1>9, <1>10, <1>11 DEF WorkerStep

(* An answer is cleared while the customer has not acted and nothing was sent. *)
LEMMA StepOnTheClearing ==
    ASSUME IInv, [Next]_vars
    PROVE  \/ ClearedView' <=> ClearedView
           \/ /\ UNCHANGED <<row, posts, outcome, blocked>>
              /\ ~ClearedView' \/ (Claimed /\ posts = 0 /\ ~blocked)
<1>1. ASSUME NEW w \in Workers
      PROVE  (ClearedView <=> pc[w] \in Passed) /\ (ClearedView' <=> pc'[w] \in Passed)
      BY OneWorker DEF ClearedView, Passed
<1>2. ASSUME NEW w \in Workers, WorkerStep(w)
      PROVE  \/ ClearedView' <=> ClearedView
             \/ /\ UNCHANGED <<row, posts, outcome, blocked>>
                /\ ~ClearedView' \/ (Claimed /\ posts = 0 /\ ~blocked)
  <2>1. blocked' = blocked
        BY <1>2 DEF WorkerStep
  <2>2. pc[w] = "gate2" => Claimed /\ posts = 0
        BY DEF IInv, Sending, Run, Looked, Active, WorkerPcs
  <2> QED BY <1>1, <1>2, <2>1, <2>2, WorkerPasses
<1>3. ASSUME NEW w \in Workers, WorkerFails(w) \/ SendRaises(w)
      PROVE  UNCHANGED <<row, posts, outcome, blocked>> /\ ~ClearedView'
  <2>1. pc'[w] \in {"idle", "retry"}
        BY <1>3, GotoTo, DoneTo DEF IInv, WorkerFails, SendRaises, WorkerPcs
  <2> QED BY <1>1, <1>3, <2>1 DEF WorkerFails, SendRaises, world, Passed
<1>4. CASE UNCHANGED pc
      BY <1>4 DEF ClearedView
<1> QED BY <1>2, <1>3, <1>4
        DEF Next, HandlerStep, HandlerFails, PlatformReports, CustomerActs, ReplyProcess, Expire,
            workerVars, vars

\* The worker cancels a run only because the customer acted.
Cause == \A w \in Workers : pc[w] = "cancel" => blocked

(* Every step keeps the cause of a cancellation: the customer's act stands. *)
LEMMA NextCause == IInv /\ Cause /\ [Next]_vars => Cause'
<1> SUFFICES ASSUME IInv, Cause, [Next]_vars PROVE Cause'
    OBVIOUS
<1> USE DEF Cause
<1>1. ASSUME NEW w \in Workers, WorkerStep(w) PROVE Cause'
  <2>1. blocked' = blocked /\ TypeOK
        BY <1>1 DEF WorkerStep, IInv
  <2>2. ASSUME NEW where \in WorkerPcs, where # "cancel" \/ blocked, Goto(w, where) PROVE Cause'
        BY <2>1, <2>2, GotoTo
  <2>3. ASSUME NEW where \in WorkerPcs \ {"cancel"}, NEW status, GotoWith(w, where, status) PROVE Cause'
        BY <2>1, <2>3, TheWorker DEF GotoWith, TypeOK
  <2>4. ASSUME Done(w) PROVE Cause'
        BY <2>1, <2>4, DoneTo
  <2>5. ASSUME NEW where \in WorkerPcs \ {"cancel"}, pc' = [pc EXCEPT ![w] = where] PROVE Cause'
        BY <2>1, <2>5, TheWorker DEF TypeOK
  <2> USE DEF WorkerPcs
  <2>6. CASE Poll(w) \/ ClaimBatch(w) \/ Conclude(w) \/ SettleWrite(w)
        BY <2>2, <2>4, <2>6 DEF Poll, ClaimBatch, Conclude, SettleWrite
  <2>7. CASE Lookup(w)
        BY <2>2, <2>3, <2>7 DEF Lookup, Reconcile
  <2>8. CASE Gate(w) \/ Generate(w)
        BY <2>2, <2>5, <2>8 DEF Gate, Generate
  <2>9. CASE Prepare(w)
        BY <2>2, <2>3, <2>9 DEF Prepare
  <2>10. CASE RecordRead(w) \/ SettleRead(w)
        BY <2>4, <2>5, <2>10 DEF RecordRead, SettleRead
  <2>11. CASE RecordWrite(w)
        BY <2>2, <2>11 DEF RecordWrite
  <2>12. CASE Post(w)
        BY <2>3, <2>12 DEF Post
  <2> QED BY <1>1, <2>6, <2>7, <2>8, <2>9, <2>10, <2>11, <2>12 DEF WorkerStep
<1>2. ASSUME NEW w \in Workers, WorkerFails(w) \/ SendRaises(w) PROVE Cause'
  <2>1. TypeOK /\ blocked' = blocked
        BY <1>2 DEF IInv, WorkerFails, SendRaises, world
  <2>2. \A v \in Workers : pc'[v] # "cancel"
        BY <1>2, <2>1, GotoTo, DoneTo DEF WorkerFails, SendRaises, WorkerPcs
  <2> QED BY <2>2
<1>3. CASE UNCHANGED pc /\ (blocked' = blocked \/ blocked' = TRUE)
      BY <1>3
<1> QED BY <1>1, <1>2, <1>3
        DEF Next, HandlerStep, HandlerFails, PlatformReports, CustomerActs, ReplyProcess, Expire,
            workerVars, world, vars

\* The steps of claims and leases: the run waits on, or goes to a person.
Shuffle ==
    \/ Escalate \/ Claim \/ Retry \/ ManualReview \/ Stage \/ ReapStale \/ DeadlinePasses
    \/ \E c \in Calls : Reclaim(c) /\ row.status = "generating"

(* What a step does to what the promise speaks of. *)
LEMMA StepOnThePromise ==
    ASSUME IInv, Cause, [Next]_vars
    PROVE  \/ UNCHANGED <<row, posts, outcome, blocked>>
           \/ UNCHANGED <<row, posts, outcome>> /\ blocked' = TRUE
           \/ /\ Claimed /\ ClearedView /\ posts = 0 /\ posts' = 1
              /\ UNCHANGED <<row, blocked>>
           \/ /\ UNCHANGED <<posts, outcome, blocked>>
              /\ \/ Shuffle
                 \/ Cancel /\ blocked /\ posts = 0
                 \/ \E old \in Finalizable : \E status : Settle(old, status) /\ Agrees(status) /\ posts = 1
                 \/ /\ row.status = "generating"
                    /\ \E c \in Calls, kind \in Kinds : SavePrimary([by |-> c, kind |-> kind], TRUE)
<1>1. ASSUME NEW w \in Workers, WorkerStep(w)
      PROVE  /\ blocked' = blocked
             /\ \/ UNCHANGED <<row, posts, outcome>>
                \/ Claimed /\ ClearedView /\ posts = 0 /\ posts' = 1 /\ row' = row
                \/ /\ UNCHANGED <<posts, outcome>>
                   /\ \/ Shuffle
                      \/ Cancel /\ blocked /\ posts = 0
                      \/ \E old \in Finalizable : \E status :
                            Settle(old, status) /\ Agrees(status) /\ posts = 1
  <2>1. blocked' = blocked
        BY <1>1 DEF WorkerStep
  <2>2. CASE Poll(w) \/ ClaimBatch(w)
        BY <2>1, <2>2 DEF Poll, ClaimBatch, RowOnly, Shuffle
  <2>3. CASE Lookup(w) \/ Gate(w) \/ Generate(w) \/ RecordRead(w) \/ SettleRead(w)
        BY <2>1, <2>3 DEF Lookup, Gate, Generate, RecordRead, SettleRead, NoStore
  <2>4. CASE Prepare(w) \/ RecordWrite(w)
        BY <2>1, <2>4 DEF Prepare, RecordWrite
  <2>5. CASE Post(w)
        BY <2>1, <2>5 DEF Post, Accepted, IInv, Sending, Run, Active, WorkerPcs, ClearedView
  <2>6. CASE SettleWrite(w)
    <3>1. posts = 1 /\ Agrees(verdict[w]) /\ row.status \in Finalizable
          BY <2>6 DEF SettleWrite, IInv, Truth, Run
    <3> QED BY <2>1, <2>6, <3>1 DEF SettleWrite, RowOnly, Settle
  <2>7. CASE Conclude(w)
    <3>1. pc[w] = "cancel" => blocked /\ posts = 0
          BY DEF Cause, IInv, Sending, Looked
    <3> QED BY <2>1, <2>7, <3>1 DEF Conclude, RowOnly, Shuffle
  <2> QED BY <1>1, <2>2, <2>3, <2>4, <2>5, <2>6, <2>7 DEF WorkerStep
<1>2. ASSUME HandlerStep
      PROVE  /\ UNCHANGED <<posts, outcome, blocked>>
             /\ \/ row' = row
                \/ \E old \in Finalizable : \E status : Settle(old, status) /\ Agrees(status) /\ posts = 1
  <2>1. hpc # "idle" => posts = 1 /\ row.status \in Finalizable
        BY Before DEF IInv, Run
  <2> QED BY <1>2, <2>1 DEF HandlerStep, Receive, Reload, FindRun, SettleRun, FinalizeDispatch,
                            IInv, Truth, Settle
<1>3. ASSUME \/ \E w \in Workers : WorkerFails(w) \/ SendRaises(w)
             \/ HandlerFails \/ PlatformReports \/ CustomerActs \/ UNCHANGED vars
      PROVE  UNCHANGED <<row, posts, outcome>> /\ (blocked' = blocked \/ blocked' = TRUE)
      BY <1>3 DEF WorkerFails, SendRaises, HandlerFails, PlatformReports, CustomerActs, vars, world
<1>4. ASSUME ReplyProcess \/ Expire
      PROVE  /\ UNCHANGED <<posts, outcome, blocked>>
             /\ \/ Shuffle
                \/ /\ row.status = "generating"
                   /\ \E c \in Calls, kind \in Kinds : SavePrimary([by |-> c, kind |-> kind], TRUE)
      BY <1>4 DEF ReplyProcess, Expire, world, Owns, LeaseExpired, Shuffle
<1> QED BY <1>1, <1>2, <1>3, <1>4 DEF Next

(* A shuffle leaves the answer alone, and the run where it is or for review. *)
LEMMA ShuffleView ==
    ASSUME IInv, Shuffle
    PROVE  /\ AnswerView' = AnswerView
           /\ RunView' = RunView \/ (RunView = "open" /\ RunView' = "review")
<1>1. row \in Rows /\ (row.status = "generating" => row.snap = None)
      BY DEF IInv, TypeOK, Run
<1>2. row'.snap = row.snap
      BY <1>1 DEF Rows, Shuffle, Escalate, Claim, Retry, ManualReview, Stage, ReapStale, ToReview,
                  DeadlinePasses, Reclaim
<1>3. row'.status = row.status \/ (/\ row.status \in {"generating", "fallback_pending", "recovery_claimed"}
                                   /\ row'.status \in {"fallback_pending", "recovery_claimed", "manual_review"})
  <2>1. CASE Escalate \/ Claim
        BY <1>1, <2>1 DEF Rows, Escalate, MustEscalate, Claim, Claimable, Claimed, Open, ToReview
  <2>2. CASE Retry
        BY <1>1, <2>2 DEF Rows, Retry, Claimed, ToReview
  <2>3. CASE ManualReview \/ Stage
        BY <1>1, <2>3 DEF Rows, ManualReview, Stage, Open, ToReview
  <2>4. CASE ReapStale \/ DeadlinePasses \/ \E c \in Calls : Reclaim(c) /\ row.status = "generating"
        BY <1>1, <2>4 DEF Rows, ReapStale, DeadlinePasses, Reclaim
  <2> QED BY <2>1, <2>2, <2>3, <2>4 DEF Shuffle
<1> QED BY <1>2, <1>3 DEF AnswerView, RunView

(* The recovery of a message, with the workers, the callbacks, the platform *)
(* and the reply process around it, implements RecoverOnce: one answer,     *)
(* over HTTP or by one send; answered, recovered and cancelled are final;   *)
(* recovered means delivered, cancelled means that the customer acted and   *)
(* nothing was sent; and what is sent was cleared once it was generated.    *)
THEOREM Refinement == Spec => ImplementsRecoverOnce
<1>1. Init => IInv /\ Cause
      BY InitIInv DEF Init, Cause
<1>2. IInv /\ Cause /\ [Next]_vars => IInv' /\ Cause'
      BY NextIInv, NextCause
<1>3. Init => Promise!Init
  <2>1. Init => row.status = "generating" /\ row.snap = None
        BY DEF Init, NoRow
  <2> QED BY <2>1 DEF Init, Promise!Init, AnswerView, RunView, SentView, ClearedView
<1>4. IInv /\ Cause /\ [Next]_vars => [Promise!Next]_(Promise!vars)
  <2> SUFFICES ASSUME IInv, Cause, [Next]_vars
               PROVE  \/ Promise!Next
                      \/ UNCHANGED <<AnswerView, RunView, SentView, blocked, ClearedView>>
      BY DEF Promise!vars
  <2> DEFINE Goal == \/ Promise!Next
                     \/ UNCHANGED <<AnswerView, RunView, SentView, blocked, ClearedView>>
  <2>1. row \in Rows /\ posts \in {0, 1} /\ blocked \in BOOLEAN
        BY DEF IInv, TypeOK, Sending
  <2>8. CASE /\ UNCHANGED <<row, posts, outcome, blocked>>
             /\ ~ClearedView' \/ (Claimed /\ posts = 0 /\ ~blocked)
    <3>1. UNCHANGED <<AnswerView, RunView, SentView, blocked>>
          BY <2>8 DEF AnswerView, RunView, SentView
    <3>2. CASE ~ClearedView'
          BY <3>1, <3>2 DEF Promise!Next, Promise!Withdraw
    <3>3. CASE ClearedView' /\ Claimed /\ posts = 0 /\ ~blocked
      <4>1. RunView = "open" /\ SentView = "no"
            BY <3>3 DEF Claimed, RunView, SentView
      <4> QED BY <3>1, <3>3, <4>1 DEF Promise!Next, Promise!Clear
    <3> QED BY <2>8, <3>2, <3>3
  <2> SUFFICES ASSUME ClearedView' <=> ClearedView PROVE Goal
      BY <2>8, StepOnTheClearing
  <2>9. ClearedView' = ClearedView
        BY DEF ClearedView
  <2>2. CASE UNCHANGED <<row, posts, outcome>> /\ (blocked' = blocked \/ blocked' = TRUE)
    <3>1. UNCHANGED <<AnswerView, RunView, SentView>>
          BY <2>2 DEF AnswerView, RunView, SentView
    <3> QED BY <2>2, <2>9, <3>1 DEF Promise!Next, Promise!Act
  <2>3. CASE Claimed /\ ClearedView /\ posts = 0 /\ posts' = 1 /\ UNCHANGED <<row, blocked>>
    <3>1. RunView = "open" /\ AnswerView # "real" /\ UNCHANGED <<AnswerView, RunView, blocked>>
          BY <2>3 DEF Claimed, RunView, AnswerView, IInv, Run
    <3>2. SentView = "no" /\ SentView' \in {"whole", "broken"}
          BY <2>3 DEF SentView
    <3> QED BY <2>3, <2>9, <3>1, <3>2 DEF Promise!Next, Promise!Send
  <2>4. CASE UNCHANGED <<posts, outcome, blocked>> /\ Shuffle
    <3>1. UNCHANGED <<AnswerView, SentView, blocked>>
          BY <2>4, ShuffleView DEF SentView
    <3> QED BY <2>4, <2>9, <3>1, ShuffleView DEF Promise!Next, Promise!Review
  <2>5. CASE UNCHANGED <<posts, outcome, blocked>> /\ Cancel /\ blocked /\ posts = 0
    <3>1. UNCHANGED <<AnswerView, SentView, blocked>> /\ SentView = "no" /\ blocked = TRUE
          BY <2>1, <2>5 DEF SentView, AnswerView, Cancel, Rows, IInv, TypeOK
    <3>2. RunView' = RunView \/ (RunView = "open" /\ RunView' = "cancelled")
          BY <2>1, <2>5 DEF RunView, Cancel, Open, Rows
    <3> QED BY <2>9, <3>1, <3>2 DEF Promise!Next, Promise!Cancel
  <2>6. ASSUME UNCHANGED <<posts, outcome, blocked>>, posts = 1,
               NEW old \in Finalizable, NEW status, Settle(old, status), Agrees(status)
        PROVE  Goal
    <3>1. UNCHANGED <<AnswerView, SentView, blocked>>
          BY <2>1, <2>6 DEF SentView, AnswerView, Settle, Rows
    <3>2. row.status \in Finalizable /\ row'.status = Final
          BY <2>1, <2>6, SettledIsFinal DEF Settle, Rows
    <3>3. RunView' = IF Delivered THEN "recovered" ELSE "review"
          BY <3>2 DEF Final, RunView
    <3>4. RunView \in {"open", "review"} \/ (RunView = "recovered" /\ Delivered)
          BY <3>2 DEF Finalizable, RunView, IInv, RecoveredIsDelivered, Delivered
    <3>5. Delivered => SentView = "whole"
          BY <2>6 DEF Delivered, SentView
    <3> QED BY <2>9, <3>1, <3>3, <3>4, <3>5 DEF Promise!Next, Promise!Recover, Promise!Review
  <2>7. ASSUME UNCHANGED <<posts, outcome, blocked>>, row.status = "generating",
               NEW c \in Calls, NEW kind \in Kinds, SavePrimary([by |-> c, kind |-> kind], TRUE)
        PROVE  Goal
    <3> DEFINE p == [by |-> c, kind |-> kind]
    <3>1. AnswerView = "none" /\ RunView = "open" /\ SentView = "no"
          BY <2>1, <2>7 DEF AnswerView, RunView, SentView, IInv, Run, Finalizable
    <3>2. row'.snap = p /\ row'.status = SavedStatus(kind, TRUE)
          BY <2>1, <2>7 DEF SavePrimary, Rows
    <3>3. p # None /\ p.kind = kind
          BY <2>7, NoneIsFresh DEF Kinds
    <3>4. IF kind = "fallback" THEN AnswerView' = "holding" /\ RunView' = "open"
          ELSE AnswerView' = "real" /\ RunView' = "answered"
      <4> HIDE DEF p
      <4> QED BY <3>2, <3>3 DEF AnswerView, RunView, SavedStatus
    <3>5. UNCHANGED <<SentView, blocked>>
          BY <2>7 DEF SentView
    <3> QED BY <2>9, <3>1, <3>4, <3>5 DEF Promise!Next, Promise!Reply
  <2> QED BY <2>2, <2>3, <2>4, <2>5, <2>6, <2>7, StepOnThePromise
<1> QED BY <1>1, <1>2, <1>3, <1>4, PTL DEF Spec, ImplementsRecoverOnce, Promise!Spec
=============================================================================
