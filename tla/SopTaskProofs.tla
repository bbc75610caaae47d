---------------------------- MODULE SopTaskProofs ----------------------------
(***************************************************************************)
(* TypeOK, CompletedIsClosed, LostIsNotRepeated and LeftOutIsFound, for    *)
(* every set of tasks and content groups, every number of attempts and     *)
(* every bound on the faults.                                              *)
(***************************************************************************)
EXTENDS SopTask, TLAPS, WellFoundedInduction, SequenceTheorems

\* A batch that waits, is queued or is recovered has a task to handle.
Batches ==
    /\ poll.stage = "persisting" => poll.tasks # {}
    /\ \A i \in 1 .. Len(queue) : queue[i] # {}
    /\ \A i \in 1 .. Len(waiters) : waiters[i].batch # {}
    /\ \A w \in recovering : w.batch # {}

Untouched(t) == \A k \in Keys : sent[<<t, k>>] = 0

Once(t) ==
    \E k \in Keys : sent[<<t, k>>] = 1 /\ \A j \in Keys : j # k => sent[<<t, j>>] = 0

\* A row is written with its event, and before anything is sent.
Written ==
    \A t \in Tasks :
       /\ event[t] = "none" => local[t].status = "none"
       /\ local[t].status = "none" => Untouched(t)

\* The row says that a send was begun and nothing else.
Begun(r) == r.status = "sending" /\ r.invoked /\ r.close = 30

\* What the pass may rely on where it is.
Passing ==
    pass # None =>
       LET r == local[pass.task] IN
       /\ event[pass.task] # "none"
       /\ pass.pc \in {"invoke", "submit", "posting", "posted", "record"} =>
             r.content \in Keys /\ r.status # "none"
       /\ pass.pc = "invoke" => r.status = "sending" /\ r.close = 30
       /\ pass.pc \in {"submit", "posting", "posted", "record"} /\ r.resp = "none" => Begun(r)
       /\ pass.pc = "record" => dispatch[r.content] \in {"accepted", "unknown"}
       /\ pass.pc \in {"report30", "finish30", "report70"} => Closed(pass.task)

\* A row over which nothing is sent: the next pass resumes or closes its task.
Kept(r) ==
    \/ Begun(r)
    \/ r.status = "failure_consume_pending" /\ r.mode = "failure"

Over(t) ==
    /\ Once(t)
    /\ Kept(local[t])
    /\ pass # None /\ pass.task = t =>
          pass.pc \in {"posted", "record", "consume30", "consume70"}

Lost == \A t \in Tasks : ~Closed(t) /\ local[t].resp = "none" => Untouched(t) \/ Over(t)

IInv == TypeOK /\ Batches /\ Written /\ Passing /\ CompletedIsClosed /\ Lost

-----------------------------------------------------------------------------
(* Tasks, batches and rows *)

(* A batch has an earliest task. *)
LEMMA EarliestIn ==
    ASSUME NEW batch \in SUBSET Tasks, batch # {}
    PROVE  Earliest(batch) \in batch
<1>1. batch \subseteq Nat
      BY TasksAreNumbers
<1>2. PICK t \in batch : \A u \in batch : ~(<<u, t>> \in OpToRel(<, Nat))
      BY <1>1, NatLessThanWellFounded, WFMin
<1>3. ASSUME NEW u \in batch PROVE t <= u
  <2>1. u \in Nat /\ t \in Nat /\ <<u, t>> \in Nat \X Nat
        BY <1>1
  <2>2. ~(u < t)
        BY <1>2, <2>1 DEF OpToRel
  <2> QED BY <2>1, <2>2
<1> QED BY <1>3 DEF Earliest

(* An update of a row is a row. *)
LEMMA UpdateTyped ==
    ASSUME NEW r \in Rows, NEW new \in Rows
    PROVE  Update(r, new) \in Rows
  BY DEF Update, Rows, SentStatuses, DoneStatuses

(* What a pass knows of its task. *)
LEMMA PassFacts ==
    ASSUME TypeOK, pass # None
    PROVE  /\ pass \in Passes
           /\ pass.task \in Tasks /\ pass.batch \subseteq Tasks
           /\ pass.rstat \in Recoverable \cup {"none"}
           /\ local[pass.task] \in Rows
           /\ event[pass.task] \in EventStatuses
  BY DEF TypeOK, Passes

(* A pass goes on where it is told to. *)
LEMMA GotoTyped ==
    ASSUME NEW p \in Passes,
           NEW pc \in {"gate", "content", "invoke", "submit", "posting", "posted", "record",
                       "pending", "consume30", "report30", "finish30", "consume70", "report70"},
           NEW how \in {"sent", "recovered"}
    PROVE  /\ [p EXCEPT !.pc = pc] \in Passes
           /\ [p EXCEPT !.pc = pc, !.how = how] \in Passes
  BY DEF Passes

\* What Close makes of a row.
ClosedRow(r, mode, status) ==
    [r EXCEPT !.mode = mode, !.close = 70, !.content = None, !.held = {}, !.status = status]

(* A row that is closed without a send is a row. *)
LEMMA ClosedTyped ==
    ASSUME NEW r \in Rows, NEW mode \in {"none", "gate", "no_send", "failure"},
           NEW status \in {"failure_consume_pending", "completed_without_send"}
    PROVE  ClosedRow(r, mode, status) \in Rows
<1> DEFINE S == DoneStatuses \cup {"none", "platform_queued", "sending", "processing_retry",
                                   "failure_consume_pending", "send_failed"}
           M == {"none", "gate", "no_send", "failure"}
           C == {0, 30, 70}
           K == Keys \cup {None}
           H == SUBSET Tasks
           P == {"none", "accepted", "unknown"}
<1>1. status \in S /\ mode \in M /\ 70 \in C /\ None \in K /\ {} \in H
      BY DEF DoneStatuses
<1>2. Rows = [status : S, mode : M, invoked : BOOLEAN, unsure : BOOLEAN, content : K, close : C,
              held : H, sentAt : BOOLEAN, resp : P]
      BY DEF Rows
<1> HIDE DEF S, M, C, K, H, P
<1> QED BY <1>1, <1>2 DEF ClosedRow

LEMMA CloseTyped ==
    ASSUME TypeOK, NEW t \in Tasks, NEW p \in Passes, NEW mode \in {"none", "gate", "no_send", "failure"},
           Close(t, p, mode)
    PROVE  /\ event' \in [Tasks -> EventStatuses]
           /\ local' \in [Tasks -> Rows]
           /\ pass' \in Passes
<1> DEFINE r == local[t]
           new == [r EXCEPT !.mode = mode, !.close = 70, !.content = None, !.held = {},
                            !.status = IF mode = "failure" THEN "failure_consume_pending"
                                       ELSE "completed_without_send"]
<1>1. r \in Rows
      BY DEF TypeOK
<1>2. new \in Rows
  <2> DEFINE status == IF mode = "failure" THEN "failure_consume_pending"
                       ELSE "completed_without_send"
  <2>1. status \in {"failure_consume_pending", "completed_without_send"}
        OBVIOUS
  <2> HIDE DEF r, status
  <2>2. ClosedRow(r, mode, status) \in Rows
        BY <1>1, <2>1, ClosedTyped
  <2>3. new = ClosedRow(r, mode, status)
        BY DEF ClosedRow, status
  <2> QED BY <2>2, <2>3
<1>3. Update(r, new) \in Rows
      BY <1>1, <1>2, UpdateTyped
<1>4. local' = [local EXCEPT ![t] = Update(r, new)]
      BY DEF Close
<1> HIDE DEF new
<1>5. local' \in [Tasks -> Rows]
      BY <1>3, <1>4 DEF TypeOK
<1>6. event' \in [Tasks -> EventStatuses]
      BY DEF Close, TypeOK, EventStatuses, Recoverable
<1> QED BY <1>5, <1>6, GotoTyped DEF Close

LEMMA BackoffTyped ==
    ASSUME TypeOK, pass # None, pass.rstat # "none", Backoff(pass.task)
    PROVE  /\ event' \in [Tasks -> EventStatuses]
           /\ retries' \in [Tasks -> 0 .. MaxAttempts]
<1>1. pass.task \in Tasks /\ pass.rstat \in EventStatuses
      BY PassFacts DEF EventStatuses
<1>2. \A n \in 0 .. MaxAttempts : n # MaxAttempts => n + 1 \in 0 .. MaxAttempts
      BY AttemptsPositive
<1> QED BY <1>1, <1>2 DEF Backoff, TypeOK

LEMMA AbandonTyped ==
    ASSUME TypeOK, pass # None, Abandon
    PROVE  /\ event' \in [Tasks -> EventStatuses]
           /\ retries' \in [Tasks -> 0 .. MaxAttempts]
           /\ pass' = None
<1>1. CASE pass.rstat = "none"
      BY <1>1 DEF Abandon, TypeOK
<1>2. CASE pass.rstat # "none"
      BY <1>2, BackoffTyped DEF Abandon
<1> QED BY <1>1, <1>2

LEMMA AlreadyOverTyped ==
    ASSUME TypeOK, pass # None, AlreadyOver
    PROVE  /\ event' \in [Tasks -> EventStatuses]
           /\ local' \in [Tasks -> Rows]
           /\ reserved' \subseteq Tasks /\ retries' = retries /\ pass' = None
<1> DEFINE t == pass.task
           new == [local[t] EXCEPT !.status = "send_failed"]
           after == Update(local[t], new)
<1>1. t \in Tasks /\ local[t] \in Rows /\ local \in [Tasks -> Rows]
      BY PassFacts DEF TypeOK
<1>2. after \in Rows
  <2>1. new \in Rows
        BY <1>1 DEF Rows
  <2> QED BY <1>1, <2>1, UpdateTyped
<1>3. local' = local \/ local' = [local EXCEPT ![t] = after]
      BY DEF AlreadyOver
<1> HIDE DEF new, after
<1>4. local' \in [Tasks -> Rows]
      BY <1>1, <1>2, <1>3
<1>5. event' \in [Tasks -> EventStatuses]
      BY <1>1 DEF AlreadyOver, TypeOK, EventStatuses
<1> QED BY <1>1, <1>4, <1>5 DEF AlreadyOver, TypeOK

LEMMA DeferTyped ==
    ASSUME TypeOK, pass # None, Defer(pass.task)
    PROVE  /\ event' \in [Tasks -> EventStatuses]
           /\ local' \in [Tasks -> Rows]
           /\ retries' \in [Tasks -> 0 .. MaxAttempts]
           /\ reserved' \subseteq Tasks /\ pass' \in Passes \cup {None}
<1> DEFINE t == pass.task
           new == [local[t] EXCEPT !.status = "processing_retry", !.mode = "gate",
                                   !.close = 0, !.content = None]
<1>1. pass \in Passes /\ t \in Tasks /\ local[t] \in Rows /\ retries[t] \in 0 .. MaxAttempts
      BY PassFacts DEF TypeOK
<1>2. CASE retries[t] + 1 >= MaxAttempts
      BY <1>1, <1>2, CloseTyped DEF Defer, TypeOK
<1>3. CASE ~(retries[t] + 1 >= MaxAttempts)
  <2>1. new \in Rows
        BY <1>1 DEF Rows
  <2>2. Update(local[t], new) \in Rows
        BY <1>1, <2>1, UpdateTyped
  <2>3. local' = [local EXCEPT ![t] = Update(local[t], new)]
        BY <1>3 DEF Defer
  <2> HIDE DEF new
  <2>4. local' \in [Tasks -> Rows]
        BY <1>1, <2>2, <2>3 DEF TypeOK
  <2>5. retries[t] + 1 \in 0 .. MaxAttempts
        BY <1>1, <1>3, AttemptsPositive
  <2>6. retries' \in [Tasks -> 0 .. MaxAttempts]
        BY <1>1, <1>3, <2>5 DEF Defer, TypeOK
  <2>7. event' = [event EXCEPT ![t] = "platform_processing_retry"]
        /\ reserved' = reserved \cup {t} /\ pass' = None
        BY <1>3 DEF Defer
  <2>8. event' \in [Tasks -> EventStatuses]
    <3>1. "platform_processing_retry" \in EventStatuses
          BY DEF EventStatuses, Recoverable
    <3> QED BY <2>7, <3>1 DEF TypeOK
  <2>9. reserved' \subseteq Tasks
        BY <1>1, <2>7 DEF TypeOK
  <2> QED BY <2>4, <2>6, <2>7, <2>8, <2>9
<1> QED BY <1>2, <1>3

(* The parts of the type that the polls, the queue and the waiting passes    *)
(* change, and those that a pass changes.                                    *)
Waiting ==
    /\ reserved \subseteq Tasks /\ terminal \subseteq Tasks
    /\ poll \in [stage : {"idle", "pulled", "persisting"}, tasks : SUBSET Tasks]
    /\ queue \in Seq(SUBSET Tasks)
    /\ waiters \in Seq(Requests)
    /\ recovering \subseteq Requests

Working ==
    /\ platform \in [task : [Tasks -> {10, 30, 70}], bound : [Groups -> Tasks \cup {None}]]
    /\ event \in [Tasks -> EventStatuses]
    /\ retries \in [Tasks -> 0 .. MaxAttempts]
    /\ local \in [Tasks -> Rows]
    /\ dispatch \in [Keys -> {"none", "created", "accepted", "unknown", "failed"}]
    /\ pass \in Passes \cup {None}
    /\ sent \in [Tasks \X Keys -> 0 .. 2]
    /\ faults \in 0 .. MaxFaults

LEMMA TypeParts == TypeOK <=> Waiting /\ Working
  BY DEF TypeOK, Waiting, Working

LEMMA InitIInv == Init => IInv
<1> SUFFICES ASSUME Init PROVE IInv
    OBVIOUS
<1> USE DEF Init
<1>1. TypeOK
  <2>1. NoRow \in Rows
        BY DEF NoRow, Rows
  <2>2. Working
        BY <2>1, AttemptsPositive, BoundIsNumber DEF Working, EventStatuses
  <2>3. Waiting
        BY DEF Waiting
  <2> QED BY <2>2, <2>3, TypeParts
<1>2. Batches /\ Passing /\ CompletedIsClosed
      BY DEF Batches, Passing, CompletedIsClosed
<1>3. Written /\ Lost
      BY DEF Written, Lost, Untouched, NoRow
<1> QED BY <1>1, <1>2, <1>3 DEF IInv

-----------------------------------------------------------------------------
(* Polls, the queue and the recovery scan *)

(* What is put at the end of a queue or taken from its front leaves batches  *)
(* with tasks.                                                               *)
LEMMA AppendOne ==
    ASSUME NEW q \in Seq(SUBSET Tasks), \A i \in 1 .. Len(q) : q[i] # {},
           NEW b \in SUBSET Tasks, b # {}
    PROVE  /\ Append(q, b) \in Seq(SUBSET Tasks)
           /\ \A i \in 1 .. Len(Append(q, b)) : Append(q, b)[i] # {}
<1>1. /\ Append(q, b) \in Seq(SUBSET Tasks) /\ Len(Append(q, b)) = Len(q) + 1
      /\ \A i \in 1 .. Len(q) : Append(q, b)[i] = q[i]
      /\ Append(q, b)[Len(q) + 1] = b
      BY AppendProperties
<1>2. Len(q) \in Nat
      OBVIOUS
<1>3. \A i \in 1 .. Len(q) + 1 : i \in 1 .. Len(q) \/ i = Len(q) + 1
      BY <1>2
<1> QED BY <1>1, <1>3

LEMMA AppendRequest ==
    ASSUME NEW q \in Seq(Requests), \A i \in 1 .. Len(q) : q[i].batch # {},
           NEW w \in Requests, w.batch # {}
    PROVE  /\ Append(q, w) \in Seq(Requests)
           /\ \A i \in 1 .. Len(Append(q, w)) : Append(q, w)[i].batch # {}
<1>1. /\ Append(q, w) \in Seq(Requests) /\ Len(Append(q, w)) = Len(q) + 1
      /\ \A i \in 1 .. Len(q) : Append(q, w)[i] = q[i]
      /\ Append(q, w)[Len(q) + 1] = w
      BY AppendProperties
<1>2. Len(q) \in Nat
      OBVIOUS
<1>3. \A i \in 1 .. Len(q) + 1 : i \in 1 .. Len(q) \/ i = Len(q) + 1
      BY <1>2
<1> QED BY <1>1, <1>3

LEMMA TailAll ==
    ASSUME NEW q \in Seq(SUBSET Tasks), q # <<>>, \A i \in 1 .. Len(q) : q[i] # {}
    PROVE  /\ Tail(q) \in Seq(SUBSET Tasks)
           /\ \A i \in 1 .. Len(Tail(q)) : Tail(q)[i] # {}
<1>1. /\ Tail(q) \in Seq(SUBSET Tasks) /\ Len(Tail(q)) = Len(q) - 1
      /\ \A i \in 1 .. Len(Tail(q)) : Tail(q)[i] = q[i + 1]
      BY HeadTailProperties
<1>2. Len(q) \in Nat /\ \A i \in 1 .. Len(q) - 1 : i + 1 \in 1 .. Len(q)
      OBVIOUS
<1> QED BY <1>1, <1>2

(* What waits stays typed and has a task to handle. *)
LEMMA WaitingStep ==
    ASSUME IInv, Polling \/ Dequeue \/ Recovery \/ Crash
    PROVE  Waiting' /\ Batches'
<1>a. Waiting /\ Batches
      BY DEF IInv, TypeOK, Waiting
<1>b. local \in [Tasks -> Rows]
      BY DEF IInv, TypeOK
<1> USE <1>a DEF Waiting, Batches
<1>1. CASE Pull
  <2>1. \A t \in Tasks : local[t].held \subseteq Tasks
        BY <1>b DEF Rows
  <2>2. reserved' \subseteq Tasks
        BY <1>1, <2>1 DEF Pull
  <2>3. poll' \in [stage : {"idle", "pulled", "persisting"}, tasks : SUBSET Tasks]
        /\ poll'.stage # "persisting"
        BY <1>1 DEF Pull
  <2> QED BY <1>1, <2>2, <2>3 DEF Pull
<1>2. CASE Filter
      BY <1>2 DEF Filter
<1>3. CASE Enqueue
  <2>1. poll.tasks \in SUBSET Tasks /\ poll.tasks # {}
        BY <1>3 DEF Enqueue
  <2> DEFINE b == poll.tasks
  <2>2. queue' = Append(queue, b)
        BY <1>3 DEF Enqueue
  <2> HIDE DEF b
  <2>3. queue' \in Seq(SUBSET Tasks) /\ \A i \in 1 .. Len(queue') : queue'[i] # {}
        BY <2>1, <2>2, AppendOne DEF b
  <2> QED BY <1>3, <2>3 DEF Enqueue
<1>4. CASE Dequeue
  <2>1. Head(queue) \in SUBSET Tasks /\ Head(queue) # {}
    <3>1. queue # <<>> /\ Len(queue) \in Nat /\ Len(queue) # 0
          BY <1>4 DEF Dequeue
    <3>2. Head(queue) = queue[1] /\ 1 \in 1 .. Len(queue)
          BY <3>1
    <3> QED BY <3>1, <3>2, HeadTailProperties
  <2> DEFINE w == [batch |-> Head(queue), rstat |-> "none"]
  <2>2. w \in Requests /\ w.batch # {}
        BY <2>1 DEF Requests
  <2>3. waiters' = Append(waiters, w) /\ queue' = Tail(queue)
        BY <1>4 DEF Dequeue
  <2> HIDE DEF w
  <2>4. waiters' \in Seq(Requests) /\ \A i \in 1 .. Len(waiters') : waiters'[i].batch # {}
        BY <2>2, <2>3, AppendRequest
  <2>5. queue' \in Seq(SUBSET Tasks) /\ \A i \in 1 .. Len(queue') : queue'[i] # {}
        BY <1>4, <2>3, TailAll DEF Dequeue
  <2> QED BY <1>4, <2>4, <2>5 DEF Dequeue
<1>5. ASSUME NEW S \in SUBSET Tasks, Select(S)
      PROVE  Waiting' /\ Batches'
  <2>1. \A t \in S : FoundAs(t) \in Recoverable
        BY <1>5 DEF Select, Selectable, FoundAs, Recoverable
  <2>2. recovering' \subseteq Requests /\ \A w \in recovering' : w.batch # {}
    <3>1. \A t \in S : [batch |-> {t}, rstat |-> FoundAs(t)] \in Requests
          BY <2>1 DEF Requests
    <3>2. PICK T \in SUBSET S :
             recovering' = {[batch |-> {t}, rstat |-> FoundAs(t)] : t \in T}
          BY <1>5 DEF Select
    <3>3. ASSUME NEW w \in recovering' PROVE w \in Requests /\ w.batch # {}
      <4>1. PICK t \in T : w = [batch |-> {t}, rstat |-> FoundAs(t)]
            BY <3>2
      <4>2. w.batch = {t} /\ t \in S
            BY <4>1
      <4> QED BY <3>1, <4>1, <4>2
    <3> QED BY <3>3
  <2> QED BY <1>5, <2>2 DEF Select
<1>6. ASSUME NEW w \in recovering, Recover(w)
      PROVE  Waiting' /\ Batches'
  <2>1. w \in Requests /\ w.batch # {}
        OBVIOUS
  <2>2. waiters' \in Seq(Requests) /\ \A i \in 1 .. Len(waiters') : waiters'[i].batch # {}
        BY <1>6, <2>1, AppendRequest DEF Recover
  <2> QED BY <1>6, <2>2 DEF Recover
<1>7. CASE Crash
      BY <1>7 DEF Crash, Forgotten
<1> QED BY <1>1, <1>2, <1>3, <1>4, <1>5, <1>6, <1>7 DEF Polling, Recovery

(* They write a row only with its event, before anything is sent, or set     *)
(* the event aside; and they leave the pass alone or end it.                 *)
LEMMA WorkingStep ==
    ASSUME IInv, Polling \/ Dequeue \/ Recovery \/ Crash
    PROVE  /\ UNCHANGED <<platform, retries, dispatch, sent>>
           /\ pass' = pass \/ pass' = None
           /\ faults' \in 0 .. MaxFaults
           /\ \A t \in Tasks :
                 \/ /\ local'[t] = local[t]
                    /\ \/ event'[t] = event[t]
                       \/ event'[t] \in EventStatuses \ {"none", "platform_completed"}
                 \/ /\ local[t].status = "none"
                    /\ local'[t] \in Rows
                    /\ local'[t].status = "platform_queued"
                    /\ event'[t] \in EventStatuses /\ event'[t] # "none"
                    /\ event'[t] = "platform_completed" => event[t] = "platform_completed"
           /\ DOMAIN local' = Tasks /\ local' = [t \in Tasks |-> local'[t]]
           /\ event' = [t \in Tasks |-> event'[t]]
<1>a. /\ event \in [Tasks -> EventStatuses] /\ local \in [Tasks -> Rows]
      /\ faults \in 0 .. MaxFaults /\ poll.tasks \subseteq Tasks
      BY DEF IInv, TypeOK
<1> USE <1>a
<1>1. CASE Pull \/ Filter \/ Dequeue \/ \E w \in recovering : Recover(w)
  <2>1. UNCHANGED <<durable, external, pass, faults>>
        BY <1>1 DEF Pull, Filter, Dequeue, Recover
  <2> QED BY <2>1 DEF durable, external
<1>2. CASE Enqueue
  <2>1. [NoRow EXCEPT !.status = "platform_queued", !.mode = "gate"] \in Rows
        BY DEF NoRow, Rows
  <2>2. \A t \in Tasks : Ensured(t, "platform_queued") \in EventStatuses \ {"none"}
        BY DEF Ensured, EventStatuses, Recoverable
  <2>3. UNCHANGED <<platform, retries, dispatch, sent, pass, faults>>
        BY <1>2 DEF Enqueue, external
  <2>4. /\ local' = [t \in Tasks |->
                       IF t \in poll.tasks /\ local[t].status = "none"
                       THEN [NoRow EXCEPT !.status = "platform_queued", !.mode = "gate"]
                       ELSE local[t]]
        /\ event' = [t \in Tasks |-> IF t \in poll.tasks THEN Ensured(t, "platform_queued")
                                      ELSE event[t]]
        BY <1>2 DEF Enqueue
  <2>5. ASSUME NEW t \in Tasks
        PROVE  /\ event'[t] = event[t] \/ event'[t] = "platform_queued"
               /\ event'[t] \in EventStatuses
               /\ \/ local'[t] = local[t]
                  \/ /\ local[t].status = "none" /\ event'[t] # "none"
                     /\ local'[t] \in Rows /\ local'[t].status = "platform_queued"
        BY <2>1, <2>2, <2>4 DEF Ensured, NoRow
  <2>6. "platform_queued" \in EventStatuses \ {"none", "platform_completed"}
        BY DEF EventStatuses, Recoverable
  <2> QED BY <2>3, <2>4, <2>5, <2>6
<1>3. ASSUME NEW S \in SUBSET Tasks, Select(S)
      PROVE  /\ UNCHANGED <<platform, retries, dispatch, sent, pass, faults, local>>
             /\ event' = [t \in Tasks |-> event'[t]]
             /\ \A t \in Tasks : \/ event'[t] = event[t]
                                 \/ event'[t] = "platform_legacy_quarantined"
  <2>1. PICK T : event' = [t \in Tasks |-> IF t \in T THEN "platform_legacy_quarantined"
                                            ELSE event[t]]
        BY <1>3 DEF Select
  <2> QED BY <1>3, <2>1 DEF Select, external
<1>4. CASE Crash
  <2>1. [NoRow EXCEPT !.status = "platform_queued"] \in Rows
        BY DEF NoRow, Rows
  <2>2. faults' \in 0 .. MaxFaults
        BY <1>4, BoundIsNumber DEF Crash, Fault
  <2>3. UNCHANGED <<platform, retries, dispatch, sent>> /\ pass' = None
        BY <1>4 DEF Crash, Forgotten, external
  <2>4. CASE UNCHANGED <<event, local>>
        BY <2>2, <2>3, <2>4
  <2>5. ASSUME NEW t \in poll.tasks, event[t] = "none",
               event' = [event EXCEPT ![t] = "accepted"],
               local' = [local EXCEPT ![t] = [NoRow EXCEPT !.status = "platform_queued"]]
        PROVE  /\ \A u \in Tasks \ {t} : local'[u] = local[u] /\ event'[u] = event[u]
               /\ local[t].status = "none" /\ local'[t] \in Rows
               /\ local'[t].status = "platform_queued" /\ event'[t] = "accepted"
               /\ local' = [u \in Tasks |-> local'[u]] /\ event' = [u \in Tasks |-> event'[u]]
    <3>1. t \in Tasks
          OBVIOUS
    <3>2. local[t].status = "none"
          BY <2>5, <3>1 DEF IInv, Written
    <3> QED BY <2>1, <2>5, <3>1, <3>2 DEF NoRow
  <2>6. "accepted" \in EventStatuses
        BY DEF EventStatuses
  <2> QED BY <1>4, <2>2, <2>3, <2>4, <2>5, <2>6 DEF Crash
<1> QED BY <1>1, <1>2, <1>3, <1>4 DEF Polling, Recovery, EventStatuses

LEMMA OutsideStep ==
    ASSUME IInv, Polling \/ Dequeue \/ Recovery \/ Crash
    PROVE  IInv'
<1>1. Waiting' /\ Batches'
      BY WaitingStep
<1>2. Working'
      BY WorkingStep DEF IInv, TypeOK, Working
<1>3. TypeOK'
      BY <1>1, <1>2 DEF TypeOK, Waiting, Working
<1>4. \A t \in Tasks : local[t].status # "none" => local'[t] = local[t]
      BY WorkingStep
<1>5. Written'
      BY WorkingStep DEF IInv, Written, Untouched
<1>6. CompletedIsClosed'
      BY WorkingStep DEF IInv, CompletedIsClosed, Closed
<1>7. Passing'
  <2>1. pass' = None \/ pass' = pass
        BY WorkingStep
  <2>2. ASSUME pass' = pass, pass # None
        PROVE  Passing'
    <3>1. pass.task \in Tasks
          BY <2>2, PassFacts DEF IInv
    <3>2. local[pass.task].status = "none" => pass.pc \notin {"invoke", "submit", "posting", "posted", "record"}
          BY <2>2 DEF IInv, Passing
    <3>3. platform' = platform /\ dispatch' = dispatch
          BY WorkingStep
    <3>4. event'[pass.task] # "none"
          BY <2>2, <3>1, WorkingStep DEF IInv, Passing
    <3> QED BY <2>2, <3>1, <3>2, <3>3, <3>4, <1>4 DEF IInv, Passing, Begun, Closed
  <2> QED BY <2>1, <2>2 DEF Passing
<1>8. Lost'
  <2> SUFFICES ASSUME NEW t \in Tasks, ~Closed(t)', local'[t].resp = "none"
               PROVE  Untouched(t)' \/ Over(t)'
      BY DEF Lost
  <2>1. sent' = sent /\ platform' = platform
        BY WorkingStep
  <2>2. CASE local[t].status = "none"
        BY <2>1, <2>2 DEF IInv, Written, Untouched
  <2>3. CASE local[t].status # "none"
    <3>1. local'[t] = local[t] /\ (pass' = pass \/ pass' = None)
          BY <2>3, <1>4, WorkingStep
    <3>2. Untouched(t) \/ Over(t)
          BY <2>1, <3>1 DEF IInv, Lost, Closed
    <3>3. CASE Untouched(t)
          BY <2>1, <3>3 DEF Untouched
    <3>4. CASE Over(t)
          BY <2>1, <3>1, <3>4 DEF Over, Once
    <3> QED BY <3>2, <3>3, <3>4
  <2> QED BY <2>2, <2>3
<1> QED BY <1>1, <1>3, <1>5, <1>6, <1>7, <1>8 DEF IInv

-----------------------------------------------------------------------------
(* The pass: its types *)

LEMMA GateTyped ==
    ASSUME IInv, Gate PROVE Working' /\ reserved' \subseteq Tasks
<1>1. TypeOK /\ pass # None /\ pass \in Passes /\ pass.task \in Tasks
      BY PassFacts DEF Gate, At, IInv
<1>2. faults' \in 0 .. MaxFaults
      BY <1>1, BoundIsNumber DEF Gate, Fault, NoFault, TypeOK
<1>3. UNCHANGED <<platform, dispatch, sent>>
      BY DEF Gate, external
<1>4. CASE Goto("content") /\ UNCHANGED <<event, retries, local, reserved>>
      BY <1>1, <1>2, <1>3, <1>4, GotoTyped DEF Goto, TypeOK, Working
<1>5. CASE Close(pass.task, pass, "no_send") /\ UNCHANGED <<retries, reserved>>
      BY <1>1, <1>2, <1>3, <1>5, CloseTyped DEF TypeOK, Working
<1>6. CASE Defer(pass.task)
      BY <1>1, <1>2, <1>3, <1>6, DeferTyped DEF TypeOK, Working
<1> QED BY <1>4, <1>5, <1>6 DEF Gate

LEMMA PrepareTyped ==
    ASSUME TypeOK, pass # None, NEW k \in Keys, Prepare(k)
    PROVE  /\ local' \in [Tasks -> Rows] /\ event' \in [Tasks -> EventStatuses]
           /\ pass' \in Passes /\ reserved' \subseteq Tasks /\ retries' = retries
<1> DEFINE t == pass.task
           held == local[t].held \cup pass.batch
           new == [local[t] EXCEPT !.status = "sending", !.mode = "gate", !.invoked = FALSE,
                                   !.unsure = FALSE, !.content = k, !.close = 30, !.held = held]
<1>1. pass \in Passes /\ t \in Tasks /\ local[t] \in Rows /\ held \subseteq Tasks
      BY PassFacts DEF Rows
<1>2. new \in Rows
  <2> HIDE DEF held, t
  <2> QED BY <1>1 DEF Rows
<1>3. local' = [local EXCEPT ![t] = new]
      BY DEF Prepare
<1> HIDE DEF new
<1>4. local' \in [Tasks -> Rows]
      BY <1>1, <1>2, <1>3 DEF TypeOK
<1>5. event' = [u \in Tasks |-> IF u = t THEN "platform_processing"
                                ELSE IF u \in held THEN "platform_sequence_waiting"
                                ELSE event[u]]
      BY DEF Prepare
<1>6. event' \in [Tasks -> EventStatuses]
      BY <1>5 DEF TypeOK, EventStatuses, Recoverable
<1> QED BY <1>1, <1>4, <1>6, GotoTyped DEF Prepare, Goto, TypeOK

LEMMA OfferedTyped == ASSUME NEW t PROVE Offered(t) \subseteq Keys
  BY DEF Offered, Keys, Unconsumed

LEMMA ContentTyped ==
    ASSUME IInv, Content PROVE Working' /\ reserved' \subseteq Tasks
<1>1. TypeOK /\ pass # None /\ pass \in Passes /\ pass.task \in Tasks
      BY PassFacts DEF Content, At, IInv
<1>2. faults' \in 0 .. MaxFaults
      BY <1>1, BoundIsNumber DEF Content, Fault, NoFault, TypeOK
<1>3. UNCHANGED <<platform, dispatch, sent>>
      BY DEF Content, external
<1>4. CASE \E k \in Offered(pass.task) : Prepare(k)
      BY <1>1, <1>2, <1>3, <1>4, OfferedTyped, PrepareTyped DEF TypeOK, Working
<1>5. CASE Close(pass.task, pass, "failure") /\ UNCHANGED <<retries, reserved>>
      BY <1>1, <1>2, <1>3, <1>5, CloseTyped DEF TypeOK, Working
<1>6. CASE Defer(pass.task)
      BY <1>1, <1>2, <1>3, <1>6, DeferTyped DEF TypeOK, Working
<1> QED BY <1>4, <1>5, <1>6 DEF Content

(* One row of the pass is updated. *)
LEMMA RowTyped ==
    ASSUME TypeOK, pass # None, NEW new \in Rows,
           \/ local' = [local EXCEPT ![pass.task] = Update(local[pass.task], new)]
           \/ local' = [local EXCEPT ![pass.task] = new]
    PROVE  local' \in [Tasks -> Rows]
<1> DEFINE after == Update(local[pass.task], new)
<1>1. pass.task \in Tasks /\ local[pass.task] \in Rows /\ local \in [Tasks -> Rows]
      BY PassFacts DEF TypeOK
<1>2. after \in Rows
      BY <1>1, UpdateTyped
<1> HIDE DEF after
<1>3. local' = [local EXCEPT ![pass.task] = after] \/ local' = [local EXCEPT ![pass.task] = new]
      BY DEF after
<1> QED BY <1>1, <1>2, <1>3

LEMMA InvokeTyped ==
    ASSUME IInv, Invoke PROVE Working' /\ reserved' \subseteq Tasks
<1> DEFINE r == local[pass.task]
           new == [r EXCEPT !.status = "sending", !.invoked = TRUE]
<1>1. TypeOK /\ pass # None /\ pass \in Passes /\ r \in Rows
      BY PassFacts DEF Invoke, At, IInv
<1>2. new \in Rows
      BY <1>1 DEF Rows
<1>3. local' = [local EXCEPT ![pass.task] = Update(r, new)]
      BY DEF Invoke
<1> HIDE DEF new, r
<1>4. local' \in [Tasks -> Rows]
      BY <1>1, <1>2, <1>3, RowTyped DEF r
<1> QED BY <1>1, <1>4, GotoTyped DEF Invoke, Goto, external, TypeOK, Working

LEMMA SubmitTyped ==
    ASSUME IInv, Submit PROVE Working' /\ reserved' \subseteq Tasks
<1>1. TypeOK /\ pass # None /\ pass \in Passes
      BY PassFacts DEF Submit, At, IInv
<1>2. dispatch' \in [Keys -> {"none", "created", "accepted", "unknown", "failed"}]
      BY <1>1 DEF Submit, TypeOK
<1>3. pass' \in Passes
      BY <1>1, GotoTyped DEF Submit, Goto
<1> QED BY <1>1, <1>2, <1>3 DEF Submit, external, TypeOK, Working

LEMMA ArriveTyped ==
    ASSUME IInv, Arrive PROVE Working' /\ reserved' \subseteq Tasks
<1>1. TypeOK /\ pass # None /\ pass \in Passes /\ pass.task \in Tasks /\ Key \in Keys
      BY PassFacts DEF Arrive, At, IInv, Passing, Key
<1>2. sent' \in [Tasks \X Keys -> 0 .. 2]
  <2>1. <<pass.task, Key>> \in Tasks \X Keys
        BY <1>1
  <2>2. sent' = [sent EXCEPT ![<<pass.task, Key>>] = IF @ = 2 THEN 2 ELSE @ + 1]
        BY DEF Arrive
  <2>3. \A n \in 0 .. 2 : n # 2 => n + 1 \in 0 .. 2
        OBVIOUS
  <2> QED BY <1>1, <2>1, <2>2, <2>3 DEF TypeOK
<1>3. pass' \in Passes
      BY <1>1, GotoTyped DEF Arrive, Goto
<1>4. UNCHANGED <<platform, event, retries, local, dispatch, reserved, faults>>
      BY DEF Arrive, durable
<1> QED BY <1>1, <1>2, <1>3, <1>4 DEF TypeOK, Working

LEMMA AnswerTyped ==
    ASSUME IInv, Answer PROVE Working' /\ reserved' \subseteq Tasks
<1>1. TypeOK /\ pass # None /\ pass \in Passes
      BY PassFacts DEF Answer, At, IInv
<1>2. dispatch' \in [Keys -> {"none", "created", "accepted", "unknown", "failed"}]
      BY <1>1 DEF Answer, TypeOK
<1>3. pass' \in Passes
      BY <1>1, GotoTyped DEF Answer, Goto
<1>4. faults' \in 0 .. MaxFaults
      BY <1>1, BoundIsNumber DEF Answer, Fault, NoFault, TypeOK
<1> QED BY <1>1, <1>2, <1>3, <1>4 DEF Answer, external, TypeOK, Working

LEMMA RejectTyped ==
    ASSUME IInv, Reject PROVE Working' /\ reserved' \subseteq Tasks
<1>1. TypeOK /\ pass # None /\ pass \in Passes /\ pass.task \in Tasks
      BY PassFacts DEF Reject, At, IInv
<1>2. dispatch' \in [Keys -> {"none", "created", "accepted", "unknown", "failed"}]
      BY <1>1 DEF Reject, TypeOK
<1>3. faults' \in 0 .. MaxFaults
      BY <1>1, BoundIsNumber DEF Reject, Fault, TypeOK
<1> QED BY <1>1, <1>2, <1>3, CloseTyped DEF Reject, external, TypeOK, Working

LEMMA LoseAnswerTyped ==
    ASSUME IInv, LoseAnswer PROVE Working' /\ reserved' \subseteq Tasks
<1> DEFINE r == local[pass.task]
           new == [r EXCEPT !.status = "sending", !.close = 30, !.invoked = TRUE, !.unsure = TRUE]
<1>1. TypeOK /\ pass # None /\ pass \in Passes /\ r \in Rows
      BY PassFacts DEF LoseAnswer, At, IInv
<1>2. new \in Rows
      BY <1>1 DEF Rows
<1>3. local' = [local EXCEPT ![pass.task] = Update(r, new)]
      BY DEF LoseAnswer
<1> HIDE DEF new, r
<1>4. local' \in [Tasks -> Rows]
      BY <1>1, <1>2, <1>3, RowTyped DEF r
<1>5. dispatch' \in [Keys -> {"none", "created", "accepted", "unknown", "failed"}]
      BY <1>1 DEF LoseAnswer, TypeOK
<1>6. faults' \in 0 .. MaxFaults
      BY <1>1, BoundIsNumber DEF LoseAnswer, Fault, TypeOK
<1>7. event' \in [Tasks -> EventStatuses]
      BY <1>1 DEF LoseAnswer, TypeOK, EventStatuses, Recoverable
<1>8. pass' \in Passes
      BY <1>1, GotoTyped DEF LoseAnswer
<1> QED BY <1>1, <1>4, <1>5, <1>6, <1>7, <1>8 DEF LoseAnswer, external, TypeOK, Working

LEMMA RecordTyped ==
    ASSUME IInv, Record PROVE Working' /\ reserved' \subseteq Tasks
<1> DEFINE r == local[pass.task]
           new == [r EXCEPT !.status = "sent", !.invoked = TRUE, !.sentAt = TRUE,
                            !.resp = dispatch[Key]]
<1>1. TypeOK /\ pass # None /\ pass \in Passes /\ r \in Rows
      BY PassFacts DEF Record, At, IInv
<1>2. dispatch[Key] \in {"none", "accepted", "unknown"}
      BY DEF Record, At, IInv, Passing, Key
<1>3. new \in Rows
      BY <1>1, <1>2 DEF Rows, DoneStatuses, SentStatuses
<1>4. local' = [local EXCEPT ![pass.task] = new]
      BY DEF Record
<1> HIDE DEF new, r
<1>5. local' \in [Tasks -> Rows]
      BY <1>1, <1>3, <1>4, RowTyped
<1> QED BY <1>1, <1>5, GotoTyped DEF Record, Goto, external, TypeOK, Working

LEMMA PendingTyped ==
    ASSUME IInv, Pending PROVE Working' /\ reserved' \subseteq Tasks
<1>1. TypeOK /\ pass # None /\ pass \in Passes
      BY PassFacts DEF Pending, At, IInv
<1>2. event' \in [Tasks -> EventStatuses]
      BY <1>1 DEF Pending, TypeOK, EventStatuses, Recoverable
<1> QED BY <1>1, <1>2, GotoTyped DEF Pending, Goto, external, TypeOK, Working

LEMMA Consume30Typed ==
    ASSUME IInv, Consume30 PROVE Working' /\ reserved' \subseteq Tasks
<1> DEFINE t == pass.task
           r == local[t]
           new == [r EXCEPT !.status = "completed_without_send"]
           Others == UNCHANGED <<dispatch, sent>> /\ faults' \in 0 .. MaxFaults
<1>1. TypeOK /\ pass # None /\ pass \in Passes /\ r \in Rows /\ t \in Tasks
      BY PassFacts DEF Consume30, At, IInv
<1>2. Others
      BY <1>1, BoundIsNumber DEF Consume30, Fault, NoFault, TypeOK
<1>3. ASSUME platform' = Consumed(t, Key)
      PROVE  platform' \in [task : [Tasks -> {10, 30, 70}], bound : [Groups -> Tasks \cup {None}]]
  <2>1. [platform.task EXCEPT ![t] = 30] \in [Tasks -> {10, 30, 70}]
        BY <1>1 DEF TypeOK
  <2>2. /\ platform.bound \in [Groups -> Tasks \cup {None}]
        /\ [platform.bound EXCEPT ![Key.id] = t] \in [Groups -> Tasks \cup {None}]
        BY <1>1 DEF TypeOK
  <2> QED BY <1>3, <2>1, <2>2 DEF Consumed
<1>4. CASE /\ platform' = Consumed(t, Key) \/ platform' = platform
           /\ (Goto("report30") /\ UNCHANGED <<event, retries>>) \/ Abandon
           /\ UNCHANGED <<local, reserved>>
  <2>1. pass' \in Passes \cup {None} /\ event' \in [Tasks -> EventStatuses]
        /\ retries' \in [Tasks -> 0 .. MaxAttempts]
    <3>1. CASE Goto("report30") /\ UNCHANGED <<event, retries>>
          BY <1>1, <3>1, GotoTyped DEF Goto, TypeOK
    <3>2. CASE Abandon
          BY <1>1, <3>2, AbandonTyped
    <3> QED BY <1>4, <3>1, <3>2
  <2> QED BY <1>1, <1>2, <1>3, <1>4, <2>1 DEF TypeOK, Working
<1>5. CASE Close(t, pass, "failure") /\ UNCHANGED <<retries, platform, reserved>>
      BY <1>1, <1>2, <1>5, CloseTyped DEF TypeOK, Working
<1>6. CASE /\ local' = [local EXCEPT ![t] = Update(r, new)]
           /\ event' = [event EXCEPT ![t] = "platform_completed"]
           /\ pass' = None
           /\ UNCHANGED <<retries, platform, reserved>>
  <2>1. new \in Rows
        BY <1>1 DEF Rows, DoneStatuses
  <2> HIDE DEF new
  <2>2. local' \in [Tasks -> Rows]
        BY <1>1, <1>6, <2>1, RowTyped
  <2> QED BY <1>1, <1>2, <1>6, <2>2 DEF TypeOK, Working, EventStatuses
<1>7. CASE AlreadyOver /\ UNCHANGED platform
      BY <1>1, <1>2, <1>7, AlreadyOverTyped DEF TypeOK, Working
<1> QED BY <1>4, <1>5, <1>6, <1>7 DEF Consume30

LEMMA Report30Typed ==
    ASSUME IInv, Report30 PROVE Working' /\ reserved' \subseteq Tasks
<1>1. TypeOK /\ pass # None /\ pass \in Passes /\ pass.task \in Tasks
      BY PassFacts DEF Report30, At, IInv
<1>2. faults' \in 0 .. MaxFaults
      BY <1>1, BoundIsNumber DEF Report30, Fault, NoFault, TypeOK
<1>3. event' \in [Tasks -> EventStatuses] /\ retries' \in [Tasks -> 0 .. MaxAttempts]
      BY <1>1, BackoffTyped DEF Report30, TypeOK, EventStatuses, Recoverable
<1>4. pass' \in Passes \cup {None}
      BY <1>1, GotoTyped DEF Report30, Goto
<1> QED BY <1>1, <1>2, <1>3, <1>4 DEF Report30, external, TypeOK, Working

LEMMA ReleaseTyped ==
    ASSUME TypeOK, NEW t, NEW held, Release(t, held)
    PROVE  event' \in [Tasks -> EventStatuses] /\ reserved' \subseteq Tasks
  BY DEF Release, TypeOK, EventStatuses

LEMMA Finish30Typed ==
    ASSUME IInv, Finish30 PROVE Working' /\ reserved' \subseteq Tasks
<1> DEFINE r == local[pass.task]
           direct == [r EXCEPT !.status = "sent"]
           resp == IF r.unsure THEN "unknown" ELSE "accepted"
           recovered == [r EXCEPT !.status = "sent_recovered", !.sentAt = TRUE, !.resp = resp]
<1>1. TypeOK /\ pass # None /\ pass \in Passes /\ r \in Rows
      BY PassFacts DEF Finish30, At, IInv
<1>2. direct \in Rows /\ recovered \in Rows
  <2>1. resp \in {"unknown", "accepted"}
        OBVIOUS
  <2> HIDE DEF r, resp
  <2>2. direct \in Rows
        BY <1>1 DEF Rows, DoneStatuses, SentStatuses
  <2>3. recovered \in Rows
        BY <1>1, <2>1 DEF Rows, DoneStatuses, SentStatuses
  <2> QED BY <2>2, <2>3
<1>3. local' = [local EXCEPT ![pass.task] = direct] \/ local' = [local EXCEPT ![pass.task] = recovered]
      BY DEF Finish30
<1> HIDE DEF direct, recovered
<1>4. local' \in [Tasks -> Rows]
      BY <1>1, <1>2, <1>3, RowTyped
<1> QED BY <1>1, <1>4, ReleaseTyped DEF Finish30, external, TypeOK, Working

LEMMA Consume70Typed ==
    ASSUME IInv, Consume70 PROVE Working' /\ reserved' \subseteq Tasks
<1>1. TypeOK /\ pass # None /\ pass \in Passes /\ pass.task \in Tasks
      BY PassFacts DEF Consume70, At, IInv
<1>2. UNCHANGED <<dispatch, sent>> /\ faults' \in 0 .. MaxFaults
      BY <1>1, BoundIsNumber DEF Consume70, Fault, NoFault, TypeOK
<1>3. platform' \in [task : [Tasks -> {10, 30, 70}], bound : [Groups -> Tasks \cup {None}]]
  <2>1. platform' = platform \/ platform' = [platform EXCEPT !.task = [platform.task EXCEPT ![pass.task] = 70]]
        BY DEF Consume70
  <2> DEFINE after == [platform.task EXCEPT ![pass.task] = 70]
  <2>2. after \in [Tasks -> {10, 30, 70}]
        BY <1>1 DEF TypeOK
  <2>3. platform' = platform \/ platform' = [platform EXCEPT !.task = after]
        BY <2>1
  <2>4. platform \in [task : [Tasks -> {10, 30, 70}], bound : [Groups -> Tasks \cup {None}]]
        BY <1>1 DEF TypeOK
  <2>5. [platform EXCEPT !.task = after]
           \in [task : [Tasks -> {10, 30, 70}], bound : [Groups -> Tasks \cup {None}]]
    <3> HIDE DEF after
    <3> QED BY <2>2, <2>4
  <2> QED BY <2>3, <2>4, <2>5
<1>4. CASE (Goto("report70") /\ UNCHANGED <<event, retries>>) /\ UNCHANGED <<local, reserved>>
      BY <1>1, <1>2, <1>3, <1>4, GotoTyped DEF Goto, TypeOK, Working
<1>5. CASE Abandon /\ UNCHANGED <<local, reserved>>
      BY <1>1, <1>2, <1>3, <1>5, AbandonTyped DEF TypeOK, Working
<1>6. CASE AlreadyOver
      BY <1>1, <1>2, <1>3, <1>6, AlreadyOverTyped DEF TypeOK, Working
<1> QED BY <1>4, <1>5, <1>6 DEF Consume70

LEMMA Report70Typed ==
    ASSUME IInv, Report70
    PROVE  Working' /\ reserved' \subseteq Tasks /\ terminal' \subseteq Tasks
<1> DEFINE r == local[pass.task]
           new == [r EXCEPT !.status = IF r.status = "failure_consume_pending"
                                       THEN "failed_consumed" ELSE r.status]
<1>1. TypeOK /\ pass # None /\ pass \in Passes /\ pass.task \in Tasks /\ r \in Rows
      BY PassFacts DEF Report70, At, IInv
<1>2. new \in Rows
      BY <1>1 DEF Rows, DoneStatuses
<1>3. local' = [local EXCEPT ![pass.task] = Update(r, new)]
      BY DEF Report70
<1> HIDE DEF new, r
<1>4. local' \in [Tasks -> Rows]
      BY <1>1, <1>2, <1>3, RowTyped DEF r
<1>5. faults' \in 0 .. MaxFaults
      BY <1>1, BoundIsNumber DEF Report70, Fault, NoFault, TypeOK
<1>6. event' \in [Tasks -> EventStatuses] /\ retries' \in [Tasks -> 0 .. MaxAttempts]
      BY <1>1, BackoffTyped DEF Report70, TypeOK, EventStatuses, Recoverable
<1> QED BY <1>1, <1>4, <1>5, <1>6 DEF Report70, external, TypeOK, Working

(* The lock is handed to the pass that waits first. *)
LEMMA BeginFacts ==
    ASSUME IInv, Begin
    PROVE  /\ pass = None
           /\ Head(waiters) \in Requests
           /\ Earliest(Head(waiters).batch) \in Tasks
           /\ Tail(waiters) \in Seq(Requests)
           /\ \A i \in 1 .. Len(Tail(waiters)) : Tail(waiters)[i].batch # {}
<1>1. waiters \in Seq(Requests) /\ waiters # <<>> /\ \A i \in 1 .. Len(waiters) : waiters[i].batch # {}
      BY DEF IInv, TypeOK, Batches, Begin
<1>2. Len(waiters) \in Nat /\ Len(waiters) # 0 /\ Head(waiters) = waiters[1]
      BY <1>1
<1>3. Head(waiters) \in Requests /\ Head(waiters).batch # {}
      BY <1>1, <1>2, HeadTailProperties
<1>4. Earliest(Head(waiters).batch) \in Head(waiters).batch
      BY <1>3, EarliestIn DEF Requests
<1>5. /\ Tail(waiters) \in Seq(Requests) /\ Len(Tail(waiters)) = Len(waiters) - 1
      /\ \A i \in 1 .. Len(Tail(waiters)) : Tail(waiters)[i] = waiters[i + 1]
      BY <1>1, HeadTailProperties
<1>6. \A i \in 1 .. Len(waiters) - 1 : i + 1 \in 1 .. Len(waiters)
      BY <1>2
<1> QED BY <1>1, <1>3, <1>4, <1>5, <1>6 DEF Begin, Requests

\* The pass that begins for a request, and its task.
First == Earliest(Head(waiters).batch)
Starting == [task |-> First, batch |-> Head(waiters).batch, rstat |-> Head(waiters).rstat,
             pc |-> "gate", how |-> "sent"]

Finished == event[First] = "platform_completed" /\ local[First].status \in DoneStatuses

\* The ways a pass can begin.
BeginsOver == Finished /\ pass' = None /\ UNCHANGED <<event, local>>

BeginsToClose ==
    /\ ~Finished
    /\ ClosesAs(First, Head(waiters).rstat) # "none"
    /\ Close(First, Starting, ClosesAs(First, Head(waiters).rstat))

BeginsToFinish ==
    /\ ~Finished
    /\ ClosesAs(First, Head(waiters).rstat) = "none"
    /\ Resumes(local[First], Head(waiters).rstat)
    /\ event' = [event EXCEPT ![First] = Ensured(First, "platform_queued")]
    /\ pass' = [Starting EXCEPT !.pc = "consume30", !.how = "recovered"]
    /\ UNCHANGED local

BeginsToSend ==
    /\ ~Finished
    /\ ClosesAs(First, Head(waiters).rstat) = "none"
    /\ ~Resumes(local[First], Head(waiters).rstat)
    /\ event' = [event EXCEPT ![First] = Ensured(First, "platform_queued")]
    /\ pass' = Starting
    /\ local' = [local EXCEPT ![First] =
                   Update(@, [@ EXCEPT !.status = "platform_queued", !.mode = "gate"])]

LEMMA BeginCases ==
    ASSUME Begin
    PROVE  /\ BeginsOver \/ BeginsToClose \/ BeginsToFinish \/ BeginsToSend
           /\ UNCHANGED <<retries, dispatch, platform, sent, reserved, poll, queue, recovering, faults>>
           /\ waiters' = Tail(waiters)
           /\ terminal' \subseteq terminal \cup {First}
<1>1. CASE Finished
      BY <1>1 DEF Begin, BeginsOver, Finished, First, external
<1>2. CASE ~Finished
  <2>1. ~(event[First] = "platform_completed" /\ local[First].status \in DoneStatuses)
        BY <1>2 DEF Finished
  <2>2. /\ terminal' = terminal
        /\ IF ClosesAs(First, Head(waiters).rstat) # "none"
           THEN Close(First, Starting, ClosesAs(First, Head(waiters).rstat))
           ELSE /\ event' = [event EXCEPT ![First] = Ensured(First, "platform_queued")]
                /\ IF Resumes(local[First], Head(waiters).rstat)
                   THEN /\ pass' = [Starting EXCEPT !.pc = "consume30", !.how = "recovered"]
                        /\ UNCHANGED local
                   ELSE /\ pass' = Starting
                        /\ local' = [local EXCEPT ![First] =
                                       Update(@, [@ EXCEPT !.status = "platform_queued",
                                                           !.mode = "gate"])]
        BY <2>1 DEF Begin, First, Starting
  <2>3. UNCHANGED <<retries, dispatch, platform, sent, reserved, poll, queue, recovering, faults>>
        /\ waiters' = Tail(waiters)
        BY DEF Begin, external
  <2> QED BY <1>2, <2>2, <2>3 DEF BeginsToClose, BeginsToFinish, BeginsToSend
<1> QED BY <1>1, <1>2

LEMMA KeepsWorking ==
    ASSUME TypeOK, UNCHANGED <<platform, retries, dispatch, sent, faults>>,
           event' \in [Tasks -> EventStatuses], local' \in [Tasks -> Rows],
           pass' \in Passes \cup {None}
    PROVE  Working'
  BY DEF TypeOK, Working

LEMMA BeginTyped ==
    ASSUME IInv, Begin
    PROVE  Working' /\ Waiting' /\ Batches'
<1>1. TypeOK /\ First \in Tasks /\ local[First] \in Rows
      BY BeginFacts DEF IInv, First, TypeOK
<1>2. Starting \in Passes
      BY BeginFacts DEF Starting, First, Passes, Requests
<1>3. Waiting' /\ Batches'
  <2>1. /\ waiters' \in Seq(Requests)
        /\ \A i \in 1 .. Len(waiters') : waiters'[i].batch # {}
        BY BeginFacts, BeginCases
  <2>2. UNCHANGED <<reserved, poll, queue, recovering>> /\ terminal' \subseteq terminal \cup {First}
        BY BeginCases
  <2>3. Waiting'
        BY <1>1, <2>1, <2>2 DEF TypeOK, Waiting
  <2> QED BY <2>1, <2>2, <2>3 DEF IInv, Batches
<1>4. UNCHANGED <<platform, retries, dispatch, sent, faults>>
      BY BeginCases
<1>5. CASE BeginsOver
  <2>1. event' = event /\ local' = local /\ pass' = None
        BY <1>5 DEF BeginsOver
  <2>2. event \in [Tasks -> EventStatuses] /\ local \in [Tasks -> Rows]
        BY <1>1 DEF TypeOK
  <2> QED BY <1>1, <1>3, <1>4, <2>1, <2>2, KeepsWorking
<1>6. CASE BeginsToClose
  <2>1. ClosesAs(First, Head(waiters).rstat) \in {"none", "gate", "no_send", "failure"}
        BY <1>1 DEF ClosesAs, Rows
  <2>2. /\ event' \in [Tasks -> EventStatuses] /\ local' \in [Tasks -> Rows]
        /\ pass' \in Passes
        BY <1>1, <1>2, <1>6, <2>1, CloseTyped DEF BeginsToClose
  <2> QED BY <1>1, <1>3, <1>4, <2>2, KeepsWorking
<1>7. Ensured(First, "platform_queued") \in EventStatuses
      BY <1>1 DEF Ensured, TypeOK, EventStatuses, Recoverable
<1>8. CASE BeginsToFinish
  <2>1. event' \in [Tasks -> EventStatuses] /\ local' \in [Tasks -> Rows]
        BY <1>1, <1>7, <1>8 DEF BeginsToFinish, TypeOK
  <2>2. pass' \in Passes
        BY <1>2, <1>8, GotoTyped DEF BeginsToFinish
  <2> QED BY <1>1, <1>3, <1>4, <2>1, <2>2, KeepsWorking
<1>9. CASE BeginsToSend
  <2> DEFINE new == [local[First] EXCEPT !.status = "platform_queued", !.mode = "gate"]
  <2>1. new \in Rows
        BY <1>1 DEF Rows
  <2>2. Update(local[First], new) \in Rows
        BY <1>1, <2>1, UpdateTyped
  <2>3. local' = [local EXCEPT ![First] = Update(local[First], new)]
        BY <1>9 DEF BeginsToSend
  <2> HIDE DEF new
  <2>4. local' \in [Tasks -> Rows]
        BY <1>1, <2>2, <2>3 DEF TypeOK
  <2>5. event' \in [Tasks -> EventStatuses] /\ pass' \in Passes
        BY <1>1, <1>2, <1>7, <1>9 DEF BeginsToSend, TypeOK
  <2> QED BY <1>1, <1>3, <1>4, <2>4, <2>5, KeepsWorking
<1> QED BY <1>3, <1>5, <1>6, <1>8, <1>9, BeginCases

-----------------------------------------------------------------------------
(* The pass: what it leaves alone *)

Proceeding ==
    \/ Gate \/ Content \/ Invoke \/ Submit \/ Arrive \/ Answer \/ Reject \/ LoseAnswer
    \/ Record \/ Pending \/ Consume30 \/ Report30 \/ Finish30 \/ Consume70 \/ Report70

LEMMA ProceedTyped ==
    ASSUME IInv, Proceeding PROVE Working' /\ Waiting' /\ Batches'
<1>1. UNCHANGED <<poll, queue, waiters, recovering>>
      BY DEF Proceeding, Gate, Content, Invoke, Submit, Arrive, Answer, Reject, LoseAnswer,
             Record, Pending, Consume30, Report30, Finish30, Consume70, Report70
<1>2. terminal' = terminal \/ Report70
      BY DEF Proceeding, Gate, Content, Invoke, Submit, Arrive, Answer, Reject, LoseAnswer,
             Record, Pending, Consume30, Report30, Finish30, Consume70
<1>3. Working' /\ reserved' \subseteq Tasks
      BY GateTyped, ContentTyped, InvokeTyped, SubmitTyped, ArriveTyped, AnswerTyped, RejectTyped,
         LoseAnswerTyped, RecordTyped, PendingTyped, Consume30Typed, Report30Typed,
         Finish30Typed, Consume70Typed, Report70Typed DEF Proceeding
<1>4. terminal' \subseteq Tasks
      BY <1>2, Report70Typed DEF IInv, TypeOK
<1> QED BY <1>1, <1>3, <1>4 DEF IInv, TypeOK, Waiting, Batches

\* Only the row of t changes, and no row or answer is taken back.
RowFrame(t) ==
    /\ \A u \in Tasks : u # t => local'[u] = local[u]
    /\ local'[t].status = "none" => local[t].status = "none"
    /\ local'[t].resp = "none" => local[t].resp = "none"

\* No event is taken back, and only that of t is completed, when t is closed.
EventFrame(t) ==
    \A u \in Tasks :
       \/ event'[u] = event[u]
       \/ event'[u] \notin {"none", "platform_completed"}
       \/ u = t /\ event'[u] # "none" /\ platform'.task[t] # 10

LEMMA UpdateKeeps ==
    ASSUME NEW r \in Rows, NEW new \in Rows, new.resp = r.resp,
           new.status # "none" \/ new.status = r.status
    PROVE  /\ Update(r, new).status = "none" => r.status = "none"
           /\ Update(r, new).resp = r.resp
  BY DEF Update, Rows, SentStatuses

LEMMA RowFrames ==
    ASSUME TypeOK, NEW t \in Tasks, NEW new \in Rows,
           \/ local' = [local EXCEPT ![t] = Update(local[t], new)] /\ new.resp = local[t].resp
           \/ local' = [local EXCEPT ![t] = new] /\ (new.resp = "none" => local[t].resp = "none"),
           new.status # "none" \/ new.status = local[t].status
    PROVE  RowFrame(t)
<1>1. local[t] \in Rows
      BY DEF TypeOK
<1> QED BY <1>1, UpdateKeeps DEF RowFrame, TypeOK

LEMMA CloseFrame ==
    ASSUME TypeOK, NEW t \in Tasks, NEW p, NEW mode \in {"none", "gate", "no_send", "failure"},
           Close(t, p, mode)
    PROVE  RowFrame(t) /\ EventFrame(t)
<1> DEFINE r == local[t]
           status == IF mode = "failure" THEN "failure_consume_pending" ELSE "completed_without_send"
           new == [r EXCEPT !.mode = mode, !.close = 70, !.content = None, !.held = {},
                            !.status = status]
<1>1. local' = [local EXCEPT ![t] = Update(r, new)]
      BY DEF Close
<1>2. r \in Rows
      BY DEF TypeOK
<1>3. new.resp = r.resp /\ new.status # "none"
      BY <1>2 DEF Rows
<1>4. RowFrame(t)
  <2>1. Update(r, new).status # "none" \/ r.status = "none"
        BY <1>2, <1>3 DEF Update, Rows, SentStatuses
  <2>2. Update(r, new).resp = r.resp
        BY <1>2, <1>3 DEF Update, Rows
  <2> HIDE DEF new
  <2> QED BY <1>1, <2>1, <2>2 DEF RowFrame, TypeOK
<1>5. EventFrame(t)
      BY DEF Close, EventFrame, TypeOK
<1> QED BY <1>4, <1>5

LEMMA BackoffFrame ==
    ASSUME TypeOK, pass # None, pass.rstat # "none", Backoff(pass.task)
    PROVE  EventFrame(pass.task)
<1>1. pass.task \in Tasks /\ pass.rstat \in Recoverable
      BY PassFacts
<1>2. pass.rstat \notin {"none", "platform_completed"}
      BY <1>1 DEF Recoverable
<1> QED BY <1>1, <1>2 DEF Backoff, EventFrame, TypeOK

LEMMA AbandonFrame ==
    ASSUME TypeOK, pass # None, Abandon
    PROVE  EventFrame(pass.task)
<1>1. CASE pass.rstat = "none"
      BY <1>1 DEF Abandon, EventFrame
<1>2. CASE pass.rstat # "none"
      BY <1>2, BackoffFrame DEF Abandon
<1> QED BY <1>1, <1>2

LEMMA AlreadyOverFrame ==
    ASSUME TypeOK, pass # None, AlreadyOver
    PROVE  RowFrame(pass.task) /\ EventFrame(pass.task)
<1> DEFINE t == pass.task
           new == [local[t] EXCEPT !.status = "send_failed"]
<1>1. t \in Tasks /\ local[t] \in Rows
      BY PassFacts
<1>2. CASE pass.rstat = "none"
      BY <1>2 DEF AlreadyOver, RowFrame, EventFrame
<1>3. CASE pass.rstat # "none"
  <2>1. local' = [local EXCEPT ![t] = Update(local[t], new)]
        BY <1>3 DEF AlreadyOver
  <2>2. new \in Rows /\ new.resp = local[t].resp /\ new.status # "none"
        BY <1>1 DEF Rows
  <2>3. event' = [event EXCEPT ![t] = "platform_failed"]
        BY <1>3 DEF AlreadyOver
  <2> HIDE DEF new, t
  <2>4. RowFrame(t)
        BY <1>1, <2>1, <2>2, RowFrames
  <2>5. EventFrame(t)
        BY <1>1, <2>3 DEF EventFrame, TypeOK
  <2> QED BY <2>4, <2>5 DEF t
<1> QED BY <1>2, <1>3

LEMMA DeferFrame ==
    ASSUME TypeOK, pass # None, Defer(pass.task)
    PROVE  RowFrame(pass.task) /\ EventFrame(pass.task)
<1> DEFINE t == pass.task
           new == [local[t] EXCEPT !.status = "processing_retry", !.mode = "gate",
                                   !.close = 0, !.content = None]
<1>1. t \in Tasks /\ local[t] \in Rows
      BY PassFacts
<1>2. CASE retries[t] + 1 >= MaxAttempts
      BY <1>1, <1>2, CloseFrame DEF Defer
<1>3. CASE ~(retries[t] + 1 >= MaxAttempts)
  <2>1. local' = [local EXCEPT ![t] = Update(local[t], new)]
        BY <1>3 DEF Defer
  <2>2. new \in Rows /\ new.resp = local[t].resp /\ new.status # "none"
        BY <1>1 DEF Rows
  <2>3. event' = [event EXCEPT ![t] = "platform_processing_retry"]
        BY <1>3 DEF Defer
  <2> HIDE DEF new, t
  <2>4. RowFrame(t)
        BY <1>1, <2>1, <2>2, RowFrames
  <2>5. EventFrame(t)
        BY <1>1, <2>3 DEF EventFrame, TypeOK
  <2> QED BY <2>4, <2>5 DEF t
<1> QED BY <1>2, <1>3

\* The platform and the messages of other tasks are left alone, and no closed
\* task opens again.
OutsideFrame(t) ==
    /\ \A u \in Tasks : u # t => platform'.task[u] = platform.task[u]
    /\ \A u \in Tasks, k \in Keys : u # t => sent'[<<u, k>>] = sent[<<u, k>>]
    /\ Closed(t) => platform'.task[t] # 10

LEMMA SameOutside == ASSUME NEW t, UNCHANGED <<platform, sent>> PROVE OutsideFrame(t)
  BY DEF OutsideFrame, Closed

LEMMA PlatformFrame ==
    ASSUME TypeOK, NEW t \in Tasks, sent' = sent,
           NEW n \in {30, 70}, platform'.task = [platform.task EXCEPT ![t] = n]
    PROVE  OutsideFrame(t) /\ platform'.task[t] # 10
  BY DEF OutsideFrame, Closed, TypeOK

LEMMA SendFrame ==
    ASSUME IInv, Arrive PROVE OutsideFrame(pass.task)
<1>1. pass.task \in Tasks /\ Key \in Keys /\ sent \in [Tasks \X Keys -> 0 .. 2]
      BY PassFacts DEF Arrive, At, IInv, Passing, Key, TypeOK
<1>2. \A u \in Tasks, k \in Keys : u # pass.task => <<u, k>> # <<pass.task, Key>>
      OBVIOUS
<1>3. \A u \in Tasks, k \in Keys : u # pass.task => sent'[<<u, k>>] = sent[<<u, k>>]
      BY <1>1, <1>2 DEF Arrive
<1> QED BY <1>3 DEF Arrive, OutsideFrame, Closed

LEMMA Frame ==
    ASSUME IInv, Proceeding
    PROVE  /\ RowFrame(pass.task) /\ EventFrame(pass.task) /\ OutsideFrame(pass.task)
           /\ pass' = None \/ pass'.task = pass.task
<1> DEFINE t == pass.task
           Goal == RowFrame(t) /\ EventFrame(t) /\ OutsideFrame(t) /\ (pass' = None \/ pass'.task = t)
<1>1. pass # None /\ TypeOK
      BY DEF Proceeding, Gate, Content, Invoke, Submit, Arrive, Answer, Reject, LoseAnswer,
             Record, Pending, Consume30, Report30, Finish30, Consume70, Report70, At, IInv
<1>2. t \in Tasks /\ local[t] \in Rows /\ event \in [Tasks -> EventStatuses] /\ pass \in Passes
      BY <1>1, PassFacts DEF TypeOK
<1>3. \A pc : [pass EXCEPT !.pc = pc].task = t
      BY <1>2 DEF Passes
<1>a. UNCHANGED local => RowFrame(t)
      BY DEF RowFrame
<1>b. UNCHANGED event => EventFrame(t)
      BY DEF EventFrame
<1>c. \A mode \in {"none", "gate", "no_send", "failure"} :
         Close(t, pass, mode) => RowFrame(t) /\ EventFrame(t) /\ pass'.task = t
  <2> SUFFICES ASSUME NEW mode \in {"none", "gate", "no_send", "failure"}, Close(t, pass, mode)
               PROVE  RowFrame(t) /\ EventFrame(t) /\ pass'.task = t
      OBVIOUS
  <2>1. RowFrame(t) /\ EventFrame(t)
        BY <1>1, <1>2, CloseFrame
  <2>2. pass'.task = t
        BY <1>3 DEF Close
  <2> QED BY <2>1, <2>2
<1>d. Defer(t) => RowFrame(t) /\ EventFrame(t) /\ (pass' = None \/ pass'.task = t)
      BY <1>1, <1>c, DeferFrame DEF Defer
<1>e. Abandon => EventFrame(t) /\ pass' = None
      BY <1>1, AbandonFrame DEF Abandon
<1>f. AlreadyOver => RowFrame(t) /\ EventFrame(t) /\ pass' = None
      BY <1>1, AlreadyOverFrame DEF AlreadyOver
<1>g. \A pc : Goto(pc) => pass'.task = t
      BY <1>3 DEF Goto
<1>h. UNCHANGED external => OutsideFrame(t)
      BY SameOutside DEF external
<1>i. ASSUME NEW s \in EventStatuses \ {"none", "platform_completed"},
             event' = [event EXCEPT ![t] = s]
      PROVE  EventFrame(t)
      BY <1>2, <1>i DEF EventFrame
<1>j. ASSUME platform'.task[t] # 10, event' = [event EXCEPT ![t] = "platform_completed"]
      PROVE  EventFrame(t)
      BY <1>2, <1>j DEF EventFrame
<1>k. "platform_complete_pending" \in EventStatuses \ {"none", "platform_completed"}
      /\ "platform_failure_rule_data_pending" \in EventStatuses \ {"none", "platform_completed"}
      BY DEF EventStatuses, Recoverable
<1>4. CASE Gate
      BY <1>4, <1>a, <1>b, <1>c, <1>d, <1>g, <1>h DEF Gate
<1>5. CASE Content
  <2>1. ASSUME NEW k \in Keys, Prepare(k) PROVE RowFrame(t) /\ EventFrame(t) /\ pass'.task = t
    <3> DEFINE held == local[t].held \cup pass.batch
               new == [local[t] EXCEPT !.status = "sending", !.mode = "gate", !.invoked = FALSE,
                                       !.unsure = FALSE, !.content = k, !.close = 30, !.held = held]
    <3>1. local' = [local EXCEPT ![t] = new]
          BY <2>1 DEF Prepare
    <3>2. held \subseteq Tasks
          BY <1>1, <1>2, PassFacts DEF Rows
    <3> HIDE DEF held
    <3>3. new \in Rows
          BY <1>2, <3>2 DEF Rows
    <3>6. new.resp = local[t].resp /\ new.status # "none"
          BY <1>2 DEF Rows
    <3> HIDE DEF new
    <3>4. RowFrame(t)
          BY <1>1, <1>2, <3>1, <3>3, <3>6, RowFrames
    <3>5. EventFrame(t)
          BY <1>2, <2>1 DEF Prepare, EventFrame
    <3> QED BY <2>1, <3>4, <3>5, <1>g DEF Prepare
  <2> QED BY <1>5, <2>1, <1>c, <1>d, <1>h, OfferedTyped DEF Content
<1>6. CASE Invoke
  <2> DEFINE new == [local[t] EXCEPT !.status = "sending", !.invoked = TRUE]
  <2>1. local' = [local EXCEPT ![t] = Update(local[t], new)]
        BY <1>6 DEF Invoke
  <2>2. new \in Rows /\ new.resp = local[t].resp /\ new.status # "none"
        BY <1>2 DEF Rows
  <2> HIDE DEF new
  <2>3. RowFrame(t)
        BY <1>1, <1>2, <2>1, <2>2, RowFrames
  <2> QED BY <1>6, <2>3, <1>b, <1>g, <1>h DEF Invoke
<1>7. CASE Submit
      BY <1>7, <1>a, <1>b, <1>g, <1>h DEF Submit
<1>8. CASE Arrive
      BY <1>8, <1>a, <1>b, <1>g, SendFrame DEF Arrive, durable
<1>9. CASE Answer
      BY <1>9, <1>a, <1>b, <1>g, <1>h DEF Answer
<1>10. CASE Reject
      BY <1>10, <1>c, <1>h DEF Reject
<1>11. CASE LoseAnswer
  <2> DEFINE new == [local[t] EXCEPT !.status = "sending", !.close = 30, !.invoked = TRUE,
                                     !.unsure = TRUE]
  <2>1. local' = [local EXCEPT ![t] = Update(local[t], new)]
        BY <1>11 DEF LoseAnswer
  <2>2. new \in Rows /\ new.resp = local[t].resp /\ new.status # "none"
        BY <1>2 DEF Rows
  <2> HIDE DEF new
  <2>3. RowFrame(t)
        BY <1>1, <1>2, <2>1, <2>2, RowFrames
  <2>4. EventFrame(t)
        BY <1>11, <1>i, <1>k DEF LoseAnswer
  <2>5. pass'.task = t
        BY <1>2, <1>11 DEF LoseAnswer, Passes
  <2> QED BY <1>11, <2>3, <2>4, <2>5, <1>h DEF LoseAnswer
<1>12. CASE Record
  <2> DEFINE new == [local[t] EXCEPT !.status = "sent", !.invoked = TRUE, !.sentAt = TRUE,
                                     !.resp = dispatch[Key]]
  <2>1. local' = [local EXCEPT ![t] = new]
        BY <1>12 DEF Record
  <2>2. dispatch[Key] \in {"accepted", "unknown"}
        BY <1>12 DEF Record, At, IInv, Passing, Key
  <2>a. new \in Rows
        BY <1>2, <2>2 DEF Rows, DoneStatuses, SentStatuses
  <2>3. new.resp # "none" /\ new.status # "none"
        BY <1>2, <2>2 DEF Rows
  <2> HIDE DEF new
  <2>4. RowFrame(t)
        BY <1>1, <1>2, <2>1, <2>a, <2>3, RowFrames
  <2> QED BY <1>12, <2>4, <1>b, <1>g, <1>h DEF Record
<1>13. CASE Pending
  <2>1. EventFrame(t)
        BY <1>13, <1>i, <1>k DEF Pending
  <2> QED BY <1>13, <2>1, <1>a, <1>g, <1>h DEF Pending
<1>14. CASE Consume30
  <2>1. sent' = sent
        BY <1>14 DEF Consume30
  <2>2. ASSUME platform' = Consumed(t, Key) PROVE OutsideFrame(t)
    <3>1. platform'.task = [platform.task EXCEPT ![t] = 30]
          BY <2>2 DEF Consumed
    <3> QED BY <1>1, <1>2, <2>1, <3>1, PlatformFrame
  <2>3. ASSUME UNCHANGED platform PROVE OutsideFrame(t)
        BY <2>1, <2>3, SameOutside
  <2>4. CASE /\ UNCHANGED platform /\ platform.task[t] # 10
             /\ local' = [local EXCEPT ![t] =
                             Update(@, [@ EXCEPT !.status = "completed_without_send"])]
             /\ event' = [event EXCEPT ![t] = "platform_completed"]
             /\ pass' = None
    <3> DEFINE new == [local[t] EXCEPT !.status = "completed_without_send"]
    <3>1. local' = [local EXCEPT ![t] = Update(local[t], new)]
          BY <2>4
    <3>2. new \in Rows /\ new.resp = local[t].resp /\ new.status # "none"
          BY <1>2 DEF Rows, DoneStatuses
    <3> HIDE DEF new
    <3>3. RowFrame(t)
          BY <1>1, <1>2, <3>1, <3>2, RowFrames
    <3>4. EventFrame(t)
          BY <2>4, <1>j DEF Closed
    <3> QED BY <2>3, <2>4, <3>3, <3>4
  <2> QED BY <1>14, <2>2, <2>3, <2>4, <1>a, <1>b, <1>c, <1>e, <1>f, <1>g DEF Consume30
<1>15. CASE Report30
  <2>1. platform'.task[t] # 10 /\ OutsideFrame(t)
        BY <1>15, <1>h DEF Report30, At, IInv, Passing, Closed, external
  <2>2. EventFrame(t)
    <3>1. CASE event' = [event EXCEPT ![t] = "platform_completed"]
          BY <2>1, <3>1, <1>j
    <3>2. CASE event' = [event EXCEPT ![t] = "platform_failure_rule_data_pending"]
          BY <3>2, <1>i, <1>k
    <3>3. CASE pass.rstat # "none" /\ Backoff(t)
          BY <1>1, <3>3, BackoffFrame
    <3> QED BY <1>15, <3>1, <3>2, <3>3 DEF Report30
  <2> QED BY <1>15, <2>1, <2>2, <1>a, <1>g DEF Report30
<1>16. CASE Finish30
  <2> DEFINE resp == IF local[t].unsure THEN "unknown" ELSE "accepted"
             direct == [local[t] EXCEPT !.status = "sent"]
             recovered == [local[t] EXCEPT !.status = "sent_recovered", !.sentAt = TRUE,
                                           !.resp = resp]
  <2>1. local' = [local EXCEPT ![t] = direct] \/ local' = [local EXCEPT ![t] = recovered]
        BY <1>16 DEF Finish30
  <2>a. resp \in {"unknown", "accepted"}
        OBVIOUS
  <2> HIDE DEF resp
  <2>b. direct \in Rows /\ direct.resp = local[t].resp /\ direct.status # "none"
        BY <1>2 DEF Rows, DoneStatuses, SentStatuses
  <2>c. recovered \in Rows
        BY <1>2, <2>a DEF Rows, DoneStatuses, SentStatuses
  <2>2. /\ direct \in Rows /\ direct.resp = local[t].resp /\ direct.status # "none"
        /\ recovered \in Rows /\ recovered.resp # "none" /\ recovered.status # "none"
        BY <1>2, <2>a, <2>b, <2>c DEF Rows
  <2> HIDE DEF direct, recovered
  <2>3. RowFrame(t)
        BY <1>1, <1>2, <2>1, <2>2, RowFrames
  <2>4. platform'.task[t] # 10 /\ OutsideFrame(t)
        BY <1>16, <1>h DEF Finish30, At, IInv, Passing, Closed, external
  <2>5. EventFrame(t)
        BY <1>2, <1>16, <2>4 DEF Finish30, Release, EventFrame
  <2> QED BY <1>16, <2>3, <2>4, <2>5 DEF Finish30
<1>17. CASE Consume70
  <2>1. sent' = sent
        BY <1>17 DEF Consume70
  <2>2. ASSUME platform' = [platform EXCEPT !.task[t] = 70] PROVE OutsideFrame(t)
    <3>1. platform'.task = [platform.task EXCEPT ![t] = 70]
          BY <1>1, <2>2 DEF TypeOK
    <3> QED BY <1>1, <1>2, <2>1, <3>1, PlatformFrame
  <2>3. ASSUME UNCHANGED platform PROVE OutsideFrame(t)
        BY <2>1, <2>3, SameOutside
  <2> QED BY <1>17, <2>2, <2>3, <1>a, <1>b, <1>e, <1>f, <1>g DEF Consume70
<1>18. CASE Report70
  <2> DEFINE status == IF local[t].status = "failure_consume_pending"
                       THEN "failed_consumed" ELSE local[t].status
             new == [local[t] EXCEPT !.status = status]
  <2>1. local' = [local EXCEPT ![t] = Update(local[t], new)]
        BY <1>18 DEF Report70
  <2>2. /\ new \in Rows /\ new.resp = local[t].resp
        /\ new.status # "none" \/ new.status = local[t].status
        BY <1>2 DEF Rows, DoneStatuses
  <2> HIDE DEF new
  <2>3. RowFrame(t)
        BY <1>1, <1>2, <2>1, <2>2, RowFrames
  <2>4. platform'.task[t] # 10 /\ OutsideFrame(t)
        BY <1>18, <1>h DEF Report70, At, IInv, Passing, Closed, external
  <2>5. EventFrame(t)
    <3>1. CASE event' = [event EXCEPT ![t] = "platform_completed"]
          BY <2>4, <3>1, <1>j
    <3>2. CASE event' = [event EXCEPT ![t] = "platform_failure_rule_data_pending"]
          BY <3>2, <1>i, <1>k
    <3>3. CASE pass.rstat # "none" /\ Backoff(t)
          BY <1>1, <3>3, BackoffFrame
    <3> QED BY <1>18, <3>1, <3>2, <3>3 DEF Report70
  <2> QED BY <1>18, <2>3, <2>4, <2>5 DEF Report70
<1> QED BY <1>4, <1>5, <1>6, <1>7, <1>8, <1>9, <1>10, <1>11, <1>12, <1>13, <1>14, <1>15, <1>16,
           <1>17, <1>18 DEF Proceeding


-----------------------------------------------------------------------------
(* The pass: the invariant *)

\* The places of a pass that rely on nothing but the event.
Resting == {"gate", "content", "pending", "consume30", "consume70"}

LEMMA RestingPass ==
    ASSUME pass' = None \/ (pass'.pc \in Resting /\ event'[pass'.task] # "none")
    PROVE  Passing'
  BY DEF Passing, Resting

LEMMA GotoPc ==
    ASSUME pass \in Passes, NEW pc
    PROVE  /\ [pass EXCEPT !.pc = pc].pc = pc
           /\ \A how : [pass EXCEPT !.pc = pc, !.how = how].pc = pc
  BY DEF Passes

(* The next place of the pass. *)
LEMMA NextPlace ==
    ASSUME IInv, Proceeding
    PROVE  \/ pass' = None \/ pass'.pc \in Resting
           \/ Content /\ pass'.pc = "invoke"
           \/ Invoke /\ pass'.pc = "submit"
           \/ Submit /\ pass'.pc \in {"posting", "record"}
           \/ Arrive /\ pass'.pc = "posted"
           \/ Answer /\ pass'.pc = "record"
           \/ Consume30 /\ pass'.pc = "report30"
           \/ Report30 /\ pass'.pc = "finish30"
           \/ Consume70 /\ pass'.pc = "report70"
<1>1. pass \in Passes
      BY PassFacts DEF IInv, Proceeding, Gate, Content, Invoke, Submit, Arrive, Answer, Reject,
         LoseAnswer, Record, Pending, Consume30, Report30, Finish30, Consume70, Report70, At
<1>2. \A pc : Goto(pc) => pass'.pc = pc
      BY <1>1, GotoPc DEF Goto
<1>3. \A t, mode : Close(t, pass, mode) => pass'.pc \in Resting
      BY <1>1, GotoPc DEF Close, Resting
<1>4. \A t : Defer(t) => pass' = None \/ pass'.pc \in Resting
      BY <1>3 DEF Defer
<1>5. (Abandon => pass' = None) /\ (AlreadyOver => pass' = None)
      BY DEF Abandon, AlreadyOver
<1>6. CASE Gate
      BY <1>2, <1>3, <1>4, <1>6 DEF Gate, Resting
<1>7. CASE Content
      BY <1>2, <1>3, <1>4, <1>7 DEF Content, Prepare
<1>8. CASE Invoke \/ Submit \/ Arrive \/ Answer
      BY <1>2, <1>8 DEF Invoke, Submit, Arrive, Answer
<1>9. CASE Reject
      BY <1>3, <1>9 DEF Reject
<1>10. CASE LoseAnswer
      BY <1>1, <1>10, GotoPc DEF LoseAnswer, Resting
<1>11. CASE Record \/ Pending
      BY <1>2, <1>11 DEF Record, Pending, Resting
<1>12. CASE Consume30
      BY <1>2, <1>3, <1>5, <1>12 DEF Consume30
<1>13. CASE Report30
      BY <1>2, <1>13 DEF Report30
<1>14. CASE Consume70
      BY <1>2, <1>5, <1>14 DEF Consume70
<1>15. CASE Finish30 \/ Report70
      BY <1>15 DEF Finish30, Report70
<1> QED BY <1>6, <1>7, <1>8, <1>9, <1>10, <1>11, <1>12, <1>13, <1>14, <1>15 DEF Proceeding

LEMMA ProceedPassing ==
    ASSUME IInv, Proceeding PROVE Passing'
<1> DEFINE t == pass.task
<1>1. pass # None /\ pass \in Passes /\ t \in Tasks /\ local \in [Tasks -> Rows]
      BY PassFacts DEF IInv, TypeOK, Proceeding, Gate, Content, Invoke, Submit, Arrive, Answer,
         Reject, LoseAnswer, Record, Pending, Consume30, Report30, Finish30, Consume70, Report70, At
<1>2. event[t] # "none" /\ (pass' = None \/ pass'.task = t)
      BY <1>1, Frame DEF IInv, Passing
<1>3. event'[t] # "none"
      BY <1>1, <1>2, Frame DEF EventFrame
<1>4. CASE pass' = None \/ pass'.pc \in Resting
      BY <1>2, <1>3, <1>4, RestingPass
<1> SUFFICES ASSUME pass' # None, pass'.task = t, pass'.pc \notin Resting PROVE Passing'
    BY <1>2, <1>4
<1>5. CASE Content /\ pass'.pc = "invoke"
  <2>1. PICK k \in Keys : Prepare(k)
    <3>1. \A u, mode : Close(u, pass, mode) => pass'.pc = "consume70"
          BY <1>1, GotoPc DEF Close
    <3>2. \A u : Defer(u) => pass' = None \/ pass'.pc = "consume70"
          BY <3>1 DEF Defer
    <3> QED BY <1>5, <3>1, <3>2, OfferedTyped DEF Content
  <2> DEFINE held == local[t].held \cup pass.batch
             new == [local[t] EXCEPT !.status = "sending", !.mode = "gate", !.invoked = FALSE,
                                     !.unsure = FALSE, !.content = k, !.close = 30, !.held = held]
  <2>2. local' = [local EXCEPT ![t] = new]
        BY <2>1 DEF Prepare
  <2> HIDE DEF held
  <2>3. new.status = "sending" /\ new.content = k /\ new.close = 30
        BY <1>1 DEF Rows
  <2> HIDE DEF new
  <2>4. local'[t] = new
        BY <1>1, <2>2
  <2> QED BY <1>3, <1>5, <2>1, <2>3, <2>4 DEF Passing
<1>6. CASE Invoke /\ pass'.pc = "submit"
  <2> DEFINE r == local[t]
             new == [r EXCEPT !.status = "sending", !.invoked = TRUE]
  <2>1. local' = [local EXCEPT ![t] = Update(r, new)]
        BY <1>6 DEF Invoke
  <2>2. r \in Rows /\ r.content \in Keys /\ r.status = "sending" /\ r.close = 30
        BY <1>1, <1>6 DEF Invoke, At, IInv, Passing
  <2>3. /\ Update(r, new).content \in Keys /\ Update(r, new).status # "none"
        /\ Update(r, new).resp = "none" => Begun(Update(r, new))
        BY <2>2 DEF Update, SendEvidence, SentStatuses, Begun, Rows
  <2> HIDE DEF new
  <2>4. local'[t] = Update(r, new)
        BY <1>1, <2>1
  <2> QED BY <1>3, <1>6, <2>3, <2>4 DEF Passing
<1>7. CASE Submit /\ pass'.pc \in {"posting", "record"}
  <2>1. local' = local /\ pass.pc = "submit"
        BY <1>7 DEF Submit, At
  <2>2. pass'.pc = "record" => dispatch'[Key] \in {"accepted", "unknown"}
    <3>1. Goto("posting") => pass'.pc = "posting"
          BY <1>1, GotoPc DEF Goto
    <3> QED BY <1>7, <3>1 DEF Submit
  <2> QED BY <1>1, <1>3, <1>7, <2>1, <2>2 DEF IInv, Passing, Key
<1>8. CASE Arrive /\ pass'.pc = "posted"
  <2>1. local' = local /\ pass.pc = "posting"
        BY <1>8 DEF Arrive, At, durable
  <2> QED BY <1>1, <1>3, <1>8, <2>1 DEF IInv, Passing
<1>9. CASE Answer /\ pass'.pc = "record"
  <2>1. local' = local /\ pass.pc = "posted"
        BY <1>9 DEF Answer, At
  <2>2. Key \in Keys
        BY <1>1, <2>1 DEF IInv, Passing, Key
  <2>3. dispatch'[Key] \in {"accepted", "unknown"}
        BY <1>9, <2>2 DEF Answer, IInv, TypeOK
  <2> QED BY <1>1, <1>3, <1>9, <2>1, <2>3 DEF IInv, Passing, Key
<1>10. CASE Consume30 /\ pass'.pc = "report30"
  <2>1. platform' = Consumed(t, Key)
    <3>1. \A u, mode : Close(u, pass, mode) => pass'.pc = "consume70"
          BY <1>1, GotoPc DEF Close
    <3> QED BY <1>10, <3>1 DEF Consume30, Abandon, AlreadyOver
  <2>2. platform'.task[t] # 10
        BY <1>1, <2>1 DEF Consumed, IInv, TypeOK
  <2> QED BY <1>3, <1>10, <2>2 DEF Passing, Closed
<1>11. CASE Report30 /\ pass'.pc = "finish30"
  <2>1. platform' = platform /\ pass.pc = "report30"
        BY <1>11 DEF Report30, At, external
  <2> QED BY <1>1, <1>3, <1>11, <2>1 DEF IInv, Passing, Closed
<1>12. CASE Consume70 /\ pass'.pc = "report70"
  <2>1. platform' = [platform EXCEPT !.task[t] = 70]
        BY <1>12 DEF Consume70, Abandon, AlreadyOver
  <2>2. platform'.task[t] # 10
        BY <1>1, <2>1 DEF IInv, TypeOK
  <2> QED BY <1>3, <1>12, <2>2 DEF Passing, Closed
<1> QED BY <1>5, <1>6, <1>7, <1>8, <1>9, <1>10, <1>11, <1>12, NextPlace

LEMMA SentStays ==
    ASSUME Proceeding, ~Arrive PROVE sent' = sent
  BY DEF Proceeding, Gate, Content, Invoke, Submit, Answer, Reject, LoseAnswer, Record, Pending,
         Consume30, Report30, Finish30, Consume70, Report70, external

\* What was begun is kept by Close as a failure.
LEMMA KeptByClose ==
    ASSUME IInv, NEW t \in Tasks, NEW p, Kept(local[t]), local[t].resp = "none",
           Close(t, p, "failure")
    PROVE  Kept(local'[t])
<1> DEFINE r == local[t]
           new == [r EXCEPT !.mode = "failure", !.close = 70, !.content = None, !.held = {},
                            !.status = "failure_consume_pending"]
<1>1. r \in Rows /\ local \in [Tasks -> Rows]
      BY DEF IInv, TypeOK
<1>2. local'[t] = Update(r, new)
      BY <1>1 DEF Close
<1>3. ~SendEvidence(r)
      BY DEF SendEvidence, Kept, Begun, SentStatuses
<1>4. new.status = "failure_consume_pending" /\ new.mode = "failure"
      BY <1>1 DEF Rows
<1> QED BY <1>2, <1>3, <1>4 DEF Update, Kept

(* What was sent over a row stays sent once, and the row is kept. *)
LEMMA ProceedLost ==
    ASSUME IInv, Proceeding PROVE Lost'
<1>1. pass # None /\ pass \in Passes /\ pass.task \in Tasks /\ local \in [Tasks -> Rows]
      BY PassFacts DEF IInv, TypeOK, Proceeding, Gate, Content, Invoke, Submit, Arrive, Answer,
         Reject, LoseAnswer, Record, Pending, Consume30, Report30, Finish30, Consume70, Report70, At
<1>2. RowFrame(pass.task) /\ OutsideFrame(pass.task) /\ (pass' = None \/ pass'.task = pass.task)
      BY Frame
<1> SUFFICES ASSUME NEW t \in Tasks, platform'.task[t] = 10, local'[t].resp = "none"
             PROVE  Untouched(t)' \/ Over(t)'
    BY DEF Lost, Closed
<1>3. ~Closed(t) /\ local[t].resp = "none"
      BY <1>2 DEF RowFrame, OutsideFrame, Closed
<1>4. Untouched(t) \/ Over(t)
      BY <1>3 DEF IInv, Lost
<1>5. CASE t # pass.task
  <2>1. local'[t] = local[t] /\ \A k \in Keys : sent'[<<t, k>>] = sent[<<t, k>>]
        BY <1>2, <1>5 DEF RowFrame, OutsideFrame
  <2>2. CASE Untouched(t)
        BY <2>1, <2>2 DEF Untouched
  <2>3. CASE Over(t)
    <3>1. Once(t)'
          BY <2>1, <2>3 DEF Over, Once
    <3> QED BY <1>2, <1>5, <2>1, <2>3, <3>1 DEF Over
  <2> QED BY <1>4, <2>2, <2>3
<1>6. CASE t = pass.task /\ Arrive
  <2>1. pass.pc = "posting" /\ local' = local
        BY <1>6 DEF Arrive, At, durable
  <2>2. Key \in Keys /\ Begun(local[t])
        BY <1>1, <1>3, <1>6, <2>1 DEF IInv, Passing, Key
  <2>3. Untouched(t)
        BY <1>1, <1>4, <1>6, <2>1 DEF Over
  <2>4. sent' = [sent EXCEPT ![<<t, Key>>] = IF @ = 2 THEN 2 ELSE @ + 1]
        BY <1>6 DEF Arrive
  <2>5. sent[<<t, Key>>] = 0 /\ sent \in [Tasks \X Keys -> 0 .. 2]
        BY <2>2, <2>3 DEF Untouched, IInv, TypeOK
  <2>6. sent'[<<t, Key>>] = 1
        BY <2>2, <2>4, <2>5
  <2>7. \A j \in Keys : j # Key => sent'[<<t, j>>] = 0
        BY <2>3, <2>4, <2>5 DEF Untouched
  <2>8. Once(t)'
    <3> DEFINE k == Key
    <3>1. k \in Keys /\ sent'[<<t, k>>] = 1 /\ \A j \in Keys : j # k => sent'[<<t, j>>] = 0
          BY <2>2, <2>6, <2>7
    <3> HIDE DEF k
    <3> QED BY <3>1 DEF Once
  <2>9. pass'.pc = "posted"
        BY <1>1, <1>6, GotoPc DEF Arrive, Goto
  <2> QED BY <2>1, <2>2, <2>8, <2>9 DEF Over, Kept
<1>7. CASE t = pass.task /\ ~Arrive
  <2>1. sent' = sent
        BY <1>7, SentStays
  <2>2. CASE Untouched(t)
        BY <2>1, <2>2 DEF Untouched
  <2> SUFFICES ASSUME Over(t) PROVE Over(t)'
      BY <1>4, <2>2
  <2>3. /\ Once(t)' /\ Kept(local[t])
        /\ pass.pc \in {"posted", "record", "consume30", "consume70"}
        BY <1>1, <1>7, <2>1 DEF Over, Once
  <2>4. Answer \/ LoseAnswer \/ Record \/ Consume30 \/ Consume70
        BY <1>7, <2>3 DEF Proceeding, Gate, Content, Invoke, Submit, Arrive, Reject, Pending,
           Report30, Finish30, Report70, At
  <2>5. CASE Answer
    <3>1. local' = local /\ pass'.pc = "record"
          BY <1>1, <2>5, GotoPc DEF Answer, Goto
    <3> QED BY <2>3, <3>1 DEF Over
  <2>6. CASE LoseAnswer
    <3> DEFINE r == local[t]
               new == [r EXCEPT !.status = "sending", !.close = 30, !.invoked = TRUE,
                                !.unsure = TRUE]
    <3>1. local' = [local EXCEPT ![t] = Update(r, new)]
          BY <1>7, <2>6 DEF LoseAnswer
    <3>2. r \in Rows /\ new.status = "sending" /\ new.close = 30 /\ new.invoked
          BY <1>1 DEF Rows
    <3>3. ~SendEvidence(r)
          BY <1>3, <2>3 DEF SendEvidence, Kept, Begun, SentStatuses
    <3> HIDE DEF new
    <3>4. local'[t] = new
          BY <1>1, <3>1, <3>3 DEF Update
    <3>5. pass'.pc = "consume30"
          BY <1>1, <2>6, GotoPc DEF LoseAnswer
    <3> QED BY <2>3, <3>2, <3>4, <3>5 DEF Over, Kept, Begun
  <2>7. CASE Record
    <3>1. dispatch[Key] \in {"accepted", "unknown"}
          BY <2>7 DEF Record, At, IInv, Passing, Key
    <3>2. local'[t].resp = dispatch[Key]
          BY <1>1, <1>7, <2>7 DEF Record, Rows
    <3> QED BY <3>1, <3>2
  <2>8. CASE Consume30
    <3>1. CASE platform' = Consumed(pass.task, Key)
      <4>1. platform'.task[t] = 30
            BY <1>7, <3>1 DEF Consumed, IInv, TypeOK
      <4> QED BY <4>1
    <3>2. CASE local' = local /\ pass' = None
          BY <2>3, <3>2 DEF Over
    <3>3. CASE Close(pass.task, pass, "failure")
      <4>1. Kept(local'[t])
            BY <1>3, <1>7, <2>3, <3>3, KeptByClose
      <4>2. pass'.pc = "consume70"
            BY <1>1, <3>3, GotoPc DEF Close
      <4> QED BY <2>3, <4>1, <4>2 DEF Over
    <3>4. platform.task[pass.task] = 10
          BY <1>3, <1>7 DEF Closed
    <3> QED BY <2>8, <3>1, <3>2, <3>3, <3>4 DEF Consume30, Abandon
  <2>9. CASE Consume70
    <3>1. CASE platform' = [platform EXCEPT !.task[pass.task] = 70]
      <4>1. platform'.task[t] = 70
            BY <1>7, <3>1 DEF IInv, TypeOK
      <4> QED BY <4>1
    <3>2. CASE local' = local /\ pass' = None
          BY <2>3, <3>2 DEF Over
    <3>3. platform.task[pass.task] = 10
          BY <1>3, <1>7 DEF Closed
    <3> QED BY <2>9, <3>1, <3>2, <3>3 DEF Consume70, Abandon
  <2> QED BY <2>4, <2>5, <2>6, <2>7, <2>8, <2>9
<1> QED BY <1>5, <1>6, <1>7

LEMMA ProceedStep ==
    ASSUME IInv, Proceeding PROVE IInv'
<1>1. pass # None /\ pass.task \in Tasks
      BY PassFacts DEF IInv, Proceeding, Gate, Content, Invoke, Submit, Arrive, Answer, Reject,
         LoseAnswer, Record, Pending, Consume30, Report30, Finish30, Consume70, Report70, At
<1>2. TypeOK' /\ Batches'
      BY ProceedTyped DEF TypeOK, Waiting, Working
<1>3. Written'
  <2> SUFFICES ASSUME NEW t \in Tasks
               PROVE  /\ event'[t] = "none" => local'[t].status = "none"
                      /\ local'[t].status = "none" => Untouched(t)'
      BY DEF Written
  <2>1. ASSUME event'[t] = "none" PROVE local'[t].status = "none"
    <3>1. event[t] = "none"
          BY <2>1, Frame DEF EventFrame
    <3>2. t # pass.task
          BY <1>1, <3>1 DEF IInv, Passing
    <3> QED BY <3>1, <3>2, Frame DEF RowFrame, IInv, Written
  <2>2. ASSUME local'[t].status = "none" PROVE Untouched(t)'
    <3>1. local[t].status = "none"
          BY <2>2, Frame DEF RowFrame
    <3>2. Untouched(t)
          BY <3>1 DEF IInv, Written
    <3>3. CASE ~Arrive
          BY <3>2, <3>3, SentStays DEF Untouched
    <3>4. CASE Arrive
      <4>1. t # pass.task
            BY <1>1, <3>1, <3>4 DEF Arrive, At, IInv, Passing
      <4> QED BY <3>2, <4>1, Frame DEF OutsideFrame, Untouched
    <3> QED BY <3>3, <3>4
  <2> QED BY <2>1, <2>2
<1>4. CompletedIsClosed'
  <2> SUFFICES ASSUME NEW t \in Tasks, event'[t] = "platform_completed"
               PROVE  platform'.task[t] # 10
      BY DEF CompletedIsClosed, Closed
  <2>1. CASE event'[t] = event[t]
    <3>1. Closed(t)
          BY <2>1 DEF IInv, CompletedIsClosed
    <3> QED BY <1>1, <3>1, Frame DEF OutsideFrame, Closed
  <2> QED BY <2>1, Frame DEF EventFrame
<1> QED BY <1>2, <1>3, <1>4, ProceedPassing, ProceedLost DEF IInv

-----------------------------------------------------------------------------
(* The start of a pass *)

\* A pass begins on a task whose event is written; the row is kept or made.
LEMMA BeginFrame ==
    ASSUME IInv, Begin
    PROVE  /\ RowFrame(First)
           /\ \A u \in Tasks : \/ event'[u] = event[u]
                               \/ event'[u] \notin {"none", "platform_completed"}
           /\ \/ pass' = None
              \/ /\ pass'.task = First /\ event'[First] # "none"
                 /\ pass'.pc \in {"gate", "consume30", "consume70"}
           /\ UNCHANGED <<event, local>> \/ event'[First] # "none"
<1>1. TypeOK /\ First \in Tasks /\ local[First] \in Rows /\ Starting \in Passes
      BY BeginFacts DEF IInv, First, TypeOK, Starting, Passes, Requests
<1>2. CASE BeginsOver
      BY <1>2 DEF BeginsOver, RowFrame
<1>3. CASE BeginsToClose
  <2>1. ClosesAs(First, Head(waiters).rstat) \in {"none", "gate", "no_send", "failure"}
        BY <1>1 DEF ClosesAs, Rows
  <2>2. RowFrame(First)
        BY <1>1, <1>3, <2>1, CloseFrame DEF BeginsToClose
  <2>3. event' = [event EXCEPT ![First] = "platform_complete_pending"]
        /\ pass' = [Starting EXCEPT !.pc = "consume70"]
        BY <1>3 DEF BeginsToClose, Close
  <2> QED BY <1>1, <2>2, <2>3 DEF Starting, TypeOK
<1>4. ASSUME event' = [event EXCEPT ![First] = Ensured(First, "platform_queued")]
      PROVE  /\ event'[First] # "none"
             /\ \A u \in Tasks : \/ event'[u] = event[u]
                                 \/ event'[u] \notin {"none", "platform_completed"}
      BY <1>1, <1>4 DEF Ensured, TypeOK
<1>5. CASE BeginsToFinish
      BY <1>4, <1>5 DEF BeginsToFinish, RowFrame, Starting
<1>6. CASE BeginsToSend
  <2> DEFINE new == [local[First] EXCEPT !.status = "platform_queued", !.mode = "gate"]
  <2>1. local' = [local EXCEPT ![First] = Update(local[First], new)]
        BY <1>6 DEF BeginsToSend
  <2>2. new \in Rows /\ new.resp = local[First].resp /\ new.status # "none"
        BY <1>1 DEF Rows
  <2> HIDE DEF new
  <2>3. RowFrame(First)
        BY <1>1, <2>1, <2>2, RowFrames
  <2> QED BY <1>4, <1>6, <2>3 DEF BeginsToSend, Starting
<1> QED BY <1>2, <1>3, <1>5, <1>6, BeginCases

LEMMA BeginStep ==
    ASSUME IInv, Begin PROVE IInv'
<1>1. pass = None /\ First \in Tasks /\ local \in [Tasks -> Rows]
      BY BeginFacts DEF IInv, TypeOK, First
<1>2. TypeOK' /\ Batches'
      BY BeginTyped DEF TypeOK, Waiting, Working
<1>3. platform' = platform /\ sent' = sent
      BY BeginCases
<1>4. Written'
  <2> SUFFICES ASSUME NEW t \in Tasks
               PROVE  /\ event'[t] = "none" => local'[t].status = "none"
                      /\ local'[t].status = "none" => Untouched(t)'
      BY DEF Written
  <2>1. local'[t].status = "none" => local[t].status = "none"
        BY BeginFrame DEF RowFrame
  <2>2. ASSUME event'[t] = "none" PROVE local'[t].status = "none"
    <3>1. event[t] = "none"
          BY <2>2, BeginFrame
    <3>2. CASE t # First
          BY <3>1, <3>2, BeginFrame DEF RowFrame, IInv, Written
    <3>3. CASE t = First
      <4>1. local' = local
            BY <2>2, <3>3, BeginFrame
      <4> QED BY <3>1, <4>1 DEF IInv, Written
    <3> QED BY <3>2, <3>3
  <2> QED BY <1>3, <2>1, <2>2 DEF IInv, Written, Untouched
<1>5. CompletedIsClosed'
      BY <1>3, BeginFrame DEF IInv, CompletedIsClosed, Closed
<1>6. Passing'
  <2>1. pass' = None \/ (pass'.pc \in Resting /\ event'[pass'.task] # "none")
        BY BeginFrame DEF Resting
  <2> QED BY <2>1, RestingPass
<1>7. Lost'
  <2> SUFFICES ASSUME NEW t \in Tasks, platform'.task[t] = 10, local'[t].resp = "none"
               PROVE  Untouched(t)' \/ Over(t)'
      BY DEF Lost, Closed
  <2>1. ~Closed(t) /\ local[t].resp = "none"
        BY <1>3, BeginFrame DEF RowFrame, Closed
  <2>2. CASE Untouched(t)
        BY <1>3, <2>2 DEF Untouched
  <2> SUFFICES ASSUME Over(t) PROVE Over(t)'
      BY <2>1, <2>2 DEF IInv, Lost
  <2>3. Once(t)' /\ Kept(local[t])
        BY <1>3 DEF Over, Once
  <2>4. CASE local'[t] = local[t] /\ (pass' = None \/ pass'.task # t \/ pass'.pc = "consume30")
        BY <2>3, <2>4 DEF Over
  <2>5. CASE t # First
        BY <2>4, <2>5, BeginFrame DEF RowFrame
  <2>6. CASE t = First /\ BeginsOver
        BY <2>4, <2>6 DEF BeginsOver
  <2>7. CASE t = First /\ BeginsToClose
    <3>1. ClosesAs(t, Head(waiters).rstat) = "failure"
      <4>1. Begun(local[t]) => local[t].status = "sending" /\ local[t].close = 30
            BY DEF Begun
      <4> QED BY <2>3, <2>7, <4>1 DEF Kept, ClosesAs, BeginsToClose
    <3>2. Close(t, Starting, "failure")
          BY <2>7, <3>1 DEF BeginsToClose
    <3>3. Kept(local'[t])
          BY <2>1, <2>3, <3>2, KeptByClose
    <3>4. pass'.pc = "consume70"
          BY <3>2 DEF Close, Starting
    <3> QED BY <2>3, <3>3, <3>4 DEF Over
  <2>8. CASE t = First /\ BeginsToFinish
    <3>1. local' = local /\ pass'.pc = "consume30"
          BY <2>8 DEF BeginsToFinish, Starting
    <3> QED BY <2>4, <3>1
  <2>9. CASE t = First /\ BeginsToSend
        BY <2>3, <2>9 DEF BeginsToSend, Kept, Begun, Resumes, ClosesAs
  <2> QED BY <2>5, <2>6, <2>7, <2>8, <2>9, BeginCases
<1> QED BY <1>2, <1>4, <1>5, <1>6, <1>7 DEF IInv

-----------------------------------------------------------------------------
(* The theorems *)

LEMMA StutterIInv == ASSUME IInv, UNCHANGED vars PROVE IInv'
<1> USE DEF vars, durable, external, memory
<1>1. TypeOK'
      BY DEF IInv, TypeOK
<1>2. Batches' /\ Written' /\ CompletedIsClosed'
      BY DEF IInv, Batches, Written, Untouched, CompletedIsClosed, Closed
<1>3. Passing' /\ Lost'
      BY DEF IInv, Passing, Begun, Lost, Over, Once, Untouched, Closed
<1> QED BY <1>1, <1>2, <1>3 DEF IInv

(* The inductive invariant holds in every state of every execution. *)
THEOREM Invariance == Spec => []IInv
<1>1. Init => IInv
      BY InitIInv
<1>2. IInv /\ [Next]_vars => IInv'
  <2> SUFFICES ASSUME IInv, [Next]_vars PROVE IInv'
      OBVIOUS
  <2>1. Next => Polling \/ Dequeue \/ Recovery \/ Crash \/ Begin \/ Proceeding
        BY DEF Next, Pass, Proceeding
  <2> QED BY <2>1, OutsideStep, BeginStep, ProceedStep, StutterIInv
<1> QED BY <1>1, <1>2, PTL DEF Spec

(* The rows, the queues, the locks and the pass are what the code stores. *)
THEOREM TypeCorrect == Spec => []TypeOK
<1>1. IInv => TypeOK
      BY DEF IInv
<1> QED BY <1>1, Invariance, PTL

(* What this side has completed is closed on the platform, whatever request *)
(* or answer was lost and wherever the worker stopped.                      *)
THEOREM ClosedWhenCompleted == Spec => []CompletedIsClosed
<1>1. IInv => CompletedIsClosed
      BY DEF IInv
<1> QED BY <1>1, Invariance, PTL

(* A task that is open with no answer in its row has had at most one        *)
(* submission of one content: what got lost is not sent again.              *)
THEOREM LostStaysUnrepeated == Spec => []LostIsNotRepeated
<1>1. IInv => LostIsNotRepeated
  <2> SUFFICES ASSUME IInv, NEW t \in Tasks, ~Closed(t), local[t].resp = "none"
               PROVE  /\ \A j, k \in Deliveries(t) : j = k
                      /\ \A k \in Deliveries(t) : sent[<<t, k>>] = 1
      BY DEF LostIsNotRepeated
  <2>1. CASE Untouched(t)
    <3>1. Deliveries(t) = {}
          BY <2>1 DEF Untouched, Deliveries
    <3> QED BY <3>1
  <2>2. CASE Once(t)
    <3>1. PICK k \in Keys : sent[<<t, k>>] = 1 /\ \A j \in Keys : j # k => sent[<<t, j>>] = 0
          BY <2>2 DEF Once
    <3>2. \A j \in Deliveries(t) : j = k
          BY <3>1 DEF Deliveries
    <3> QED BY <3>1, <3>2
  <2> QED BY <2>1, <2>2 DEF IInv, Lost, Over
<1> QED BY <1>1, Invariance, PTL

-----------------------------------------------------------------------------
(* What the polls leave out *)

\* Every task in a batch has an event.
KnownBatches ==
    /\ \A i \in 1 .. Len(queue) : \A t \in queue[i] : event[t] # "none"
    /\ \A i \in 1 .. Len(waiters) : \A t \in waiters[i].batch : event[t] # "none"
    /\ \A w \in recovering : \A t \in w.batch : event[t] # "none"
    /\ pass # None => \A t \in pass.batch : event[t] # "none"

\* And so has every task that is reserved or held.
KnownHeld ==
    \A t \in Tasks : event[t] = "none" =>
        t \notin reserved /\ \A u \in Tasks : t \notin local[u].held

\* What this process takes for over, or has marked as failed, is closed.
OverIsClosed == \A t \in Tasks : t \in terminal \/ event[t] = "platform_failed" => Closed(t)

NInv == IInv /\ KnownBatches /\ KnownHeld /\ OverIsClosed

(* No event is taken back, and no task opens again. *)
LEMMA NothingIsTakenBack ==
    ASSUME IInv, [Next]_vars, NEW t \in Tasks
    PROVE  /\ event[t] # "none" => event'[t] # "none"
           /\ Closed(t) => Closed(t)'
<1>1. CASE Polling \/ Dequeue \/ Recovery \/ Crash
      BY <1>1, WorkingStep DEF Closed
<1>2. CASE Begin
      BY <1>2, BeginFrame, BeginCases DEF Closed
<1>3. CASE Proceeding
      BY <1>3, Frame DEF EventFrame, OutsideFrame, Closed
<1>4. CASE UNCHANGED vars
      BY <1>4 DEF vars, durable, external, Closed
<1> QED BY <1>1, <1>2, <1>3, <1>4 DEF Next, Pass, Proceeding

(* A pass keeps its batch. *)
LEMMA BatchIsKept ==
    ASSUME TypeOK, Proceeding
    PROVE  pass' = None \/ pass'.batch = pass.batch
<1>1. pass \in Passes
      BY PassFacts DEF Proceeding, Gate, Content, Invoke, Submit, Arrive, Answer, Reject,
         LoseAnswer, Record, Pending, Consume30, Report30, Finish30, Consume70, Report70, At
<1>2. /\ \A pc : [pass EXCEPT !.pc = pc].batch = pass.batch
      /\ \A pc, how : [pass EXCEPT !.pc = pc, !.how = how].batch = pass.batch
      BY <1>1 DEF Passes
<1>3. (\A pc : Goto(pc) => pass'.batch = pass.batch)
      /\ (\A t, mode : Close(t, pass, mode) => pass'.batch = pass.batch)
      BY <1>2 DEF Goto, Close
<1>4. \A t : Defer(t) => pass' = None \/ pass'.batch = pass.batch
      BY <1>3 DEF Defer
<1>5. (Abandon => pass' = None) /\ (AlreadyOver => pass' = None)
      BY DEF Abandon, AlreadyOver
<1>6. CASE Gate \/ Content
      BY <1>3, <1>4, <1>6 DEF Gate, Content, Prepare
<1>7. CASE Invoke \/ Submit \/ Arrive \/ Answer \/ Reject \/ Record \/ Pending
      BY <1>3, <1>7 DEF Invoke, Submit, Arrive, Answer, Reject, Record, Pending
<1>8. CASE LoseAnswer
      BY <1>2, <1>8 DEF LoseAnswer
<1>9. CASE Consume30 \/ Consume70
      BY <1>3, <1>5, <1>9 DEF Consume30, Consume70
<1>10. CASE Report30 \/ Finish30 \/ Report70
      BY <1>3, <1>10 DEF Report30, Finish30, Report70
<1> QED BY <1>6, <1>7, <1>8, <1>9, <1>10 DEF Proceeding

(* A pass reserves and holds tasks of its batch, its own task, and those its  *)
(* row already holds.                                                         *)
LEMMA UpdateHolds ==
    ASSUME NEW r \in Rows, NEW new \in Rows
    PROVE  Update(r, new).held \subseteq r.held \cup new.held
  BY DEF Update, Rows, SentStatuses

LEMMA CloseHolds ==
    ASSUME TypeOK, NEW t \in Tasks, NEW p,
           NEW mode \in {"none", "gate", "no_send", "failure"}, Close(t, p, mode)
    PROVE  \A u \in Tasks : local'[u].held \subseteq local[u].held
<1> DEFINE r == local[t]
           status == IF mode = "failure" THEN "failure_consume_pending"
                     ELSE "completed_without_send"
           new == ClosedRow(r, mode, status)
<1>1. r \in Rows /\ local \in [Tasks -> Rows]
      BY DEF TypeOK
<1>2. new \in Rows
      BY <1>1, ClosedTyped
<1>3. new.held = {}
      BY <1>1 DEF ClosedRow, Rows
<1>4. local' = [local EXCEPT ![t] = Update(r, new)]
      BY DEF Close, ClosedRow
<1> HIDE DEF new, r
<1>5. Update(r, new).held \subseteq r.held
      BY <1>1, <1>2, <1>3, UpdateHolds
<1> QED BY <1>1, <1>4, <1>5 DEF r

(* An update that leaves the list of the row alone. *)
LEMMA SameHolds ==
    ASSUME TypeOK, NEW t \in Tasks, NEW new \in Rows, new.held = local[t].held,
           local' = [local EXCEPT ![t] = Update(local[t], new)]
    PROVE  \A u \in Tasks : local'[u].held \subseteq local[u].held
<1>1. local \in [Tasks -> Rows] /\ local[t] \in Rows
      BY DEF TypeOK
<1>2. Update(local[t], new).held \subseteq local[t].held
      BY <1>1, UpdateHolds
<1> QED BY <1>1, <1>2

LEMMA DeferHolds ==
    ASSUME TypeOK, NEW t \in Tasks, Defer(t)
    PROVE  /\ \A u \in Tasks : local'[u].held \subseteq local[u].held
           /\ reserved' \subseteq reserved \cup {t}
<1>1. CASE retries[t] + 1 >= MaxAttempts
      BY <1>1, CloseHolds DEF Defer
<1>2. CASE ~(retries[t] + 1 >= MaxAttempts)
  <2> DEFINE new == [local[t] EXCEPT !.status = "processing_retry", !.mode = "gate",
                                     !.close = 0, !.content = None]
  <2>1. local[t] \in Rows
        BY DEF TypeOK
  <2>2. new \in Rows /\ new.held = local[t].held
        BY <2>1 DEF Rows
  <2>3. local' = [local EXCEPT ![t] = Update(local[t], new)] /\ reserved' = reserved \cup {t}
        BY <1>2 DEF Defer
  <2> HIDE DEF new
  <2> QED BY <2>2, <2>3, SameHolds
<1> QED BY <1>1, <1>2

LEMMA AlreadyOverHolds ==
    ASSUME TypeOK, pass # None, AlreadyOver
    PROVE  /\ \A u \in Tasks : local'[u].held \subseteq local[u].held
           /\ reserved' \subseteq reserved \cup {pass.task}
<1>1. CASE pass.rstat = "none"
      BY <1>1 DEF AlreadyOver
<1>2. CASE pass.rstat # "none"
  <2> DEFINE new == [local[pass.task] EXCEPT !.status = "send_failed"]
  <2>1. pass.task \in Tasks /\ local[pass.task] \in Rows
        BY PassFacts
  <2>2. new \in Rows /\ new.held = local[pass.task].held
        BY <2>1 DEF Rows
  <2>3. /\ local' = [local EXCEPT ![pass.task] = Update(local[pass.task], new)]
        /\ reserved' = reserved \cup {pass.task}
        BY <1>2 DEF AlreadyOver
  <2> HIDE DEF new
  <2> QED BY <2>1, <2>2, <2>3, SameHolds
<1> QED BY <1>1, <1>2

LEMMA ProceedHolds ==
    ASSUME IInv, Proceeding
    PROVE  /\ \A u \in Tasks : local'[u].held \subseteq local[u].held \cup pass.batch
           /\ reserved' \subseteq
                 reserved \cup {pass.task} \cup local[pass.task].held \cup pass.batch
<1> DEFINE t == pass.task
<1>1. pass # None /\ TypeOK
      BY DEF Proceeding, Gate, Content, Invoke, Submit, Arrive, Answer, Reject, LoseAnswer,
             Record, Pending, Consume30, Report30, Finish30, Consume70, Report70, At, IInv
<1>2. t \in Tasks /\ local[t] \in Rows /\ local \in [Tasks -> Rows]
      BY <1>1, PassFacts DEF TypeOK
<1>c. \A mode \in {"none", "gate", "no_send", "failure"} :
         Close(t, pass, mode) => \A u \in Tasks : local'[u].held \subseteq local[u].held
      BY <1>1, <1>2, CloseHolds
<1>d. Defer(t) => /\ \A u \in Tasks : local'[u].held \subseteq local[u].held
                  /\ reserved' \subseteq reserved \cup {t}
      BY <1>1, <1>2, DeferHolds
<1>e. AlreadyOver => /\ \A u \in Tasks : local'[u].held \subseteq local[u].held
                     /\ reserved' \subseteq reserved \cup {t}
      BY <1>1, AlreadyOverHolds
<1>3. CASE Gate
      BY <1>c, <1>d, <1>3 DEF Gate
<1>4. CASE Content
  <2>1. ASSUME NEW k, Prepare(k)
        PROVE  /\ \A u \in Tasks : local'[u].held \subseteq local[u].held \cup pass.batch
               /\ reserved' \subseteq reserved \cup local[t].held \cup pass.batch
    <3>1. local'[t].held = local[t].held \cup pass.batch
          BY <1>2, <2>1 DEF Prepare, Rows
    <3>2. \A u \in Tasks : u # t => local'[u] = local[u]
          BY <1>2, <2>1 DEF Prepare
    <3>3. reserved' = reserved \cup local[t].held \cup pass.batch
          BY <2>1 DEF Prepare
    <3> QED BY <3>1, <3>2, <3>3
  <2> QED BY <1>c, <1>d, <1>4, <2>1 DEF Content
<1>5. CASE Submit \/ Arrive \/ Answer \/ Pending \/ Report30
      BY <1>5 DEF Submit, Arrive, Answer, Pending, Report30, durable
<1>6. CASE Invoke
  <2> DEFINE new == [local[t] EXCEPT !.status = "sending", !.invoked = TRUE]
  <2>1. new \in Rows /\ new.held = local[t].held
        BY <1>2 DEF Rows
  <2>2. local' = [local EXCEPT ![t] = Update(local[t], new)] /\ reserved' = reserved
        BY <1>6 DEF Invoke
  <2> HIDE DEF new
  <2> QED BY <1>1, <1>2, <2>1, <2>2, SameHolds
<1>7. CASE Reject
      BY <1>c, <1>7 DEF Reject
<1>8. CASE LoseAnswer
  <2> DEFINE new == [local[t] EXCEPT !.status = "sending", !.close = 30, !.invoked = TRUE,
                                     !.unsure = TRUE]
  <2>1. new \in Rows /\ new.held = local[t].held
        BY <1>2 DEF Rows
  <2>2. local' = [local EXCEPT ![t] = Update(local[t], new)] /\ reserved' = reserved
        BY <1>8 DEF LoseAnswer
  <2> HIDE DEF new
  <2> QED BY <1>1, <1>2, <2>1, <2>2, SameHolds
<1>9. CASE Record
      BY <1>2, <1>9 DEF Record, Rows
<1>10. CASE Consume30
  <2>1. ASSUME local' = [local EXCEPT ![t] =
                           Update(@, [@ EXCEPT !.status = "completed_without_send"])]
        PROVE  \A u \in Tasks : local'[u].held \subseteq local[u].held
    <3> DEFINE new == [local[t] EXCEPT !.status = "completed_without_send"]
    <3>1. new \in Rows /\ new.held = local[t].held
          BY <1>2 DEF Rows, DoneStatuses
    <3>2. local' = [local EXCEPT ![t] = Update(local[t], new)]
          BY <2>1
    <3> HIDE DEF new
    <3> QED BY <1>1, <1>2, <3>1, <3>2, SameHolds
  <2> QED BY <1>c, <1>e, <1>10, <2>1 DEF Consume30
<1>11. CASE Finish30
      BY <1>2, <1>11 DEF Finish30, Release, Rows
<1>12. CASE Consume70
      BY <1>e, <1>12 DEF Consume70
<1>13. CASE Report70
  <2> DEFINE status == IF local[t].status = "failure_consume_pending"
                       THEN "failed_consumed" ELSE local[t].status
             new == [local[t] EXCEPT !.status = status]
  <2>1. status \in DoneStatuses \cup {"none", "platform_queued", "sending", "processing_retry",
                                      "failure_consume_pending", "send_failed"}
        BY <1>2 DEF Rows, DoneStatuses
  <2> HIDE DEF status
  <2>2. new \in Rows /\ new.held = local[t].held
        BY <1>2, <2>1 DEF Rows
  <2>3. local' = [local EXCEPT ![t] = Update(local[t], new)] /\ reserved' = reserved
        BY <1>13 DEF Report70, status
  <2> HIDE DEF new
  <2> QED BY <1>1, <1>2, <2>2, <2>3, SameHolds
<1> QED BY <1>3, <1>4, <1>5, <1>6, <1>7, <1>8, <1>9, <1>10, <1>11, <1>12, <1>13 DEF Proceeding

(* A pass marks a task as failed, or takes it for over, when it is closed. *)
LEMMA ProceedOver ==
    ASSUME IInv, Proceeding, NEW u \in Tasks
    PROVE  /\ event'[u] = "platform_failed" => event[u] = "platform_failed" \/ Closed(u)
           /\ u \in terminal' => u \in terminal \/ Closed(u)
<1> DEFINE t == pass.task
           Marks == event'[u] = "platform_failed" => event[u] = "platform_failed" \/ Closed(u)
<1>1. pass # None /\ TypeOK
      BY DEF Proceeding, Gate, Content, Invoke, Submit, Arrive, Answer, Reject, LoseAnswer,
             Record, Pending, Consume30, Report30, Finish30, Consume70, Report70, At, IInv
<1>2. t \in Tasks /\ event \in [Tasks -> EventStatuses] /\ pass.rstat \in Recoverable \cup {"none"}
      BY <1>1, PassFacts DEF TypeOK
<1>a. \A s \in {"platform_complete_pending", "platform_processing_retry", "platform_completed",
                "platform_failure_rule_data_pending"} :
         event' = [event EXCEPT ![t] = s] => Marks
      BY <1>2
<1>b. \A mode : Close(t, pass, mode) => Marks
      BY <1>a DEF Close
<1>c. Defer(t) => Marks
      BY <1>a, <1>b DEF Defer
<1>d. pass.rstat # "none" /\ Backoff(t) => Marks
      BY <1>2 DEF Backoff, Recoverable
<1>e. Abandon => Marks
      BY <1>d DEF Abandon
<1>f. AlreadyOver /\ Closed(t) => Marks
      BY <1>2 DEF AlreadyOver
<1>3. terminal' = terminal \/ (Report70 /\ terminal' = terminal \cup {t})
      BY DEF Proceeding, Gate, Content, Invoke, Submit, Arrive, Answer, Reject, LoseAnswer,
             Record, Pending, Consume30, Report30, Finish30, Consume70, Report70
<1>4. Report70 => Closed(t)
      BY <1>1 DEF Report70, At, IInv, Passing
<1>5. CASE Gate
      BY <1>b, <1>c, <1>5 DEF Gate
<1>6. CASE Content
      BY <1>b, <1>c, <1>6 DEF Content, Prepare
<1>7. CASE Invoke \/ Submit \/ Arrive \/ Answer \/ Record
      BY <1>7 DEF Invoke, Submit, Arrive, Answer, Record, durable
<1>8. CASE Reject \/ LoseAnswer \/ Pending
      BY <1>a, <1>b, <1>8 DEF Reject, LoseAnswer, Pending
<1>9. CASE Consume30
      BY <1>a, <1>b, <1>e, <1>f, <1>9 DEF Consume30, Closed
<1>10. CASE Report30
      BY <1>a, <1>d, <1>10 DEF Report30
<1>11. CASE Finish30
      BY <1>11 DEF Finish30, Release
<1>12. CASE Consume70
      BY <1>e, <1>f, <1>12 DEF Consume70, Closed
<1>13. CASE Report70
  <2>1. \/ event' = [event EXCEPT ![t] = "platform_completed"]
        \/ event' = [event EXCEPT ![t] = "platform_failure_rule_data_pending"]
        \/ pass.rstat # "none" /\ Backoff(t)
        BY <1>13 DEF Report70
  <2> QED BY <1>a, <1>d, <1>3, <1>4, <1>13, <2>1
<1> QED BY <1>3, <1>4, <1>5, <1>6, <1>7, <1>8, <1>9, <1>10, <1>11, <1>12, <1>13 DEF Proceeding

LEMMA NextOverIsClosed == NInv /\ [Next]_vars => OverIsClosed'
<1> SUFFICES ASSUME NInv, [Next]_vars, NEW t \in Tasks,
                    t \in terminal' \/ event'[t] = "platform_failed"
             PROVE  Closed(t)'
    BY DEF OverIsClosed
<1>1. IInv /\ (t \in terminal \/ event[t] = "platform_failed" => Closed(t))
      BY DEF NInv, OverIsClosed
<1>2. Closed(t) => Closed(t)'
      BY <1>1, NothingIsTakenBack
<1> SUFFICES t \in terminal \/ event[t] = "platform_failed" \/ Closed(t)
    BY <1>1, <1>2
<1>3. CASE Polling \/ Dequeue \/ Recovery
      BY <1>3 DEF Polling, Recovery, Pull, Filter, Enqueue, Ensured, Dequeue, Select, Recover, durable
<1>4. CASE Crash
  <2>1. event \in [Tasks -> EventStatuses] /\ poll.tasks \subseteq Tasks
        BY <1>1 DEF IInv, TypeOK
  <2>2. \/ event' = event
        \/ \E v \in Tasks : event' = [event EXCEPT ![v] = "accepted"]
        BY <1>4, <2>1 DEF Crash
  <2>3. terminal' = {}
        BY <1>4 DEF Crash, Forgotten
  <2> QED BY <2>1, <2>2, <2>3
<1>5. CASE Begin
  <2>1. First \in Tasks
        BY <1>1, <1>5, BeginFacts DEF First
  <2>2. terminal' = terminal \/ (Finished /\ terminal' = terminal \cup {First})
        BY <1>5 DEF Begin, Finished, First
  <2>3. Finished => Closed(First)
        BY <1>1, <2>1 DEF Finished, IInv, CompletedIsClosed
  <2>4. event'[t] = "platform_failed" => event[t] = "platform_failed"
        BY <1>1, <1>5, <2>1, BeginCases
        DEF BeginsOver, BeginsToClose, BeginsToFinish, BeginsToSend, Close, Ensured, IInv, TypeOK
  <2> QED BY <2>2, <2>3, <2>4
<1>6. CASE Proceeding
      BY <1>1, <1>6, ProceedOver
<1>7. CASE UNCHANGED vars
      BY <1>7 DEF vars, durable, memory
<1> QED BY <1>3, <1>4, <1>5, <1>6, <1>7 DEF Next, Pass, Proceeding

LEMMA NextKnownHeld == NInv /\ [Next]_vars => KnownHeld'
<1> SUFFICES ASSUME NInv, [Next]_vars, NEW t \in Tasks, event'[t] = "none"
             PROVE  t \notin reserved' /\ \A u \in Tasks : t \notin local'[u].held
    BY DEF KnownHeld
<1>1. IInv /\ event[t] = "none"
      BY NothingIsTakenBack DEF NInv
<1>2. t \notin reserved /\ \A u \in Tasks : t \notin local[u].held
      BY <1>1 DEF NInv, KnownHeld
<1>3. CASE Polling \/ Dequeue \/ Recovery \/ Crash
  <2>1. \A S : Select(S) => reserved' = reserved \cup {v \in S : local[v].mode = "none"}
        BY DEF Select
  <2>2. \A S : Select(S) => \A v \in S : event[v] # "none"
        BY DEF Select, Selectable, FoundAs, Recoverable
  <2>3. t \notin reserved'
        BY <1>1, <1>2, <1>3, <2>1, <2>2
        DEF Polling, Recovery, Pull, Filter, Enqueue, Dequeue, Recover, Crash, Forgotten, Restored
  <2>4. \A u \in Tasks : local'[u] = local[u] \/ local'[u].held = {}
    <3>1. local \in [Tasks -> Rows] /\ poll.tasks \subseteq Tasks
          BY <1>1 DEF IInv, TypeOK
    <3>2. /\ [NoRow EXCEPT !.status = "platform_queued", !.mode = "gate"].held = {}
          /\ [NoRow EXCEPT !.status = "platform_queued"].held = {}
          BY DEF NoRow
    <3> QED BY <1>3, <3>1, <3>2
        DEF Polling, Recovery, Pull, Filter, Enqueue, Dequeue, Select, Recover, Crash, durable
  <2> QED BY <1>2, <2>3, <2>4
<1>4. CASE Begin
  <2>1. TypeOK /\ First \in Tasks /\ local[First] \in Rows
        BY <1>1, <1>4, BeginFacts DEF IInv, First, TypeOK
  <2>2. reserved' = reserved
        BY <1>4, BeginCases
  <2>3. \A u \in Tasks : local'[u].held \subseteq local[u].held
    <3>1. CASE BeginsOver \/ BeginsToFinish
          BY <3>1 DEF BeginsOver, BeginsToFinish
    <3>2. CASE BeginsToClose
      <4>1. ClosesAs(First, Head(waiters).rstat) \in {"none", "gate", "no_send", "failure"}
            BY <2>1 DEF ClosesAs, Rows
      <4> QED BY <2>1, <3>2, <4>1, CloseHolds DEF BeginsToClose
    <3>3. CASE BeginsToSend
      <4> DEFINE new == [local[First] EXCEPT !.status = "platform_queued", !.mode = "gate"]
      <4>1. new \in Rows /\ new.held = local[First].held
            BY <2>1 DEF Rows
      <4>2. local' = [local EXCEPT ![First] = Update(local[First], new)]
            BY <3>3 DEF BeginsToSend
      <4> HIDE DEF new
      <4> QED BY <2>1, <4>1, <4>2, SameHolds
    <3> QED BY <1>4, <3>1, <3>2, <3>3, BeginCases
  <2> QED BY <1>2, <2>2, <2>3
<1>5. CASE Proceeding
  <2>1. pass # None /\ pass.task \in Tasks
        BY <1>1, <1>5, PassFacts DEF IInv, Proceeding, Gate, Content, Invoke, Submit, Arrive,
           Answer, Reject, LoseAnswer, Record, Pending, Consume30, Report30, Finish30, Consume70,
           Report70, At
  <2>2. t # pass.task /\ t \notin pass.batch
        BY <1>1, <2>1 DEF NInv, KnownBatches, IInv, Passing
  <2> QED BY <1>1, <1>2, <1>5, <2>1, <2>2, ProceedHolds
<1>6. CASE UNCHANGED vars
      BY <1>2, <1>6 DEF vars, durable, memory
<1> QED BY <1>3, <1>4, <1>5, <1>6 DEF Next, Pass, Proceeding

LEMMA NextKnownBatches == NInv /\ [Next]_vars => KnownBatches'
<1> SUFFICES ASSUME NInv, [Next]_vars PROVE KnownBatches'
    OBVIOUS
<1>1. IInv /\ KnownBatches /\ TypeOK
      BY DEF NInv, IInv
<1>2. \A t \in Tasks : event[t] # "none" => event'[t] # "none"
      BY <1>1, NothingIsTakenBack
<1>3. /\ queue \in Seq(SUBSET Tasks) /\ waiters \in Seq(Requests) /\ recovering \subseteq Requests
      /\ pass # None => pass.batch \subseteq Tasks
      BY <1>1, PassFacts DEF TypeOK
<1>4. /\ \A i \in 1 .. Len(queue) : \A t \in queue[i] : event'[t] # "none"
      /\ \A i \in 1 .. Len(waiters) : \A t \in waiters[i].batch : event'[t] # "none"
      /\ \A w \in recovering : \A t \in w.batch : event'[t] # "none"
      /\ pass # None => \A t \in pass.batch : event'[t] # "none"
  <2>1. \A i \in 1 .. Len(queue) : queue[i] \subseteq Tasks
        BY <1>3
  <2>2. \A i \in 1 .. Len(waiters) : waiters[i].batch \subseteq Tasks
    <3>1. \A i \in 1 .. Len(waiters) : waiters[i] \in Requests
          BY <1>3
    <3> QED BY <3>1 DEF Requests
  <2>3. \A w \in recovering : w.batch \subseteq Tasks
        BY <1>3 DEF Requests
  <2>4. \A i \in 1 .. Len(queue) : \A t \in queue[i] : event'[t] # "none"
        BY <1>1, <1>2, <2>1 DEF KnownBatches
  <2>5. \A i \in 1 .. Len(waiters) : \A t \in waiters[i].batch : event'[t] # "none"
        BY <1>1, <1>2, <2>2 DEF KnownBatches
  <2>6. \A w \in recovering : \A t \in w.batch : event'[t] # "none"
        BY <1>1, <1>2, <2>3 DEF KnownBatches
  <2>7. pass # None => \A t \in pass.batch : event'[t] # "none"
        BY <1>1, <1>2, <1>3 DEF KnownBatches
  <2> QED BY <2>4, <2>5, <2>6, <2>7
<1>5. CASE Pull \/ Filter
      BY <1>4, <1>5 DEF Pull, Filter, KnownBatches
<1>6. CASE Enqueue
  <2>1. \A t \in poll.tasks : event'[t] # "none"
        BY <1>1, <1>6 DEF Enqueue, Ensured, TypeOK
  <2> DEFINE b == poll.tasks
  <2>2. queue' = Append(queue, b) /\ b \in SUBSET Tasks
        BY <1>1, <1>6 DEF Enqueue, TypeOK
  <2>3. \A t \in b : event'[t] # "none"
        BY <2>1
  <2> HIDE DEF b
  <2>4. /\ Len(queue') = Len(queue) + 1 /\ queue'[Len(queue) + 1] = b
        /\ \A i \in 1 .. Len(queue) : queue'[i] = queue[i]
        BY <1>3, <2>2, AppendProperties
  <2>5. \A i \in 1 .. Len(queue) + 1 : i \in 1 .. Len(queue) \/ i = Len(queue) + 1
    <3>1. Len(queue) \in Nat
          BY <1>3
    <3> QED BY <3>1
  <2>6. \A i \in 1 .. Len(queue') : \A t \in queue'[i] : event'[t] # "none"
        BY <1>4, <2>3, <2>4, <2>5
  <2> QED BY <1>4, <1>6, <2>6 DEF Enqueue, KnownBatches
<1>7. ASSUME NEW w \in Requests, \A t \in w.batch : event'[t] # "none",
             waiters' = Append(waiters, w)
      PROVE  \A i \in 1 .. Len(waiters') : \A t \in waiters'[i].batch : event'[t] # "none"
  <2>1. /\ Len(waiters') = Len(waiters) + 1 /\ waiters'[Len(waiters) + 1] = w
        /\ \A i \in 1 .. Len(waiters) : waiters'[i] = waiters[i]
        BY <1>3, <1>7, AppendProperties
  <2>2. \A i \in 1 .. Len(waiters) + 1 : i \in 1 .. Len(waiters) \/ i = Len(waiters) + 1
    <3>1. Len(waiters) \in Nat
          BY <1>3
    <3> QED BY <3>1
  <2> QED BY <1>4, <1>7, <2>1, <2>2
<1>8. CASE Dequeue
  <2>1. queue # <<>> /\ Len(queue) \in Nat
        BY <1>3, <1>8 DEF Dequeue
  <2>2. /\ Head(queue) = queue[1] /\ 1 \in 1 .. Len(queue)
        /\ Head(queue) \in SUBSET Tasks
        /\ Len(Tail(queue)) = Len(queue) - 1
        /\ \A i \in 1 .. Len(Tail(queue)) : Tail(queue)[i] = queue[i + 1]
        BY <1>3, <2>1, HeadTailProperties
  <2> DEFINE w == [batch |-> Head(queue), rstat |-> "none"]
  <2>3. w \in Requests /\ \A t \in w.batch : event'[t] # "none"
        BY <1>4, <2>2 DEF Requests
  <2>4. waiters' = Append(waiters, w) /\ queue' = Tail(queue)
        BY <1>8 DEF Dequeue
  <2> HIDE DEF w
  <2>5. \A i \in 1 .. Len(waiters') : \A t \in waiters'[i].batch : event'[t] # "none"
        BY <1>7, <2>3, <2>4
  <2>6. \A i \in 1 .. Len(queue) - 1 : i + 1 \in 1 .. Len(queue)
        BY <2>1
  <2>7. \A i \in 1 .. Len(queue') : \A t \in queue'[i] : event'[t] # "none"
        BY <1>4, <2>2, <2>4, <2>6
  <2> QED BY <1>4, <1>8, <2>5, <2>7 DEF Dequeue, KnownBatches
<1>9. ASSUME NEW S \in SUBSET Tasks, Select(S) PROVE KnownBatches'
  <2>1. \A t \in S : event[t] # "none"
        BY <1>9 DEF Select, Selectable, FoundAs, Recoverable
  <2>2. PICK T \in SUBSET S :
           recovering' = {[batch |-> {t}, rstat |-> FoundAs(t)] : t \in T}
        BY <1>9 DEF Select
  <2>3. \A w \in recovering' : \A t \in w.batch : event'[t] # "none"
        BY <1>2, <2>1, <2>2
  <2> QED BY <1>4, <1>9, <2>3 DEF Select, KnownBatches
<1>10. ASSUME NEW w \in recovering, Recover(w) PROVE KnownBatches'
  <2>1. \A i \in 1 .. Len(waiters') : \A t \in waiters'[i].batch : event'[t] # "none"
        BY <1>3, <1>4, <1>7, <1>10 DEF Recover
  <2> QED BY <1>4, <1>10, <2>1 DEF Recover, KnownBatches
<1>11. CASE Crash
      BY <1>11 DEF Crash, Forgotten, KnownBatches
<1>12. CASE Begin
  <2>1. waiters # <<>> /\ Len(waiters) \in Nat
        BY <1>3, <1>12 DEF Begin
  <2>2. /\ Head(waiters) = waiters[1] /\ 1 \in 1 .. Len(waiters)
        /\ Len(Tail(waiters)) = Len(waiters) - 1
        /\ \A i \in 1 .. Len(Tail(waiters)) : Tail(waiters)[i] = waiters[i + 1]
        BY <1>3, <2>1, HeadTailProperties
  <2>3. \A i \in 1 .. Len(waiters) - 1 : i + 1 \in 1 .. Len(waiters)
        BY <2>1
  <2>4. waiters' = Tail(waiters) /\ queue' = queue /\ recovering' = recovering
        BY <1>12, BeginCases
  <2>5. \A i \in 1 .. Len(waiters') : \A t \in waiters'[i].batch : event'[t] # "none"
        BY <1>4, <2>2, <2>3, <2>4
  <2>6. pass' = None \/ pass'.batch = Head(waiters).batch
    <3>1. /\ Starting.batch = Head(waiters).batch
          /\ [Starting EXCEPT !.pc = "consume70"].batch = Head(waiters).batch
          /\ [Starting EXCEPT !.pc = "consume30", !.how = "recovered"].batch
                = Head(waiters).batch
          BY DEF Starting
    <3>2. \/ pass' = None \/ pass' = Starting \/ pass' = [Starting EXCEPT !.pc = "consume70"]
          \/ pass' = [Starting EXCEPT !.pc = "consume30", !.how = "recovered"]
          BY <1>12, BeginCases
          DEF BeginsOver, BeginsToClose, BeginsToFinish, BeginsToSend, Close
    <3> QED BY <3>1, <3>2
  <2>7. \A t \in Head(waiters).batch : event'[t] # "none"
        BY <1>4, <2>2
  <2> QED BY <1>4, <2>4, <2>5, <2>6, <2>7 DEF KnownBatches
<1>13. CASE Proceeding
  <2>1. UNCHANGED <<queue, waiters, recovering>> /\ pass # None
        BY <1>13 DEF Proceeding, Gate, Content, Invoke, Submit, Arrive, Answer, Reject,
           LoseAnswer, Record, Pending, Consume30, Report30, Finish30, Consume70, Report70, At
  <2>2. pass' = None \/ pass'.batch = pass.batch
        BY <1>1, <1>13, BatchIsKept
  <2> QED BY <1>4, <2>1, <2>2 DEF KnownBatches
<1>14. CASE UNCHANGED vars
      BY <1>4, <1>14 DEF vars, durable, memory, KnownBatches
<1> QED BY <1>5, <1>6, <1>8, <1>9, <1>10, <1>11, <1>12, <1>13, <1>14
    DEF Next, Polling, Recovery, Pass, Proceeding

(* What the polls leave out, the recovery scan finds, but for tasks of the   *)
(* removed execution path and those released while another task held them.   *)
THEOREM NothingIsOverlooked == Spec => []LeftOutIsFound
<1>1. Init => KnownBatches /\ KnownHeld /\ OverIsClosed
      BY DEF Init, KnownBatches, KnownHeld, OverIsClosed, NoRow
<1>2. NInv /\ [Next]_vars => KnownBatches' /\ KnownHeld' /\ OverIsClosed'
      BY NextKnownBatches, NextKnownHeld, NextOverIsClosed
<1>3. Spec => [](KnownBatches /\ KnownHeld /\ OverIsClosed)
  <2>1. IInv /\ (KnownBatches /\ KnownHeld /\ OverIsClosed) /\ [Next]_vars
           => (KnownBatches /\ KnownHeld /\ OverIsClosed)'
        BY <1>2 DEF NInv
  <2> QED BY <1>1, <2>1, Invariance, PTL DEF Spec
<1>4. IInv /\ (KnownBatches /\ KnownHeld /\ OverIsClosed) => LeftOutIsFound
  <2> SUFFICES ASSUME IInv, KnownHeld, OverIsClosed, NEW t \in Tasks, ~Closed(t), LeftOut(t)
               PROVE  FoundAs(t) # "none"
                      \/ event[t] \in {"accepted", "platform_legacy_quarantined"}
      BY DEF LeftOutIsFound
  <2>1. event[t] # "none"
        BY DEF KnownHeld, OverIsClosed, LeftOut, Restored
  <2>2. event[t] \notin {"platform_completed", "platform_failed"}
        BY DEF IInv, CompletedIsClosed, OverIsClosed
  <2>3. event[t] \in EventStatuses
        BY DEF IInv, TypeOK
  <2> QED BY <2>1, <2>2, <2>3 DEF EventStatuses, FoundAs
<1> QED BY <1>3, <1>4, Invariance, PTL

=============================================================================
