------------------------- MODULE V3GenerationProofs -------------------------
(***************************************************************************)
(* Proofs about V3Generation, for any calls, processes, fault budget and   *)
(* setting of the recovery switch.  Inv is the inductive invariant; the    *)
(* safety properties and the refinement of ReplyOnce follow from it, and   *)
(* so does what NoCallHangs asks of single states and steps.               *)
(***************************************************************************)
EXTENDS V3Generation, TLAPS

----------------------------------------------------------------------------
(* What each transaction does to the row *)

(* An insert reserves an absent row for the call, with a live lease and no *)
(* snapshot (_prepare_v3_request_in_connection).                           *)
LEMMA ReserveRow ==
  ASSUME NEW c \in Calls, row \in Rows, Reserve(c)
  PROVE  /\ row' \in Rows
         /\ row.status = "absent"
         /\ row'.status = "generating" /\ row'.owner = c
         /\ row'.snap = None /\ row'.due = FALSE
<1>1. row' = [status |-> "generating", owner |-> c, due |-> FALSE, snap |-> None,
              dispatch |-> FALSE, attempts |-> 0]
  BY DEF Reserve, NoRow
<1>2. 0 \in 0 .. MaxAttempts
  BY MaxAttemptsPositive
<1>3. row' \in Rows
  BY <1>1, <1>2 DEF Rows, Statuses
<1>4. row.status = "absent"
  BY DEF Reserve
<1> QED BY <1>1, <1>3, <1>4

(* A takeover changes the token and renews the deadline, nothing else.     *)
LEMMA ReclaimRow ==
  ASSUME NEW c \in Calls, row \in Rows, Reclaim(c)
  PROVE  /\ row' \in Rows
         /\ row'.status = row.status /\ row'.snap = row.snap
         /\ row'.owner = c /\ row'.due = FALSE
  BY DEF Reclaim, Rows

(* A primary save stores the payload and ends the reservation.             *)
LEMMA SaveRow ==
  ASSUME NEW x \in Payloads, row \in Rows, NEW b \in BOOLEAN, SavePrimary(x, b)
  PROVE  /\ row' \in Rows
         /\ row'.status \in {"completed", "fallback_pending"}
         /\ row'.owner = None /\ row'.snap = x
  BY DEF SavePrimary, SavedStatus, Rows, Statuses

(* The reaper ends an expired reservation and keeps its snapshot.          *)
LEMMA ReapRow ==
  ASSUME row \in Rows, ReapStale
  PROVE  /\ row' \in Rows
         /\ row.status = "generating" /\ row.due = TRUE
         /\ row'.status \notin {"absent", "generating"}
         /\ row'.owner = None /\ row'.snap = row.snap
<1>1. row'.status \in {"completed", "manual_review", "fallback_pending"}
  BY DEF ReapStale, Rows
<1>2. row'.due \in BOOLEAN
  BY DEF ReapStale, Rows
<1>. QED BY <1>1, <1>2 DEF ReapStale, Rows, Statuses

(* The clock only makes the row due.                                       *)
LEMMA DueRow ==
  ASSUME row \in Rows, DeadlinePasses
  PROVE  /\ row' \in Rows
         /\ row'.status = row.status /\ row'.owner = row.owner
         /\ row'.snap = row.snap /\ row'.due = TRUE
  BY DEF DeadlinePasses, Rows

----------------------------------------------------------------------------
(* Types *)

(* The variables start with values of their types.                         *)
LEMMA TypeInit == Init => TypeOK
<1> SUFFICES ASSUME Init PROVE TypeOK
  OBVIOUS
<1>1. row \in Rows
  BY MaxAttemptsPositive DEF Init, NoRow, Rows, Statuses
<1> QED BY <1>1, FaultBound DEF Init, TypeOK, TaskPcs, Ended

(* No handler, failure or crash stores a value of another kind.            *)
LEMMA TypeNext == Inv /\ [Next]_vars => TypeOK'
<1> SUFFICES ASSUME Inv, [Next]_vars PROVE TypeOK'
  OBVIOUS
<1>0. /\ TypeOK
      /\ CallsInFlight
      /\ row.snap \in Payloads \cup {None} /\ row.owner \in Calls \cup {None}
      /\ enabled' = enabled
  BY DEF Inv, TypeOK, Rows, Next, vars
<1>1. ASSUME NEW c \in Calls, CallStep(c) PROVE TypeOK'
  <2>1. ASSUME NEW p \in Procs, Arrive(c, p) PROVE TypeOK'
    BY <1>0, <2>1 DEF TypeOK, TaskPcs, Arrive, ReplayCached, JoinRunning, StartTask, taskVars
  <2>2. CASE Answer(c)
    BY <1>0, <2>2 DEF TypeOK, CallsInFlight, Answer, Unregister, taskVars
  <2>3. CASE AnswerError(c)
    BY <1>0, <2>3 DEF TypeOK, AnswerError, Unregister, taskVars
  <2>4. CASE Disconnect(c)
    BY <1>0, <2>4 DEF TypeOK, Disconnect, Unregister, taskVars
  <2> QED BY <1>1, <2>1, <2>2, <2>3, <2>4 DEF CallStep
<1>2. ASSUME NEW c \in Calls, TaskStep(c) PROVE TypeOK'
  <2>0. UNCHANGED <<st, at, on, answer, running, cached, faults>>
    BY <1>2 DEF TaskStep, callVars
  <2>1. CASE Ingress(c)
    <3>1. row' \in Rows
      BY <1>0, <2>1, ReserveRow DEF Ingress, TypeOK
    <3> QED BY <1>0, <2>0, <2>1, <3>1 DEF TypeOK, TaskPcs, Ingress, Goto
  <2>2. CASE AwaitResult(c)
    BY <1>0, <2>0, <2>2
    DEF TypeOK, TaskPcs, Ended, AwaitResult, ReplayOrWait, GotoWith, Results
  <2>3. CASE ClaimExpired(c)
    <3>1. row' \in Rows
      BY <1>0, <2>3, ReclaimRow DEF ClaimExpired, TypeOK
    <3> QED BY <1>0, <2>0, <2>3, <3>1 DEF TypeOK, TaskPcs, ClaimExpired, Goto
  <2>4. CASE Reread(c)
    BY <1>0, <2>0, <2>4
    DEF TypeOK, TaskPcs, Ended, Reread, ReplayOrWait, GotoWith, Results
  <2>5. CASE Preflight(c)
    BY <1>0, <2>0, <2>5
    DEF TypeOK, TaskPcs, Saving, Preflight, Goto, GotoWith, Results, Payloads, Kinds
  <2>6. CASE Generate(c)
    BY <1>0, <2>0, <2>6
    DEF TypeOK, TaskPcs, Saving, Generate, GotoWith, Results, Payloads, Kinds
  <2>7. CASE Save(c)
    <3>1. row' \in Rows
      BY <1>0, <2>7, SaveRow DEF Save, Inv, SavingHoldsPayload, TypeOK
    <3> QED BY <1>0, <2>0, <2>7, <3>1 DEF TypeOK, TaskPcs, Ended, Save, Goto
  <2> QED BY <1>2, <2>1, <2>2, <2>3, <2>4, <2>5, <2>6, <2>7 DEF TaskStep
<1>3. ASSUME NEW c \in Calls, StoreFails(c) PROVE TypeOK'
  <2>1. row' \in Rows
    BY <1>0, <1>3, ReserveRow, ReclaimRow, SaveRow
    DEF StoreFails, Effect, Inv, SavingHoldsPayload, TypeOK
  <2>2. UNCHANGED <<st, at, on, answer, running, cached>>
    BY <1>3 DEF StoreFails, callVars
  <2>3. faults' \in 0 .. MaxFaults
    BY <1>0, <1>3, FaultBound DEF StoreFails, TypeOK
  <2>4. /\ pc' \in [Calls -> TaskPcs]
        /\ seen' \in [Calls -> Calls \cup {None}]
        /\ result' \in [Calls -> Results \cup {None}]
    BY <1>0, <1>3 DEF StoreFails, TypeOK, TaskPcs, Ended, Goto, GotoWith, Results
  <2> QED BY <1>0, <2>1, <2>2, <2>3, <2>4 DEF TypeOK
<1>4. ASSUME NEW p \in Procs, Crash(p) PROVE TypeOK'
  <2>1. faults' \in 0 .. MaxFaults
    BY <1>0, <1>4, FaultBound DEF Crash, TypeOK
  <2> QED BY <1>0, <1>4, <2>1 DEF Crash, TypeOK, TaskPcs, Ended
<1>5. ASSUME NEW p \in Procs, ForgetCached(p) PROVE TypeOK'
  BY <1>0, <1>5 DEF ForgetCached, TypeOK, callVars, taskVars
<1>6. CASE Expire
  BY <1>0, <1>6, DueRow DEF Expire, TypeOK, httpVars, callVars, taskVars
<1>7. CASE Reap
  BY <1>0, <1>7, ReapRow DEF Reap, TypeOK, httpVars, callVars, taskVars
<1>8. CASE UNCHANGED vars
  BY <1>0, <1>8 DEF vars, TypeOK, httpVars, callVars, taskVars
<1> QED BY <1>1, <1>2, <1>3, <1>4, <1>5, <1>6, <1>7, <1>8 DEF Next, Step

----------------------------------------------------------------------------
(* The steps that touch the row *)

(* What any step may do to the row.  The disjuncts are the four ways the   *)
(* HTTP path and the reaper change it, and the two ways it stays usable.   *)
RowKept == UNCHANGED row

RowReserved(c) ==
    /\ pc[c] = "ingress" /\ pc'[c] \in {"preflight", "error"}
    /\ row.status = "absent" /\ row'.status = "generating"
    /\ row'.owner = c /\ row'.snap = None /\ row'.due = FALSE

RowReclaimed(c) ==
    /\ pc[c] = "reclaim" /\ pc'[c] \in {"preflight", "reread"}
    /\ row.status = "generating" /\ row.owner = seen[c]
    /\ row'.status = "generating" /\ row'.owner = c
    /\ row'.snap = row.snap /\ row'.due = FALSE

RowSaved(c) ==
    /\ pc[c] \in Saving
    /\ row.status = "generating" /\ row.owner = c
    /\ row'.status \in {"completed", "fallback_pending"}
    /\ row'.owner = None /\ row'.snap = result[c]

RowExpired ==
    /\ row'.status = row.status /\ row'.owner = row.owner
    /\ row'.snap = row.snap /\ row'.due = TRUE

RowReaped ==
    /\ row.status = "generating" /\ row.due = TRUE
    /\ row'.status \notin {"absent", "generating"}
    /\ row'.owner = None /\ row'.snap = row.snap

(* Whatever a task step or a failing transaction does to the row is one of *)
(* the four outcomes above, by the task that is at that point.             *)
LEMMA TaskRow ==
  ASSUME Inv, NEW c \in Calls, TaskStep(c) \/ StoreFails(c)
  PROVE  RowKept \/ RowReserved(c) \/ RowReclaimed(c) \/ RowSaved(c)
<1>0. /\ row \in Rows /\ pc \in [Calls -> TaskPcs] /\ enabled \in BOOLEAN
      /\ pc[c] \in Saving => result[c] \in Payloads
  BY DEF Inv, TypeOK, SavingHoldsPayload
<1>1. ASSUME pc[c] = "ingress", Reserve(c), pc'[c] \in {"preflight", "error"}
      PROVE  RowReserved(c)
  BY <1>0, <1>1, ReserveRow DEF RowReserved
<1>2. ASSUME pc[c] = "reclaim", CanReclaim(seen[c]), Reclaim(c),
             pc'[c] \in {"preflight", "reread"}
      PROVE  RowReclaimed(c)
  BY <1>0, <1>2, ReclaimRow DEF RowReclaimed, CanReclaim
<1>3. ASSUME pc[c] \in Saving, Owns(c), SavePrimary(result[c], enabled)
      PROVE  RowSaved(c)
  BY <1>0, <1>3, SaveRow DEF RowSaved, Owns
<1>4. CASE TaskStep(c)
  BY <1>0, <1>1, <1>2, <1>3, <1>4
  DEF TaskStep, RowKept, Ingress, AwaitResult, ClaimExpired, Reread, Preflight,
      Generate, Save, Goto
<1>5. CASE StoreFails(c)
  BY <1>0, <1>1, <1>2, <1>3, <1>5
  DEF StoreFails, Effect, RowKept, Goto, GotoWith, Saving
<1> QED BY <1>4, <1>5

(* Every step does one of these things to the row.                         *)
LEMMA StepRow ==
  ASSUME Inv, [Next]_vars
  PROVE  \/ RowKept
         \/ \E c \in Calls : RowReserved(c) \/ RowReclaimed(c) \/ RowSaved(c)
         \/ RowExpired
         \/ RowReaped
<1>0. row \in Rows
  BY DEF Inv, TypeOK
<1>1. ASSUME NEW c \in Calls, CallStep(c) PROVE RowKept
  BY <1>1 DEF CallStep, Arrive, Answer, AnswerError, Disconnect, RowKept
<1>2. ASSUME NEW p \in Procs, Crash(p) \/ ForgetCached(p) PROVE RowKept
  BY <1>2 DEF Crash, ForgetCached, RowKept
<1>3. CASE Expire
  BY <1>0, <1>3, DueRow DEF Expire, RowExpired
<1>4. CASE Reap
  BY <1>0, <1>4, ReapRow DEF Reap, RowReaped
<1>5. CASE UNCHANGED vars
  BY <1>5 DEF vars, RowKept
<1> QED BY <1>1, <1>2, <1>3, <1>4, <1>5, TaskRow DEF Next, Step

(* A saved snapshot survives every step, so what was durable stays so.     *)
LEMMA SnapStep ==
  ASSUME Inv, [Next]_vars
  PROVE  /\ row.snap # None => row'.snap = row.snap
         /\ \A v : Durable(v) => Durable(v)'
<1>1. row.snap # None => row'.snap = row.snap
  BY StepRow DEF RowKept, RowReserved, RowReclaimed, RowSaved, RowExpired, RowReaped,
     Inv, GeneratingIsUnsaved
<1>2. ASSUME NEW v, Durable(v) PROVE Durable(v)'
  BY <1>1, <1>2 DEF Durable
<1> QED BY <1>1, <1>2

----------------------------------------------------------------------------
(* The inductive invariant *)

(* Calls are answered and cached only with what a finished task returned,  *)
(* and a task finishes only with the row's snapshot or the wait response.  *)
LEMMA DurableNext == Inv /\ [Next]_vars => AnsweredIsDurable'
<1> SUFFICES ASSUME Inv, [Next]_vars PROVE AnsweredIsDurable'
  OBVIOUS
<1>0. TypeOK /\ AnsweredIsDurable /\ CallsInFlight
  BY DEF Inv
<1>1. /\ row.snap # None => row'.snap = row.snap
      /\ \A v : Durable(v) => Durable(v)'
  BY SnapStep
<1>2. ASSUME NEW c \in Calls, CallStep(c) PROVE AnsweredIsDurable'
  <2>1. ASSUME NEW p \in Procs, Arrive(c, p) PROVE AnsweredIsDurable'
    BY <1>0, <1>1, <2>1
    DEF TypeOK, AnsweredIsDurable, Arrive, ReplayCached, JoinRunning, StartTask, taskVars
  <2>2. CASE Answer(c)
    BY <1>0, <1>1, <2>2 DEF TypeOK, AnsweredIsDurable, CallsInFlight, Answer, taskVars
  <2>3. CASE AnswerError(c) \/ Disconnect(c)
    BY <1>0, <1>1, <2>3 DEF TypeOK, AnsweredIsDurable, AnswerError, Disconnect, taskVars
  <2> QED BY <1>2, <2>1, <2>2, <2>3 DEF CallStep
<1>3. ASSUME NEW c \in Calls, TaskStep(c) \/ StoreFails(c) PROVE AnsweredIsDurable'
  <2>1. UNCHANGED <<st, answer, cached>>
    BY <1>3 DEF TaskStep, StoreFails, callVars
  <2>2. ASSUME NEW d \in Calls, pc'[d] = "done", d # c PROVE Durable(result[d])'
    BY <1>0, <1>1, <1>3, <2>2
    DEF TypeOK, AnsweredIsDurable, TaskStep, StoreFails, Ingress, AwaitResult, ClaimExpired,
        Reread, ReplayOrWait, Preflight, Generate, Save, Goto, GotoWith
  <2>3. ASSUME pc'[c] = "done" PROVE Durable(result[c])'
    <3>1. ASSUME ReplayOrWait(c), UNCHANGED row PROVE Durable(result[c])'
      BY <1>0, <3>1 DEF TypeOK, ReplayOrWait, GotoWith, Ready, Durable
    <3>2. ASSUME GotoWith(c, "done", Wait) PROVE Durable(result[c])'
      BY <1>0, <3>2 DEF TypeOK, GotoWith, Durable
    <3>3. ASSUME Save(c) PROVE Durable(result[c])'
      <4>1. Owns(c) /\ SavePrimary(result[c], enabled) /\ Goto(c, "done")
        BY <1>0, <2>3, <3>3 DEF TypeOK, Save, Goto
      <4>2. result[c] \in Payloads /\ row \in Rows /\ enabled \in BOOLEAN
        BY <3>3 DEF Inv, TypeOK, SavingHoldsPayload, Save
      <4>3. row'.snap = result[c] /\ result' = result
        BY <4>1, <4>2, SaveRow DEF Goto
      <4> QED BY <4>2, <4>3, NoneIsFresh DEF Durable, Payloads, Kinds
    <3>4. CASE TaskStep(c)
      BY <1>0, <2>3, <3>1, <3>2, <3>3, <3>4
      DEF TypeOK, TaskStep, Ingress, AwaitResult, ClaimExpired, Reread, Preflight, Generate,
          Goto, GotoWith
    <3>5. CASE StoreFails(c)
      BY <1>0, <2>3, <3>2, <3>5 DEF TypeOK, StoreFails, Goto
    <3> QED BY <1>3, <3>4, <3>5
  <2> QED BY <1>0, <1>1, <2>1, <2>2, <2>3 DEF AnsweredIsDurable
<1>4. ASSUME NEW p \in Procs, Crash(p) PROVE AnsweredIsDurable'
  BY <1>0, <1>1, <1>4 DEF TypeOK, AnsweredIsDurable, Crash, Ended
<1>5. ASSUME NEW p \in Procs, ForgetCached(p) PROVE AnsweredIsDurable'
  BY <1>0, <1>1, <1>5 DEF TypeOK, AnsweredIsDurable, ForgetCached, callVars, taskVars
<1>6. CASE Expire \/ Reap \/ UNCHANGED vars
  BY <1>0, <1>1, <1>6 DEF AnsweredIsDurable, Expire, Reap, vars, httpVars, callVars, taskVars
<1> QED BY <1>2, <1>3, <1>4, <1>5, <1>6 DEF Next, Step

(* The status that ends a reservation and the snapshot come together.      *)
LEMMA UnsavedNext == Inv /\ [Next]_vars => GeneratingIsUnsaved'
  BY StepRow
  DEF RowKept, RowReserved, RowReclaimed, RowSaved, RowExpired, RowReaped, Inv,
      GeneratingIsUnsaved

(* A call has no answer before it is answered.                             *)
LEMMA InFlightNext == Inv /\ [Next]_vars => CallsInFlight'
<1> SUFFICES ASSUME Inv, [Next]_vars PROVE CallsInFlight'
  OBVIOUS
<1>0. TypeOK /\ CallsInFlight
  BY DEF Inv
<1>1. ASSUME NEW c \in Calls, CallStep(c) PROVE CallsInFlight'
  <2>1. ASSUME NEW p \in Procs, Arrive(c, p) PROVE CallsInFlight'
    BY <1>0, <2>1
    DEF TypeOK, CallsInFlight, Arrive, ReplayCached, JoinRunning, StartTask, taskVars
  <2>2. CASE Answer(c) \/ AnswerError(c) \/ Disconnect(c)
    BY <1>0, <2>2 DEF TypeOK, CallsInFlight, Answer, AnswerError, Disconnect, taskVars
  <2> QED BY <1>1, <2>1, <2>2 DEF CallStep
<1>2. ASSUME NEW c \in Calls, TaskStep(c) \/ StoreFails(c) PROVE CallsInFlight'
  <2>1. pc[c] # "none" /\ \A d \in Calls : d # c => pc'[d] = pc[d]
    BY <1>0, <1>2
    DEF TypeOK, TaskStep, StoreFails, Ingress, AwaitResult, ClaimExpired, Reread,
        ReplayOrWait, Preflight, Generate, Save, Saving, Goto, GotoWith
  <2> QED BY <1>0, <1>2, <2>1 DEF CallsInFlight, TaskStep, StoreFails, callVars
<1>3. ASSUME NEW p \in Procs, Crash(p) \/ ForgetCached(p) PROVE CallsInFlight'
  BY <1>0, <1>3 DEF TypeOK, CallsInFlight, Crash, Ended, ForgetCached, callVars, taskVars
<1>4. CASE Expire \/ Reap \/ UNCHANGED vars
  BY <1>0, <1>4 DEF CallsInFlight, Expire, Reap, vars, httpVars, callVars, taskVars
<1> QED BY <1>1, <1>2, <1>3, <1>4 DEF Next, Step

(* A task that is about to save holds a payload.                           *)
LEMMA SavingNext == Inv /\ [Next]_vars => SavingHoldsPayload'
<1> SUFFICES ASSUME Inv, [Next]_vars PROVE SavingHoldsPayload'
  OBVIOUS
<1>0. TypeOK /\ SavingHoldsPayload
  BY DEF Inv
<1>1. ASSUME NEW c \in Calls, CallStep(c) PROVE SavingHoldsPayload'
  BY <1>0, <1>1
  DEF TypeOK, SavingHoldsPayload, CallStep, Arrive, ReplayCached, JoinRunning, StartTask,
      Answer, AnswerError, Disconnect, taskVars, Saving
<1>2. ASSUME NEW c \in Calls, TaskStep(c) PROVE SavingHoldsPayload'
  <2>1. CASE Preflight(c) \/ Generate(c)
    BY <1>0, <2>1
    DEF TypeOK, SavingHoldsPayload, Preflight, Generate, Goto, GotoWith, Payloads, Kinds, Saving
  <2>2. CASE Ingress(c) \/ AwaitResult(c) \/ ClaimExpired(c) \/ Reread(c) \/ Save(c)
    BY <1>0, <2>2
    DEF TypeOK, SavingHoldsPayload, Ingress, AwaitResult, ClaimExpired, Reread, ReplayOrWait,
        Save, Goto, GotoWith, Saving
  <2> QED BY <1>2, <2>1, <2>2 DEF TaskStep
<1>3. ASSUME NEW c \in Calls, StoreFails(c) PROVE SavingHoldsPayload'
  BY <1>0, <1>3 DEF TypeOK, SavingHoldsPayload, StoreFails, Goto, GotoWith, Saving
<1>4. ASSUME NEW p \in Procs, Crash(p) \/ ForgetCached(p) PROVE SavingHoldsPayload'
  BY <1>0, <1>4 DEF TypeOK, SavingHoldsPayload, Crash, ForgetCached, taskVars, Saving
<1>5. CASE Expire \/ Reap \/ UNCHANGED vars
  BY <1>0, <1>5 DEF SavingHoldsPayload, Expire, Reap, vars, httpVars, taskVars
<1> QED BY <1>1, <1>2, <1>3, <1>4, <1>5 DEF Next, Step

(* A task never returns to a point before its claim, and only the read of  *)
(* an expired lease records a token or leads to a claim.                   *)
LEMMA TaskMoves ==
  ASSUME Inv, [Next]_vars, NEW d \in Calls
  PROVE  /\ pc'[d] \in NotYetOwner => pc[d] \in NotYetOwner
         /\ \/ seen'[d] = seen[d] /\ (pc'[d] = "reclaim" => pc[d] = "reclaim")
            \/ LeaseExpired /\ seen'[d] = row.owner /\ RowKept
<1> DEFINE P == /\ pc'[d] \in NotYetOwner => pc[d] \in NotYetOwner
                /\ \/ seen'[d] = seen[d] /\ (pc'[d] = "reclaim" => pc[d] = "reclaim")
                   \/ LeaseExpired /\ seen'[d] = row.owner /\ RowKept
<1>0. TypeOK /\ CallsInFlight
  BY DEF Inv
<1>1. ASSUME NEW c \in Calls, CallStep(c) PROVE P
  <2>1. ASSUME NEW p \in Procs, StartTask(c, p), st[c] = "idle" PROVE P
    BY <1>0, <2>1 DEF TypeOK, CallsInFlight, StartTask, NotYetOwner
  <2>2. ASSUME UNCHANGED taskVars PROVE P
    BY <2>2 DEF taskVars
  <2> QED
    BY <1>1, <2>1, <2>2
    DEF CallStep, Arrive, ReplayCached, JoinRunning, Answer, AnswerError, Disconnect
<1>2. ASSUME NEW c \in Calls, TaskStep(c) PROVE P
  BY <1>0, <1>2
  DEF TypeOK, TaskStep, Ingress, AwaitResult, ClaimExpired, Reread, ReplayOrWait, Preflight,
      Generate, Save, Saving, Goto, GotoWith, NotYetOwner, RowKept
<1>3. ASSUME NEW c \in Calls, StoreFails(c) PROVE P
  BY <1>0, <1>3 DEF TypeOK, StoreFails, Goto, GotoWith, NotYetOwner
<1>4. ASSUME NEW p \in Procs, Crash(p) \/ ForgetCached(p) PROVE P
  BY <1>0, <1>4 DEF TypeOK, Crash, ForgetCached, taskVars, NotYetOwner
<1>5. CASE Expire \/ Reap \/ UNCHANGED vars
  BY <1>5 DEF Expire, Reap, vars, httpVars, taskVars
<1> QED BY <1>1, <1>2, <1>3, <1>4, <1>5 DEF Next, Step

(* No token is seen, or stands in the row, before the claim that mints it. *)
LEMMA TokensNext == Inv /\ [Next]_vars => TokensAreFresh'
<1> SUFFICES ASSUME Inv, [Next]_vars, NEW c \in Calls, pc'[c] \in NotYetOwner
             PROVE  row'.owner # c /\ \A d \in Calls : seen'[d] # c
  BY DEF TokensAreFresh
<1>0. pc[c] \in NotYetOwner /\ row.owner # c /\ \A d \in Calls : seen[d] # c
  BY TaskMoves DEF Inv, TokensAreFresh
<1>1. \A d \in Calls : seen'[d] # c
  BY <1>0, TaskMoves
<1>2. row'.owner # c
  <2>1. ASSUME NEW x \in Calls, RowReserved(x) \/ RowReclaimed(x) \/ RowSaved(x)
        PROVE  row'.owner # c
    <3>1. CASE x = c
      BY <2>1, <3>1, <1>0, NoneIsFresh
      DEF RowReserved, RowReclaimed, RowSaved, NotYetOwner, Saving
    <3>2. CASE x # c
      BY <2>1, <3>2, NoneIsFresh DEF RowReserved, RowReclaimed, RowSaved
    <3> QED BY <3>1, <3>2
  <2> QED BY <1>0, <2>1, StepRow, NoneIsFresh DEF RowKept, RowExpired, RowReaped
<1> QED BY <1>1, <1>2

(* A lease somebody saw expired stays expired while its token stands,      *)
(* because no claim mints a token twice.                                   *)
LEMMA SeenNext == Inv /\ [Next]_vars => SeenIsExpired'
<1> SUFFICES ASSUME Inv, [Next]_vars, NEW d \in Calls, pc'[d] = "reclaim"
             PROVE  seen'[d] # None /\ (row'.owner = seen'[d] => row'.due)
  BY DEF SeenIsExpired
<1>1. CASE LeaseExpired /\ seen'[d] = row.owner /\ RowKept
  BY <1>1 DEF LeaseExpired, RowKept
<1>2. CASE seen'[d] = seen[d] /\ pc[d] = "reclaim"
  <2>1. seen[d] # None /\ (row.owner = seen[d] => row.due)
    BY <1>2 DEF Inv, SeenIsExpired
  <2>2. ASSUME NEW x \in Calls, RowReserved(x) \/ RowReclaimed(x)
        PROVE  row'.owner # seen[d]
    BY <2>2 DEF RowReserved, RowReclaimed, Inv, TokensAreFresh, NotYetOwner
  <2>3. ASSUME NEW x \in Calls, RowSaved(x) PROVE row'.owner # seen[d]
    BY <2>1, <2>3 DEF RowSaved
  <2> QED BY <1>2, <2>1, <2>2, <2>3, StepRow DEF RowKept, RowExpired, RowReaped
<1> QED BY <1>1, <1>2, TaskMoves

(* Inv holds in every state the code can reach.                            *)
THEOREM Invariance == Spec => []Inv
<1>1. Init => Inv
  <2> SUFFICES ASSUME Init PROVE Inv
    OBVIOUS
  <2>1. TypeOK
    BY TypeInit
  <2> QED BY <2>1, NoneIsFresh
    DEF Init, Inv, NoRow, AnsweredIsDurable, GeneratingIsUnsaved, CallsInFlight,
        SavingHoldsPayload, Saving, TokensAreFresh, SeenIsExpired
<1>2. Inv /\ [Next]_vars => Inv'
  BY TypeNext, DurableNext, UnsavedNext, InFlightNext, SavingNext, TokensNext, SeenNext
  DEF Inv
<1> QED BY <1>1, <1>2, PTL DEF Spec

----------------------------------------------------------------------------
(* The properties of the synchronous path *)

(* Type correctness of every reachable state.                              *)
THEOREM TypeCorrect == Spec => []TypeOK
BY Invariance, PTL DEF Inv

(* Every answer, cached answer and finished task holds the durable result  *)
(* or nothing: no reply leaves the service before it is saved.             *)
THEOREM DurableAnswers == Spec => []AnsweredIsDurable
BY Invariance, PTL DEF Inv

(* No two HTTP answers for one platform message carry different results,   *)
(* for any number of calls, processes, takeovers and failures.             *)
THEOREM SingleAnswer == Spec => []OneAnswer
<1>1. Inv => OneAnswer
  BY DEF Inv, AnsweredIsDurable, Durable, OneAnswer, Visible
<1> QED BY <1>1, Invariance, PTL

(* The primary snapshot is written at most once.                           *)
THEOREM FinalSnapshot == Spec => SnapshotIsFinal
<1>1. Inv /\ [Next]_vars => [row.snap # None => row'.snap = row.snap]_vars
  BY SnapStep
<1> QED BY <1>1, Invariance, PTL DEF Spec, SnapshotIsFinal

(* A live lease moves only with its holder's own save: the reaper and the  *)
(* takeover of another call wait for the deadline.                         *)
THEOREM LiveLease == Spec => LiveLeaseIsKept
<1>1. Inv /\ [Next]_vars =>
        [row.status = "generating" /\ ~row.due /\ row'.owner # row.owner
           => pc[row.owner] \in Saving /\ row'.snap = result[row.owner]]_vars
  <2> SUFFICES ASSUME Inv, [Next]_vars, row.status = "generating", ~row.due,
                      row'.owner # row.owner
               PROVE  pc[row.owner] \in Saving /\ row'.snap = result[row.owner]
    OBVIOUS
  <2>1. ASSUME NEW c \in Calls, RowReclaimed(c) PROVE FALSE
    BY <2>1 DEF RowReclaimed, Inv, SeenIsExpired
  <2> QED BY <2>1, StepRow DEF RowKept, RowReserved, RowSaved, RowExpired, RowReaped
<1> QED BY <1>1, Invariance, PTL DEF Spec, LiveLeaseIsKept

(* The synchronous path implements ReplyOnce: every step decides the one   *)
(* result, tells one call that result or nothing, or changes neither.      *)
THEOREM Refinement == Spec => ImplementsReplyOnce
<1>1. Init => Promise!Init
  BY DEF Init, NoRow, Promise!Init
<1>2. Inv /\ [Next]_vars => [Promise!Next]_<<row.snap, answer>>
  <2> SUFFICES ASSUME Inv, [Next]_vars
               PROVE  Promise!Next \/ UNCHANGED <<row.snap, answer>>
    OBVIOUS
  <2>0. TypeOK /\ CallsInFlight /\ AnsweredIsDurable
    BY DEF Inv
  <2>1. ASSUME NEW c \in Calls, RowKept, NEW v, v = Wait \/ (v # None /\ v = row.snap),
               answer[c] = None, answer' = [answer EXCEPT ![c] = v]
        PROVE  Promise!Next
    BY <2>1 DEF Promise!Next, Promise!Tell, RowKept
  <2>2. ASSUME answer' = answer, row'.snap # row.snap PROVE Promise!Decide
    <3>1. row.snap = None /\ row'.snap \in Payloads
      BY <2>2, StepRow
      DEF RowKept, RowReserved, RowReclaimed, RowSaved, RowExpired, RowReaped, Inv,
          GeneratingIsUnsaved, SavingHoldsPayload
    <3> QED BY <2>2, <3>1 DEF Promise!Decide
  <2>3. ASSUME answer' = answer PROVE Promise!Next \/ UNCHANGED <<row.snap, answer>>
    BY <2>2, <2>3 DEF Promise!Next
  <2>4. ASSUME NEW c \in Calls, CallStep(c)
        PROVE  Promise!Next \/ UNCHANGED <<row.snap, answer>>
    <3>1. ASSUME NEW p \in Procs, Arrive(c, p), ReplayCached(c, p) PROVE Promise!Next
      BY <2>0, <2>1, <3>1
      DEF Arrive, ReplayCached, RowKept, CallsInFlight, AnsweredIsDurable, Durable
    <3>2. CASE Answer(c)
      BY <2>0, <2>1, <3>2
      DEF Answer, RowKept, CallsInFlight, AnsweredIsDurable, Durable
    <3> QED
      BY <2>3, <2>4, <3>1, <3>2
      DEF CallStep, Arrive, JoinRunning, StartTask, AnswerError, Disconnect
  <2>5. CASE \E c \in Calls : TaskStep(c) \/ StoreFails(c)
    BY <2>3, <2>5 DEF TaskStep, StoreFails, callVars
  <2>6. CASE \E p \in Procs : Crash(p) \/ ForgetCached(p)
    BY <2>3, <2>6 DEF Crash, ForgetCached, callVars
  <2>7. CASE Expire \/ Reap \/ UNCHANGED vars
    BY <2>3, <2>7 DEF Expire, Reap, vars, httpVars, callVars
  <2> QED BY <2>4, <2>5, <2>6, <2>7 DEF Next, Step
<1> QED BY <1>1, <1>2, Invariance, PTL DEF Spec, ImplementsReplyOnce, Promise!Spec

----------------------------------------------------------------------------
(* No call waits in vain *)

InTouch == Registered /\ WaitsForATask

(* A step of a task, or a failure in it, moves that task alone and forward. *)
LEMMA TaskForward ==
  ASSUME TypeOK, NEW c \in Calls, TaskStep(c) \/ StoreFails(c)
  PROVE  /\ pc[c] \notin Ended
         /\ pc'[c] \notin {"none", "dead"} /\ Left(pc'[c]) < Left(pc[c])
         /\ \A d \in Calls : d # c => pc'[d] = pc[d]
         /\ UNCHANGED <<st, at, on, running>>
<1>0. pc \in [Calls -> TaskPcs]
  BY DEF TypeOK
<1>1. CASE Ingress(c) /\ TaskStep(c)
  BY <1>0, <1>1 DEF TaskStep, callVars, Ingress, Goto, Left, Saving, Ended
<1>2. CASE AwaitResult(c) /\ TaskStep(c)
  BY <1>0, <1>2 DEF TaskStep, callVars, AwaitResult, ReplayOrWait, GotoWith, Left, Saving, Ended
<1>3. CASE (ClaimExpired(c) \/ Reread(c)) /\ TaskStep(c)
  BY <1>0, <1>3
  DEF TaskStep, callVars, ClaimExpired, Reread, ReplayOrWait, Goto, GotoWith, Left, Saving, Ended
<1>4. CASE (Preflight(c) \/ Generate(c) \/ Save(c)) /\ TaskStep(c)
  BY <1>0, <1>4
  DEF TaskStep, callVars, Preflight, Generate, Save, Goto, GotoWith, Left, Saving, Ended
<1>5. CASE StoreFails(c)
  BY <1>0, <1>5 DEF StoreFails, callVars, Goto, GotoWith, Left, Saving, Ended
<1> QED BY <1>1, <1>2, <1>3, <1>4, <1>5 DEF TaskStep

(* Tasks are registered when they start and stay so until they are over.    *)
LEMMA InTouchNext == Inv /\ InTouch /\ [Next]_vars => InTouch'
<1> SUFFICES ASSUME Inv, InTouch, [Next]_vars PROVE Registered' /\ WaitsForATask'
  BY DEF InTouch
<1>0. TypeOK /\ CallsInFlight /\ Registered /\ WaitsForATask
  BY DEF InTouch, Inv
<1>1. ASSUME NEW c \in Calls, CallStep(c) PROVE Registered' /\ WaitsForATask'
  <2>1. ASSUME NEW p \in Procs, Arrive(c, p), StartTask(c, p)
        PROVE  Registered' /\ WaitsForATask'
    <3>1. pc[c] = "none" /\ st[c] = "idle"
      BY <1>0, <2>1 DEF Arrive, CallsInFlight
    <3>2. \A d \in Calls : st[d] = "waiting" => on[d] # c
      BY <1>0, <3>1 DEF WaitsForATask
    <3>3. \A q \in Procs : running[q] # c
      BY <1>0, <3>1, NoneIsFresh DEF Registered
    <3>4. Registered'
      BY <1>0, <2>1, <3>1, <3>3, NoneIsFresh DEF TypeOK, Registered, Arrive, StartTask, Ended
    <3>5. WaitsForATask'
      BY <1>0, <2>1, <3>1, <3>2 DEF TypeOK, CallsInFlight, WaitsForATask, Arrive, StartTask
    <3> QED BY <3>4, <3>5
  <2>2. ASSUME NEW p \in Procs, Arrive(c, p), ReplayCached(c, p) \/ JoinRunning(c, p)
        PROVE  Registered' /\ WaitsForATask'
    <3>1. pc[c] = "none" /\ st[c] = "idle"
      BY <1>0, <2>2 DEF Arrive, CallsInFlight
    <3>2. UNCHANGED <<pc, running>> /\ at' = [at EXCEPT ![c] = p]
      BY <2>2 DEF Arrive, ReplayCached, JoinRunning, taskVars
    <3>3. Registered'
      BY <1>0, <3>1, <3>2 DEF TypeOK, Registered, Ended
    <3>4. \A d \in Calls : st[d] = "waiting" => on[d] \in Calls /\ on[d] # c
      BY <1>0, <3>1 DEF WaitsForATask, CallsInFlight
    <3>5. CASE ReplayCached(c, p)
      BY <1>0, <3>1, <3>2, <3>3, <3>4, <3>5 DEF TypeOK, WaitsForATask, ReplayCached
    <3>6. CASE JoinRunning(c, p)
      <4>1. running[p] \in Calls /\ running[p] # c /\ at[running[p]] = p
            /\ pc[running[p]] \notin {"none", "dead"}
        BY <1>0, <3>1, <3>6 DEF TypeOK, Registered, JoinRunning
      <4> QED BY <1>0, <3>1, <3>2, <3>3, <3>4, <3>6, <4>1 DEF TypeOK, WaitsForATask, JoinRunning
    <3> QED BY <2>2, <3>5, <3>6
  <2>3. CASE Answer(c) \/ AnswerError(c) \/ Disconnect(c)
    <3>1. /\ UNCHANGED <<pc, at, on>>
          /\ \A d \in Calls : st'[d] = "waiting" => st[d] = "waiting"
      BY <1>0, <2>3 DEF TypeOK, Answer, AnswerError, Disconnect, taskVars
    <3>2. \/ UNCHANGED running
          \/ Unregister(c) /\ st[c] = "waiting" /\ pc[on[c]] \in Ended
      BY <2>3 DEF Answer, AnswerError, Disconnect, Ended
    <3>3. Registered'
      BY <1>0, <3>1, <3>2 DEF TypeOK, CallsInFlight, Registered, Unregister
    <3> QED BY <1>0, <3>1, <3>3 DEF WaitsForATask
  <2> QED BY <1>1, <2>1, <2>2, <2>3 DEF CallStep, Arrive
<1>2. ASSUME NEW c \in Calls, TaskStep(c) \/ StoreFails(c)
      PROVE  Registered' /\ WaitsForATask'
  <2>1. /\ pc[c] \notin Ended /\ pc'[c] \notin {"none", "dead"}
        /\ \A d \in Calls : d # c => pc'[d] = pc[d]
        /\ UNCHANGED <<st, at, on, running>>
    BY <1>0, <1>2, TaskForward
  <2> QED BY <1>0, <2>1 DEF TypeOK, CallsInFlight, Registered, WaitsForATask
<1>3. ASSUME NEW p \in Procs, Crash(p) PROVE Registered' /\ WaitsForATask'
  <2>1. Registered'
    BY <1>0, <1>3 DEF TypeOK, Registered, Crash, Ended
  <2>2. WaitsForATask'
    BY <1>0, <1>3 DEF TypeOK, CallsInFlight, WaitsForATask, Crash
  <2> QED BY <2>1, <2>2
<1>4. CASE UNCHANGED <<pc, st, at, on, running>>
  BY <1>0, <1>4 DEF Registered, WaitsForATask
<1> QED BY <1>1, <1>2, <1>3, <1>4
    DEF Next, Step, ForgetCached, Expire, Reap, vars, httpVars, callVars, taskVars

(* Calls and processes never lose touch with the tasks they count on.       *)
LEMMA StaysInTouch == Spec => [](Inv /\ InTouch)
<1>1. Init => InTouch
  BY DEF Init, InTouch, Registered, WaitsForATask, Ended
<1> QED BY <1>1, InTouchNext, Invariance, PTL DEF Spec

(* No call waits for a task that will never return: the task was started in *)
(* the call's own process and has not died.                                 *)
THEOREM NobodyWaitsInVain == Spec => []WaitsForATask
<1>1. InTouch => WaitsForATask
  BY DEF InTouch
<1> QED BY <1>1, StaysInTouch, PTL

(* A reply process never runs a second task for a message beside the first. *)
THEOREM SingleTask == Spec => []OneTaskPerProcess
<1>1. InTouch => OneTaskPerProcess
  BY DEF InTouch, Registered, OneTaskPerProcess
<1> QED BY <1>1, StaysInTouch, PTL

(* Every step of a task, and every failure in it, brings it nearer its end. *)
THEOREM TasksComeToAnEnd == Spec => TasksAdvance
<1>1. Inv /\ [Next]_vars =>
        [\A c \in Calls : pc[c] # "none" /\ pc'[c] # pc[c] => Left(pc'[c]) < Left(pc[c])]_vars
  <2> SUFFICES ASSUME Inv, [Next]_vars, NEW c \in Calls, pc[c] # "none", pc'[c] # pc[c]
               PROVE  Left(pc'[c]) < Left(pc[c])
    OBVIOUS
  <2>0. TypeOK /\ CallsInFlight
    BY DEF Inv
  <2>1. ASSUME NEW d \in Calls, CallStep(d) PROVE Left(pc'[c]) < Left(pc[c])
    BY <2>0, <2>1
    DEF TypeOK, CallsInFlight, CallStep, Arrive, ReplayCached, JoinRunning, StartTask,
        Answer, AnswerError, Disconnect, taskVars
  <2>2. ASSUME NEW d \in Calls, TaskStep(d) \/ StoreFails(d) PROVE Left(pc'[c]) < Left(pc[c])
    BY <2>0, <2>2, TaskForward
  <2>3. ASSUME NEW p \in Procs, Crash(p) PROVE Left(pc'[c]) < Left(pc[c])
    BY <2>0, <2>3 DEF TypeOK, TaskPcs, Crash, Left, Ended, Saving
  <2> QED BY <2>1, <2>2, <2>3
      DEF Next, Step, ForgetCached, Expire, Reap, vars, httpVars, taskVars
<1> QED BY <1>1, Invariance, PTL DEF Spec, TasksAdvance
=============================================================================
