---------------------------- MODULE V3Generation ----------------------------
(***************************************************************************)
(* The synchronous reply path of ChatRuntime for one platform message that *)
(* the platform may deliver any number of times, to any reply process.     *)
(*                                                                         *)
(* A call either replays its process's cached answer, joins the task its   *)
(* process already runs for this message, or starts a task.  A task runs   *)
(* under the request id of the call that started it: it reserves the run   *)
(* row, or waits for the owner's result and may take over an expired lease,*)
(* then decides on a payload and saves it before anyone is answered.       *)
(***************************************************************************)
EXTENDS GenerationRow

CONSTANTS
    Procs,            \* reply processes
    Wait,             \* the empty generation_in_progress response
    MaxFaults         \* bound: crashes and failed transactions

ASSUME WaitIsFresh == Wait \notin Payloads \cup {None}
ASSUME FaultBound == MaxFaults \in Nat

VARIABLES
    enabled,  \* V3_REPLY_RECOVERY_ENABLED: a setting, it never changes
    \* The HTTP call c:
    st,       \* idle, waiting, answered or gone
    at,       \* the process it reached
    on,       \* the task it awaits
    answer,   \* its HTTP response
    \* The coroutine _run_platform_reply_once that call c started, if any:
    pc,       \* where it is
    seen,     \* the expired token it read
    result,   \* the payload it is about to save, or has returned
    \* The memory of process p:
    running,  \* _platform_request_tasks[identity]
    cached,   \* _platform_request_results[identity]
    faults    \* crashes and failed transactions so far

callVars == <<st, at, on, answer>>
taskVars == <<pc, seen, result>>
httpVars == <<callVars, taskVars, running, cached, faults>>
vars == <<enabled, row, httpVars>>

Results == Payloads \cup {Wait}

\* A finished coroutine: returned, raised, or gone with its process.
Ended == {"none", "done", "error", "dead"}

\* About to commit a payload: save_v3_reply_core or save_v3_terminal_no_reply.
Saving == {"saveCore", "saveTerminal"}

TaskPcs == Ended \cup Saving \cup
    {"ingress", "await", "reclaim", "reread", "preflight", "generate", "ownerLoss"}

TypeOK ==
    /\ enabled \in BOOLEAN
    /\ row \in Rows
    /\ st \in [Calls -> {"idle", "waiting", "answered", "gone"}]
    /\ at \in [Calls -> Procs \cup {None}]
    /\ on \in [Calls -> Calls \cup {None}]
    /\ answer \in [Calls -> Results \cup {None}]
    /\ pc \in [Calls -> TaskPcs]
    /\ seen \in [Calls -> Calls \cup {None}]
    /\ result \in [Calls -> Results \cup {None}]
    /\ running \in [Procs -> Calls \cup {None}]
    /\ cached \in [Procs -> Results \cup {None}]
    /\ faults \in 0 .. MaxFaults

Init ==
    /\ enabled \in BOOLEAN
    /\ row = NoRow
    /\ st = [c \in Calls |-> "idle"]
    /\ at = [c \in Calls |-> None]
    /\ on = [c \in Calls |-> None]
    /\ answer = [c \in Calls |-> None]
    /\ pc = [c \in Calls |-> "none"]
    /\ seen = [c \in Calls |-> None]
    /\ result = [c \in Calls |-> None]
    /\ running = [p \in Procs |-> None]
    /\ cached = [p \in Procs |-> None]
    /\ faults = 0

----------------------------------------------------------------------------
(* run_platform_reply: one lock section, then the await on the task *)

ReplayCached(c, p) ==
    /\ cached[p] # None
    /\ st' = [st EXCEPT ![c] = "answered"]
    /\ answer' = [answer EXCEPT ![c] = cached[p]]
    /\ UNCHANGED <<on, taskVars, running>>

JoinRunning(c, p) ==
    /\ cached[p] = None
    /\ running[p] # None
    /\ st' = [st EXCEPT ![c] = "waiting"]
    /\ on' = [on EXCEPT ![c] = running[p]]
    /\ UNCHANGED <<answer, taskVars, running>>

StartTask(c, p) ==
    /\ cached[p] = None
    /\ running[p] = None
    /\ st' = [st EXCEPT ![c] = "waiting"]
    /\ on' = [on EXCEPT ![c] = c]
    /\ pc' = [pc EXCEPT ![c] = "ingress"]
    /\ running' = [running EXCEPT ![p] = c]
    /\ UNCHANGED <<answer, seen, result>>

Arrive(c, p) ==
    /\ st[c] = "idle"
    /\ at' = [at EXCEPT ![c] = p]
    /\ ReplayCached(c, p) \/ JoinRunning(c, p) \/ StartTask(c, p)
    /\ UNCHANGED <<row, cached, faults>>

\* The `finally` of the await drops the task once it is done.
Unregister(c) ==
    running' = [running EXCEPT ![at[c]] = IF @ = on[c] THEN None ELSE @]

\* The awaited task returned: remember its response, whatever it is, and answer.
Answer(c) ==
    /\ st[c] = "waiting"
    /\ pc[on[c]] = "done"
    /\ st' = [st EXCEPT ![c] = "answered"]
    /\ answer' = [answer EXCEPT ![c] = result[on[c]]]
    /\ cached' = [cached EXCEPT ![at[c]] = result[on[c]]]
    /\ Unregister(c)
    /\ UNCHANGED <<row, at, on, taskVars, faults>>

\* The awaited task raised: a 500 and nothing to remember.
AnswerError(c) ==
    /\ st[c] = "waiting"
    /\ pc[on[c]] = "error"
    /\ st' = [st EXCEPT ![c] = "gone"]
    /\ Unregister(c)
    /\ UNCHANGED <<row, at, on, answer, taskVars, cached, faults>>

\* The caller is cancelled; asyncio.shield keeps the task running, and the
\* `finally` leaves an unfinished task registered.
Disconnect(c) ==
    /\ st[c] = "waiting"
    /\ st' = [st EXCEPT ![c] = "gone"]
    /\ IF pc[on[c]] \in Ended THEN Unregister(c) ELSE UNCHANGED running
    /\ UNCHANGED <<row, at, on, answer, taskVars, cached, faults>>

\* Entries older than 900 seconds are dropped.
ForgetCached(p) ==
    /\ cached[p] # None
    /\ cached' = [cached EXCEPT ![p] = None]
    /\ UNCHANGED <<row, callVars, taskVars, running, faults>>

----------------------------------------------------------------------------
(* _run_platform_reply_once *)

Goto(c, where) == pc' = [pc EXCEPT ![c] = where] /\ UNCHANGED <<seen, result>>

GotoWith(c, where, payload) ==
    /\ pc' = [pc EXCEPT ![c] = where]
    /\ result' = [result EXCEPT ![c] = payload]
    /\ UNCHANGED seen

\* A durable result, or the empty wait response.
ReplayOrWait(c) == GotoWith(c, "done", IF Ready THEN row.snap ELSE Wait)

Ingress(c) ==
    /\ pc[c] = "ingress"
    /\ \/ Reserve(c) /\ Goto(c, "preflight")
       \/ row.status # "absent" /\ UNCHANGED row /\ Goto(c, "await")

\* Mutant of AwaitResult: polls until the owner is ready, without a deadline.
AwaitUntilReady(c) ==
    /\ pc[c] = "await"
    /\ Ready
    /\ ReplayOrWait(c)
    /\ UNCHANGED row

\* Mutant of AwaitResult: the takeover depends on the recovery switch.
AwaitWithoutTakeover(c) ==
    /\ pc[c] = "await"
    /\ ~enabled
    /\ ReplayOrWait(c)
    /\ UNCHANGED row

\* Mutant of AwaitResult: any owner is taken for dead, its lease is not read.
AwaitImpatient(c) ==
    /\ pc[c] = "await"
    /\ \/ row.status # "generating" /\ ReplayOrWait(c)
       \/ /\ row.status = "generating"
          /\ pc' = [pc EXCEPT ![c] = "reclaim"]
          /\ seen' = [seen EXCEPT ![c] = row.owner]
          /\ UNCHANGED result
    /\ UNCHANGED row

\* One poll of _await_persisted_generation; giving up at the deadline is the
\* last disjunct, taken only when this read shows no expired lease.
AwaitResult(c) ==
    /\ pc[c] = "await"
    /\ \/ row.status # "generating" /\ ReplayOrWait(c)
       \/ /\ LeaseExpired
          /\ pc' = [pc EXCEPT ![c] = "reclaim"]
          /\ seen' = [seen EXCEPT ![c] = row.owner]
          /\ UNCHANGED result
       \/ row.status = "generating" /\ ~LeaseExpired /\ GotoWith(c, "done", Wait)
    /\ UNCHANGED row

ClaimExpired(c) ==
    /\ pc[c] = "reclaim"
    /\ \/ CanReclaim(seen[c]) /\ Reclaim(c) /\ Goto(c, "preflight")
       \/ ~CanReclaim(seen[c]) /\ UNCHANGED row /\ Goto(c, "reread")

\* A second read of the result after a lost claim, or after a lost lease.
Reread(c) ==
    /\ pc[c] \in {"reread", "ownerLoss"}
    /\ ReplayOrWait(c)
    /\ UNCHANGED row

\* Takeover guard and coordinator admission, before any model work: human mode
\* or a filtered or superseded message is empty, an unknown mode a fallback.
Preflight(c) ==
    /\ pc[c] = "preflight"
    /\ \/ Goto(c, "generate")
       \/ \E kind \in {"empty", "fallback"} :
             GotoWith(c, "saveTerminal", [by |-> c, kind |-> kind])
    /\ UNCHANGED row

\* The graph, its exception handler, preemption and the reply commit.
Generate(c) ==
    /\ pc[c] = "generate"
    /\ \E kind \in Kinds : GotoWith(c, "saveCore", [by |-> c, kind |-> kind])
    /\ UNCHANGED row

\* Mutant of Save: a task that lost the run still returns what it generated.
SaveAnswersLoser(c) ==
    /\ pc[c] \in Saving
    /\ \/ Owns(c) /\ SavePrimary(result[c], enabled)
       \/ ~Owns(c) /\ UNCHANGED row
    /\ Goto(c, "done")

Save(c) ==
    /\ pc[c] \in Saving
    /\ \/ Owns(c) /\ SavePrimary(result[c], enabled) /\ Goto(c, "done")
       \/ ~Owns(c) /\ UNCHANGED row /\ Goto(c, "ownerLoss")

TaskStep(c) ==
    /\ \/ Ingress(c) \/ AwaitResult(c) \/ ClaimExpired(c) \/ Reread(c)
       \/ Preflight(c) \/ Generate(c) \/ Save(c)
    /\ UNCHANGED <<callVars, running, cached, faults>>

----------------------------------------------------------------------------
(* Failures and the other users of the row *)

\* What a transaction at this point of the task would have committed.
Effect(c) ==
    \/ pc[c] = "ingress" /\ Reserve(c)
    \/ pc[c] = "reclaim" /\ CanReclaim(seen[c]) /\ Reclaim(c)
    \/ pc[c] \in Saving /\ Owns(c) /\ SavePrimary(result[c], enabled)

\* Mutant of StoreFails: a failed core save is only a warning.
StoreFailureAnswers(c) ==
    /\ faults < MaxFaults
    /\ faults' = faults + 1
    /\ Effect(c) \/ UNCHANGED row
    /\ pc[c] = "saveCore" /\ Goto(c, "done")
    /\ UNCHANGED <<callVars, running, cached>>

\* The store, or another call outside a `try`, raises: before the commit or
\* after it took effect.  A failed claim is read again, a failed core save is
\* treated as a lost lease, a failed read after that loss is the wait response,
\* and anything else is a 500.
StoreFails(c) ==
    /\ faults < MaxFaults
    /\ faults' = faults + 1
    /\ Effect(c) \/ UNCHANGED row
    /\ \/ pc[c] = "reclaim" /\ Goto(c, "reread")
       \/ pc[c] = "saveCore" /\ Goto(c, "ownerLoss")
       \/ pc[c] = "ownerLoss" /\ GotoWith(c, "done", Wait)
       \/ /\ pc[c] \in {"ingress", "await", "reread", "preflight", "generate", "saveTerminal"}
          /\ Goto(c, "error")
    /\ UNCHANGED <<callVars, running, cached>>

\* A reply process dies and is restarted: its memory and its calls are gone.
Crash(p) ==
    /\ faults < MaxFaults
    /\ faults' = faults + 1
    /\ st' = [c \in Calls |-> IF at[c] = p /\ st[c] = "waiting" THEN "gone" ELSE st[c]]
    /\ pc' = [c \in Calls |-> IF at[c] = p /\ pc[c] \notin Ended THEN "dead" ELSE pc[c]]
    /\ running' = [running EXCEPT ![p] = None]
    /\ cached' = [cached EXCEPT ![p] = None]
    /\ UNCHANGED <<row, at, on, answer, seen, result>>

Expire == DeadlinePasses /\ UNCHANGED httpVars

\* The recovery worker's first step, only when the worker is enabled.
Reap == enabled /\ ReapStale /\ UNCHANGED httpVars

CallStep(c) ==
    \/ \E p \in Procs : Arrive(c, p)
    \/ Answer(c) \/ AnswerError(c) \/ Disconnect(c)

Step ==
    \/ \E c \in Calls : CallStep(c) \/ TaskStep(c) \/ StoreFails(c)
    \/ \E p \in Procs : Crash(p) \/ ForgetCached(p)
    \/ Expire
    \/ Reap

Next == Step /\ UNCHANGED enabled

Spec == Init /\ [][Next]_vars

\* Coroutines are scheduled, every poll and remote call has a timeout, time
\* passes, and the recovery worker polls.  Arrivals, failures and disconnects
\* are the environment's.
Fairness ==
    /\ \A c \in Calls :
          /\ WF_vars(TaskStep(c) /\ UNCHANGED enabled)
          /\ WF_vars((Answer(c) \/ AnswerError(c)) /\ UNCHANGED enabled)
    /\ WF_vars(Expire /\ UNCHANGED enabled)
    /\ WF_vars(Reap /\ UNCHANGED enabled)

FairSpec == Spec /\ Fairness

----------------------------------------------------------------------------
(* Properties *)

Visible(c) == st[c] = "answered" /\ answer[c] # Wait

(* All answers that carry a result carry the same one, however many calls, *)
(* processes, lease takeovers and crashes there were: the platform consumes*)
(* every HTTP answer, so two different ones would be two customer replies. *)
OneAnswer ==
    \A c, d \in Calls : Visible(c) /\ Visible(d) => answer[c] = answer[d]

Durable(v) == v = Wait \/ (v # None /\ v = row.snap)

(* Nothing is answered, cached or held by a finished task that the run row *)
(* does not hold: a reply never escapes without its durable result         *)
(* (_persist_and_build_response answers only after the save committed).    *)
AnsweredIsDurable ==
    /\ \A c \in Calls : st[c] = "answered" => Durable(answer[c])
    /\ \A p \in Procs : cached[p] # None => Durable(cached[p])
    /\ \A c \in Calls : pc[c] = "done" => Durable(result[c])

(* A lease that has not expired is never taken away: until its deadline,    *)
(* only its holder's own save moves the run on.  In particular two retries  *)
(* that read the same dead lease cannot both take it over.                  *)
LiveLeaseIsKept ==
    [][row.status = "generating" /\ ~row.due /\ row'.owner # row.owner
         => pc[row.owner] \in Saving /\ row'.snap = result[row.owner]]_vars

(* The primary result is written once.  Later transactions of the HTTP path *)
(* and of the reaper change the status around it, never the snapshot.       *)
SnapshotIsFinal == [][row.snap # None => row'.snap = row.snap]_vars

(* The synchronous path implements the promise of ReplyOnce: the saved      *)
(* snapshot is the decision and the HTTP answers are what the calls are told*)
Promise == INSTANCE ReplyOnce WITH decided <- row.snap, told <- answer
ImplementsReplyOnce == Promise!Spec

(* With the recovery worker off, one platform retry that meets an expired   *)
(* lease is enough to produce the result, provided nothing fails any more:  *)
(* the takeover really restarts the dead owner's work.                      *)
RetryHeals ==
    \A c \in Calls :
        (~enabled /\ faults = MaxFaults /\ LeaseExpired /\ pc[c] = "await") ~> row.snap # None

(* Every call that is waiting is eventually answered or failed, even when   *)
(* the owner of the generation never finishes.                              *)
NoCallHangs == \A c \in Calls : st[c] = "waiting" ~> st[c] # "waiting"

(* What NoCallHangs asks beyond fairness.  A waiting call waits for a task  *)
(* that its own process runs or has just ended, and so never for one that   *)
(* died with another process or was never started.                         *)
WaitsForATask ==
    \A c \in Calls : st[c] = "waiting" => pc[on[c]] \notin {"none", "dead"} /\ at[on[c]] = at[c]

(* And whatever a task does, or the store does to it, brings it nearer to   *)
(* its end: it polls, takes over and reads again once each.                 *)
Left(where) ==
    CASE where = "ingress" -> 7 [] where = "await" -> 6 [] where = "reclaim" -> 5
      [] where = "preflight" -> 4 [] where = "generate" -> 3 [] where \in Saving -> 2
      [] where \in {"reread", "ownerLoss"} -> 1 [] OTHER -> 0

TasksAdvance ==
    [][\A c \in Calls : pc[c] # "none" /\ pc'[c] # pc[c] => Left(pc'[c]) < Left(pc[c])]_vars

(* A reply process works on a message once at a time, whoever disconnects   *)
(* or joins: later calls find the task that runs (_platform_request_tasks). *)
OneTaskPerProcess ==
    \A c, d \in Calls : {pc[c], pc[d]} \cap Ended = {} /\ at[c] = at[d] => c = d

----------------------------------------------------------------------------
(* What the proofs add to make these properties inductive *)

\* The snapshot comes with the status that ends the reservation.
GeneratingIsUnsaved ==
    /\ row.status \in {"absent", "generating"} => row.snap = None
    /\ row.status = "generating" => row.owner \in Calls

\* A call that was not answered carries no answer, one in flight has a place,
\* and one that has not arrived has no task.
CallsInFlight ==
    \A c \in Calls :
        /\ st[c] # "answered" => answer[c] = None
        /\ st[c] = "waiting" => at[c] \in Procs /\ on[c] \in Calls
        /\ st[c] = "idle" => pc[c] = "none"

SavingHoldsPayload == \A c \in Calls : pc[c] \in Saving => result[c] \in Payloads

\* Task states in which a task has not owned the run yet.
NotYetOwner == {"none", "ingress", "await", "reclaim"}

\* A token is minted by one claim: nobody has seen it before that.
TokensAreFresh ==
    \A c \in Calls : pc[c] \in NotYetOwner =>
        row.owner # c /\ \A d \in Calls : seen[d] # c

\* The lease a claim is based on is dead for as long as its token stands.
SeenIsExpired ==
    \A c \in Calls : pc[c] = "reclaim" =>
        seen[c] # None /\ (row.owner = seen[c] => row.due)

\* What a process has registered is its own task, and a task that is not over
\* is registered there.
Registered ==
    /\ \A p \in Procs : running[p] # None =>
          at[running[p]] = p /\ pc[running[p]] \notin {"none", "dead"}
    /\ \A c \in Calls : pc[c] \notin Ended => at[c] \in Procs /\ running[at[c]] = c

Inv == /\ TypeOK
       /\ AnsweredIsDurable
       /\ GeneratingIsUnsaved
       /\ CallsInFlight
       /\ SavingHoldsPayload
       /\ TokensAreFresh
       /\ SeenIsExpired
=============================================================================
