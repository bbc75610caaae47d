# Verification of the AI Paths reply service

This directory holds TLA+ models of the backend under `ai_paths/app`, the TLC
configurations that check them on small instances, and proofs that TLAPS checks
for every value of the constants.  Paths below are relative to `ai_paths/app`
unless they start with `docs/` or `tests/`.

## 1. The system

A messaging platform (WeCom aggregation) sends every customer message to this
backend and sends whatever the backend returns to the customer.  The backend
runs as three Python processes, or groups of processes, over one MySQL
database (SQLite in tests):

| role | entry | does |
|---|---|---|
| reply | `routers/reply.py`, `chat_runtime.py` | the synchronous V3 reply: one HTTP call in, `reply_messages` out |
| control | `routers/callbacks.py`, `routers/*_admin.py` | delivery callbacks, SOP task intake, administration |
| worker | `workers/supervisor.py` | background loops: recovery, finalization, SOP, outreach, strategy callbacks |

The processes share nothing but database rows; each reply process also keeps
maps of running tasks and finished answers.  Remote systems: the platform
(conversation status, proactive send, SOP tasks), the models, the follow
knowledge service, the store system.

### 1.1 Components, their state, their operations

| component | state | operations | what makes it correct |
|---|---|---|---|
| reply generation (`chat_runtime.py`, `storage/conversation_repository.py`, `storage/run_repository.py`) | the `runs` row of a message: status, lease token and deadline, response snapshot; per process, running tasks and answers of the last 15 minutes | reserve, await the owner, take over an expired lease, save a terminal or a full reply, replay | one result per platform message however often it is delivered, no answer without a durable result, a dead owner does not block the message |
| reply recovery (`storage/v3_reply_recovery_repository.py`, `v3_reply_recovery_worker.py`, `v3_reply_recovery_delivery.py`) | the same row (attempts, due time, dispatch id), one dispatch | reap, claim, two gates, generate, send, stage, retry, cancel, escalate, finalize a receipt | at most one proactive send per message, nothing sent to a customer who wrote again, a receipt is what ends a recovery, nobody is forgotten |
| message delivery (`message_delivery.py`, `storage/message_delivery_repository.py`, `outreach_send_client.py`, `routers/callbacks.py`) | dispatch, its items, applied events, `finalized_at` | prepare, record a submission, apply a callback, finalize its source, mark finalized | a terminal status is final, a receipt is neither lost nor applied twice, every source is finalized |
| reply finalization (`v3_reply_finalization_service.py`, `storage/run_repository.py`) | a job inside `runs.output_snapshot` | claim, run the side effects, finish, back off | every saved reply is finalized or marked failed after six attempts, a finished job does not come back |
| reply coordinator (`platform_reply_coordinator.py`) | one record per customer in process memory | begin, complete, is_superseded, expiry | consecutive messages are merged and answered once, none of them is lost |
| voice batch (`platform_voice_batch.py`) | one open batch per customer in process memory | join, wait for transcriptions, elect an owner | one call of a batch replies for all of it, no item is lost |
| SOP platform tasks (`sop_platform_task_service.py`, `storage/sop_event_repository.py`, `sop_platform_client.py`) | an event and an execution row per task; queue, reservations and a lock per customer in process memory | poll, queue, recovery scan, gates, send, consume, report, alert | what is completed here is closed on the platform, a send whose outcome is unknown is not repeated, every task ends |
| outreach (`outreach/*.py`, `storage/outreach_repository.py`) | plans, tasks, dispatches | evaluate, plan, approve, claim, check, send, cancel on a customer message, finalize a receipt | a step is sent once and in order, at most one message follows the customer's own, a plan ends |
| strategy callbacks (`service_rule_data_service.py`, `storage/strategy_data_repository.py`) | an outbox | enqueue, claim, post, back off | at least once, in order per customer |
| material identity (`material_identity.py`, `storage/material_repository.py`) | a ledger of what a customer was shown | fingerprint, claim in the reply transaction | the same material is not sent twice |
| internal work items, reception state, identity links (`storage/internal_work_item_repository.py`, `reception_state_service.py`, `storage/customer_identity_repository.py`) | rows with versions | upsert, transition, link | transitions are legal, a link is not moved to another customer |
| customer memory (`memory_store.py`, `storage/memory_repository.py`) | facts per sales contact | merge, stop-contact, sales stage | a stop-contact fact is never lost in a merge |
| reply pipeline (`graph/`, `prompts/`, `policies/`) | the graph state of one request | route, generate, validate, commit | the round's budget is kept and leaves the repair its time, only a valid reply is returned or writes, an opt-out survives the repair |
| model and knowledge clients (`model_client.py`, `follow_knowledge_client.py`, `store_snapshot_service.py`, `coze_oauth.py`) | caches, refresh locks | call, retry, refresh | a cached value is replaced whole, one refresh at a time |
| worker supervision (`workers/supervisor.py`, `lifecycle.py`, `runtime_services.py`) | one asyncio task per worker | start, stop | one task of each kind; a loop survives its own errors |
| storage (`storage/mysql_store.py`, `sqlite_store.py`, `mirrored_store.py`) | tables | transactions, dialect translation | a failed transaction leaves nothing |
| administration, dashboards, frontend (`routers/*_admin.py`, `projects/`) | none of their own | queries | out of scope |

### 1.2 How the components interact

* The platform posts a message to a *reply* process.  The call reserves the
  `runs` row of the message, begins a coordinator record, generates, and in one
  transaction saves the answer, the recovery state and a finalization job.
  Only then does it answer.  The same message may be posted again at any time.
* A call for a voice message first waits in the voice batch of its process; the
  batch decides which of its calls goes on with all transcripts.
* The HTTP timing middleware writes the run's document after the response left.
* The *worker* process reads the same rows: the finalizer runs the job, the
  recovery worker takes over runs that were answered with a holding fallback or
  whose lease ran out, and sends its answer through a dispatch row and the
  platform's proactive send.
* The *control* process receives delivery callbacks, applies them to the
  dispatch, and then finalizes the source of the dispatch: a recovery or an
  outreach task (for a SOP task it only adds to the audit).
* The ingress of a customer's message, in a *reply* process, cancels the open
  outreach plans of the customer, which monitor and executor of the *worker*
  process are working on.
* SOP tasks live on the platform: the *worker* polls them, and `/consume` and
  `/service-rule-data` close them there.

What makes this hard: three processes change one row without locks that outlive
a transaction; ownership is a token with a deadline; one JSON text in that row
has five writers; every remote call can fail after it took effect; callbacks
repeat and reorder; and nothing but polling finds the work of a dead process.
PROJECT.json lists each hazard at its line, with the property that covers it.

## 2. The models

| module | stands for | source |
|---|---|---|
| `GenerationRow` | the columns of a `runs` row that say who generates and what was answered; one operator per transaction | `storage/conversation_repository.py`, `storage/run_repository.py`, `storage/v3_reply_recovery_repository.py`, `chat_runtime.py` |
| `V3Generation` | HTTP calls, their tasks and the memory of reply processes around that row | `chat_runtime.py` |
| `ReplyOnce` | the promise: one decision, every call told it or nothing | abstract |
| `RecoveryRow` | the recovery transactions on the same row | `storage/v3_reply_recovery_repository.py` |
| `DispatchRow` | a dispatch, its items and its applied events | `storage/message_delivery_repository.py`, `message_delivery.py` |
| `V3Recovery` | recovery worker, callback handler, platform and customer around both rows | `v3_reply_recovery_worker.py`, `outreach_send_client.py`, `routers/callbacks.py`, `v3_reply_recovery_delivery.py` |
| `RecoverOnce` | the promise: answered over HTTP or by one send, recovered only when delivered, cancelled only unsent, sent only what was cleared | abstract |
| `RunDocument` | `runs.output_snapshot` and its writers, beside the recovery columns | `storage/run_repository.py`, `v3_request_timing.py`, `v3_reply_finalization_service.py` |
| `ReplyCoordinator` | merging of consecutive messages, and the calls around it | `platform_reply_coordinator.py`, `chat_runtime.py` |
| `VoiceBatch` | voice batches in front of the coordinator: the two composed | `platform_voice_batch.py`, `routers/reply.py` |
| `ReplyPipeline` | one turn: nodes, round budget, model race, repair, validation, fixed texts, commit | `graph/graph_builder.py`, `graph/nodes/reply_generation.py`, `model_client.py`, `chat_runtime.py`, `policies/` |
| `SopTaskRow`, `SopTask` | the two rows of a platform SOP task, and poll, queue, recovery scan and execution around them | `sop_platform_task_service.py`, `storage/sop_event_repository.py`, `sop_platform_client.py` |
| `Outreach` | monitor, executor, replies of the customer and receipts around plans and tasks | `outreach/*.py`, `storage/outreach_repository.py` |
| `*Proofs` | theorems (section 4) | |
| `MCV3Recovery`, `MCOutreach` | symmetry and the set of plans for TLC; the other modules run as they are | |

`RecoveryRow` extends `GenerationRow`; `V3Recovery` extends `RecoveryRow` and
`DispatchRow`; `RunDocument` extends `RecoveryRow`; `VoiceBatch` extends
`ReplyCoordinator`; `SopTask` extends `SopTaskRow`.  The same transaction
operators are therefore used wherever a row appears.

### 2.1 `GenerationRow` and `V3Generation`

`row.status` is `generation_status` (`absent` before the insert), `row.owner`
the call whose token is `generation_owner_token`, `row.due` whether
`recovery_next_at` has passed, `row.snap` the stored `v3_response_snapshot`.  A
payload is the call that computed it and its kind: a reply, the holding
fallback, or no reply.  Request ids and tokens are one value per call, because
a token is minted once per claim and a call claims at most once.  `enabled` is
the setting `V3_REPLY_RECOVERY_ENABLED`: both values are initial states, and no
step changes it.

A call (`st`, `at`, `on`, `answer`) replays the process cache, joins the running
task of its message or starts one; a task (`pc`, `seen`, `result`) is one run of
`_run_platform_reply_once`.  Every step of a task is one await that touches the
database: `Ingress`, `AwaitResult`, `ClaimExpired`, `Reread`, `Preflight`,
`Generate`, `Save`, `ReplayOrWait`.  `StoreFails` is a transaction that raises,
`Crash` a process that dies with its tasks and memory, `Disconnect` a client
that leaves while the shielded task goes on.

### 2.2 `RecoveryRow`, `DispatchRow` and `V3Recovery`

The worker's program counter follows `process_claim`: claim, look for a dispatch
and reconcile, gate, generate, gate again, look again, prepare the dispatch,
post, record, then settle, stage, retry, cancel or escalate.  Where the code
reads and then writes in another statement (the submission record, the
finalizer) the model has two steps, and `saw` and `read` hold what was read.
`Post` chooses independently whether the platform takes the messages and how the
call ends: answered, unknown (timeout, transport error), or an HTTP error, which
the code records as `submission_failed` even if the messages were taken.

The callback handler is one sequential process: the route is `async def` around
synchronous database calls in one process.  `mail` holds what the platform will
deliver until it is answered with a 2xx; a message in `mail` may be any report
that agrees with the fate of the items, once or again, so a `MaxMail` of 1 loses
no order of arrival.  HTTP 409 ends the platform's retries
(`docs/contracts/message-delivery-callback.md`), another error does not.

The reply process appears as `ReplyProcess`: it may still save its answer or
lose its lease, by the operators of `GenerationRow`.

`RecoverOnce` is what the two services promise together; `ImplementsRecoverOnce`
reads it off the rows.  A run is open in every status that recovery may still
take up; what was sent is whole when the platform has taken all messages and
none of them failed, and is fixed with the post; the customer has acted from the
first step that could make the recovery's gate say no.  An answer is cleared when
it was generated and the gate after that found that the customer had not acted; only
a cleared answer may be sent, and the clearance ends with the attempt.  (What the
customer does between that gate and the post is too late in the code, and the
promise allows it.)  `NoSecondAnswer` and
`CancelledNeverSent` say a part of the same promise about the rows themselves
and are proved (section 4), not checked in a run of their own.

### 2.3 `RunDocument`

A document is a record of the keys that the writers depend on: which call's
ingress id it carries, whether the answer, the recovery request and the deferred
payload are in it, and the finalization job.  Reading copies the document; writing stores the copy with the
writer's own change.  The claim of the finalizer compares the whole text, which
the model tracks with `fresh`.  Transactions that lock or update the row before
they read it (`save_v3_reply_core`, the terminal save, `save_run`,
the clearing of the recovery request) are one step.  With SQLite, whose
transactions are serial, the read and write steps could not interleave; MySQL is
the production store.

### 2.4 `ReplyCoordinator` and `VoiceBatch`

Messages of one customer arrive in calls; a call reserves its message, passes
the takeover guard (or stays quiet), begins, generates, looks at its record once
more, then either drops its result (it was superseded) or saves it, and
completes.  The record of a process is `inflight`; `merged` is the list of
merged messages as a set.  `Forget` is the cleanup of old records, which are 15
minutes older than any running call.  A failed call may arrive again, as the
platform retries it.  What a request carries is `asked`: `ReplyCoordinator`
allows any set with the call's own message in it, or none (a call whose batch
has another owner, which `Cede`s), and so says what the coordinator does behind
whatever puts requests together.

`VoiceBatch` is what does.  A voice call (`Register`) joins the open batch of
its process (`open`) or opens one; a batch `Close`s when it is quiet, full or at
its hard window, gets its result (`Resolve`), and its calls `Proceed`: the call
of the latest message carries every item of the batch, the others carry nothing.
`voice` is a call's ticket.  A batch lives in the memory of one process and knows
nothing of the `runs` rows, so a platform retry that misses its batch opens
another, and then the first of the two calls to come through reserves the
message.  Time is not counted: the windows (settle 1.2 s, hard 4 s, limit of the
transcription 15 s) may end at any moment.  A transcription that fails enters as
an event of the batch instead of a text, so its outcome is left out.

### 2.5 `ReplyPipeline`

The clock `now` advances only when no deadline is due (`Tick`), since the event
loop reacts to a timeout before it lets more time pass.  `roundEnd` is the
round's deadline, which the fact node may promote from `Ordinary` to `Strong`;
without an enforced budget no deadline cuts the nodes before the reply.
`attempt` is the reply's model call, primary or repair, with its own deadline
`due`; inside it `strict`, `try`, `next`, `flight` and `bad` are the race of
hedged requests, its repetition after a transient failure and its second format.
A draft is a record of what the validation tells apart: whether it decides an
opt-out, how it cites the customer's message, whether it sells or asks for a
write, and what else is wrong with it.  `Verdict` is the order of the checks,
`floor` what `_policy_safety_floor` demands of the repair, `Salvage` the
sentences that are cut out, `FixedText` the texts of a turn without a valid
reply, `Write` what the commit graph hands to the platform.  `Supersede`,
`Preempt` and `Unwind` are a newer message: the graph's task is cancelled and not
awaited.

Assumed: the sales policy is on (its `runtime_mode` "off" knows no opt-out); the
45-second limit of a race is never the first to end it; every failure of a
request lets the race try the next model; a hedge may start at any time.  Turns
marked `test_isolated` and the graph run of the recovery are left out.

### 2.6 `SopTaskRow` and `SopTask`

`event` and `local` are the rows of `sop_events` and `sop_send_tasks`, `dispatch`
the submission under each idempotency key, `platform` and `sent` the outside.
A poll (`Pull`, `Filter`, `Enqueue`) reserves and persists what the platform has
open; a queue worker (`Dequeue`) or the recovery scan (`Select`, `Recover`) waits
for the customer's lock; one `pass` holds it and goes through gates, content,
send, `/consume` and the strategy report.  `reserved` and `terminal` are the sets
that keep a task from being queued twice, with all they hold in the memory of the
process: a `Crash` empties them, also in the middle of `_ensure_local_task`.
A failed request before the send boundary defers the task (`Defer`) up to
`MaxAttempts`; after it the task is finished as sent (`LoseAnswer`).

### 2.7 `Outreach`

A plan is a row with a status and what the customer `seen` by it had said; a task
is one of its steps.  The monitor evaluates (`Scan`, `Refresh`, `Generate`,
`Approve`), the executor works on one step (`List`, `Claim`, `Check`, `Prepare`,
`Submit`, `Arrive`, `Finalize`, `Fail`, and the statements of `Settle` that
follow), the reply processes cancel (`Ingress`, `EndWithoutReply`), and the
callback process finalizes a `Receipt`.  Reads that are used in a later
statement are steps of their own: the count of remaining tasks (`count`) and
the plan status written from it (`more`, `last`).  The monitor runs in a thread,
so it interleaves with the executor.  The gates other than the customer's reply
(silence, fingerprint, freshness, human takeover) are one choice.

## 3. What the runs ask and show

| run | bounds | asks | shows |
|---|---|---|---|
| `gen` | 2 calls, 2 processes, 2 faults, recovery on and off, fair | TypeOK, OneAnswer, AnsweredIsDurable, LiveLeaseIsKept, ImplementsReplyOnce, RetryHeals, NoCallHangs | hold |
| `rec_safety` | 1 worker, 2 calls, 2 messages, 2 replies, 2 attempts, 2 faults | TypeOK, SentOnce, RecoveredIsDelivered, FinalizedIsSettled, StagedIsReconciled, ImplementsRecoverOnce | hold |
| `rec_live` | 1 worker, 1 call, 1 message, 2 attempts, 1 fault, fair | NoStuckRun | holds |
| `rec_receipt` | 1 worker, 1 call, 1 message, 1 attempt, no fault | TerminalReceiptIsFinal | violated, finding 1 |
| `doc` | 1 call, 1 finalizer, recovery on and off, 2 finalization attempts, 3 faults, fair | TypeOK, AnswerIsKept, RecoveryRequestIsKept, FinalizationSettles | hold |
| `doc_answer` | 2 calls, no fault | AnswerIsKept | violated, finding 2 |
| `coord` | 3 calls, 2 voice messages and a text, batches of 2, 1 process, 2 faults, fair | BatchesOK, RunningIsFindable, NoMessageIsForgotten, AnsweredTwiceOnlyIfSuperseded, EveryMessageIsAnswered | hold |
| `sop` | 2 tasks, 2 content groups, 2 attempts, 2 faults, fair | TypeOK, CompletedIsClosed, LostIsNotRepeated, EveryTaskEnds | hold |
| `sop_again` | as `sop` | InvokedIsNotSentAgain | violated, finding 3 |
| `outreach` | a plan of two steps and a later plan of one, 1 message of the customer, 1 fault, receipts on and off, fair | TypeOK, PostedOnce, OneAfterReply, NoPlanIsStuck, InOrder, ActivePlanEnds | hold |
| `pipeline` | 2 models, 2 requests in parallel, 2 tries, default budgets in ticks, fair | TypeOK, ExitIsKept, OnlyValidRepliesWrite, RepairHasItsTurn, RequestsAreBounded, TurnEnds, TurnIsBounded | hold |
| `pipeline_exit` | 1 model, 1 try | ExitSurvivesRepair | violated, finding 4 |

Every property of a passing run has a mutant in PROJECT.json: a change of a
modelled definition that a plausible bug would make, under which TLC finds the
property violated in the same configuration.  Deadlock is not checked where the
system comes to rest: when every call is answered, every task closed and the
customer silent, nothing happens.

### 3.1 Why these bounds

* *Generation.*  Two calls give an owner and a retry that joins it, waits for it
  or takes its lease over; two processes separate the shared row from process
  memory; two faults let owner and taker-over both fail.  Safety is proved for any
  number of calls and processes (section 4).  Two retries that take over the same
  dead lease beside its owner need a third call: that case is left to the theorems
  `LiveLease` and `SingleAnswer`.
* *Recovery.*  Two messages distinguish full, partial and failed delivery; two
  attempts distinguish the first, the last and the exhausted one; two calls give
  the HTTP owner and one that takes the lease.  Two faults put a crash on both
  sides of a send.  `rec_live` has one call: the platform may repeat a message for
  ever, and retries that take a lease over and die for ever settle nothing.
* *Document.*  One run has one document, and what overlaps is one reader per
  writer.  Three faults, because each may undo an attempt; two attempts, because the
  production limit of six adds nothing but length.
* *Coordinator and batches.*  Three calls give a chain of two supersessions, a
  batch of two beside a text, or a batch of two and the retry of one of its
  messages; a batch limit of two makes a batch full.  One process, because
  batches and records live in one and never meet another's, and the safety
  properties are proved for any number.
* *SOP.*  Two tasks are the least for a sequence in which one waits, two groups for
  a content that is already bound; one task may bring its own content.  Two
  attempts distinguish a retry from the last; two faults put a loss and a restart
  into one history; its liveness property keeps the run that small.  The
  invariants are proved for any number of tasks, groups, attempts and faults, and
  so is `LeftOutIsFound`, which is how the exception `Marooned` of `EveryTaskEnds`
  came to light: two tasks are too few for it (section 4).
* *Outreach.*  Two steps are the least for an order, a second plan the least for
  what an old plan does to a new one.
* *Pipeline.*  A tick is about four seconds: round 25 s and 35 s (6 and 8 ticks),
  primary 30 s (7), repair 15 s (4), of which 9 s (2) are kept back, and 4 s (1) for
  a repetition.  Two models race, two at a time, and may be repeated once.

### 3.2 Fairness

Fairness is stated only for what the code schedules.  A task of the event loop
that can run is run (`WF TaskStep`, `WF WorkerStep`, `WF HandlerStep`,
`WF FinalizerStep`, `WF CallStep`, `WF Proceed`, `WF React`, `WF Polling`,
`WF Execute`), and a response whose task ended is written
(`WF Answer \/ AnswerError`).  Deadlines and windows pass (`WF Expire`,
`WF Ripen`, `WF Tick`, `WF Close`, `WF Resolve`, the last because a transcription
has a limit); the nodes of a turn and its commit graph have timeouts of their own
(`WF Node`, `WF EndCommit`).  The reaper runs in the polling loop of the recovery
worker: `WF Reap` is part of `WF WorkerStep` in `rec_live` and void in `gen` when
the recovery is off.  A delivery callback that has come is finalized, because
the platform repeats it until it is answered (`WF Finalizing`); it need not
come.  The recovery scan of SOP tasks is strongly fair for each task
(`SF Select`): it takes the least recently touched first, so every task that is
due again and again is taken.  No fairness is given to the platform, to the
customer, to retries or to callbacks: none of them has to come.  Faults are
bounded, so a property of eventual progress says what happens after the last.

### 3.3 Findings

1. *A receipt overwritten* (`rec_receipt`).  `update_message_dispatch_submission`
   tests a status that it read before.  A callback between the test and the
   update is lost: its event is recorded, its effect is not.
2. *An answer erased* (`doc_answer`).  The HTTP timing of a call that lost its
   run rewrites the document it read before the new owner's save.
3. *A second send* (`sop_again`).  The recovery scan takes a task that the poll has
   pulled and not queued yet, sends it and loses the answer of `/consume`; its
   backoff writes the status the event was found with, and the ordinary batch does
   not recognise the recorded send.
4. *An opt-out downgraded* (`pipeline_exit`).  The draft is copied
   (`graph/nodes/reply_generation.py:831`) before its reference aliases are
   restored (:1031), and the repair's floor is computed from the copy (:867).  A
   draft that cites the customer as the prompt tells it to gives no floor.

Findings 1 and 2 need the reads and writes of MySQL's default isolation; with
`SELECT ... FOR UPDATE`, which `save_v3_reply_core` uses, they could not happen.
The other writers of the document have the same form, and PROJECT.json lists
under "hazards" what else they can take away.

Smaller differences met on the way, without a run.  A call that gave up waiting
for the owner returns an empty response, which `run_platform_reply` caches for 15
minutes like an answer (`chat_runtime.py:303`), although the comment at :1851
promises a later retry the durable result.  The ten seconds that
`docs/architecture/V3_MODEL_NODES_AND_PROMPTS.md:61` says the nodes before the
reply leave for it are never reserved.  A reply that is ready at the end of an
ordinary round has its commit graph refused (`chat_runtime.py:1126`).

Limits of what holds, each an exception in the statement of a property or an
assumption of its run:

* `V3Recovery` is checked and proved with one worker because the deployment
  starts one; a claim has no token, so a second worker that outlived its claim
  would go on, and `SentOnce`, `CancelledNeverSent` and `StagedIsReconciled` would
  fail.
* `FinalizationSettles` is a claim about the production configuration, which has
  recovery off (`docs/current/DEVELOPMENT_STATUS.md`): with recovery on, three
  overlapping writers can leave a job in `error` without its payload.
* A message is answered twice if it arrives between a call's last look at its
  record and its completion, if its superseded call failed before its silence was
  saved and it is retried (with a voice message its whole batch is), or if its retry
  opened a second voice batch (`AnsweredTwiceOnlyIfSuperseded`).
* A voice message is answered by nobody if the call that was to answer for its
  batch finds its own message reserved by a retry that came through another batch
  (`TakenElsewhere` in `EveryMessageIsAnswered`): the others of the batch have
  ceded to it, and it joins a call that does not carry them.
* A SOP task is sent again over a row that names an answer, a success as in
  finding 3 or an unknown outcome, or after the platform has closed it: a
  recovery that found the task `platform_processing`, closed it as not sent and lost
  the report is deferred under that status and begins again.  What was sent and
  not recorded is not repeated while the task is open (`LostIsNotRepeated`).
* A SOP task that waits behind another one can be marooned: open on the platform,
  reserved in this process, and found by nobody until the worker restarts
  (`Marooned` in `EveryTaskEnds`).  A task that is closed without a send writes an
  audit that names no held tasks (`sop_platform_task_service.py:2005`), so the
  release that follows (`:2093`) gives none free, where
  `docs/contracts/third-party-sop-v3.md:110` has a third failure release the
  sequence.  Mostly the held task is still `platform_sequence_waiting`, which the
  recovery scan looks for.  It is marooned when another task that held it too has
  made it `accepted` again.  TLC shows this on a directed schedule: task 2 is
  prepared with 3 and deferred; after a restart 1 is prepared with 3, and the
  worker stops; 2 is recovered, and its end releases 3; a poll restores the
  reservations of 1, which is then closed as 70.  That takes three tasks and four
  failures, more than the run `sop` has.
* An outreach plan may stay open after a restart in the middle of its execution,
  while a receipt does not come, or when a step that held only a payment card was
  skipped alone (`ActivePlanEnds`, `NoPlanIsStuck`).  Beside `OneAfterReply`, the rows can show
  two active plans, or a completed plan with a live task, because
  `reschedule_outreach_task`, `update_outreach_task` and the plan status written
  from an older count overwrite a cancellation.

## 4. What is proved

TLAPS checks the theorems below for all sets of calls, messages, processes, plans
and tasks and for all bounds.  They assume what is named beside the constants:
fresh model values, bounds that are naturals, and two things the deployment
provides, `OneWorker` (the supervisor starts one recovery worker) and
`OneCall` where it is a premise.  Each proof module has one invariant that is
shown to hold at first and to be kept by every step, one step of the proof per
action; the properties follow from it.

**`V3GenerationProofs`.**  `Inv` is inductive (`Invariance`).  `AnsweredIsDurable`
is not inductive alone: a call could hold a payload that never reached the row.
What is added:

* `GeneratingIsUnsaved`: the snapshot and the status that ends a reservation come
  in one transaction, so a reservation has no snapshot yet;
* `SavingHoldsPayload`: a task about to save has something to save;
* `CallsInFlight`: a call has no answer before it is answered;
* `TokensAreFresh`: a call that has not claimed owns nothing and nobody has read
  its token;
* `SeenIsExpired`: the token a takeover compares with is that of a dead lease, as
  long as it stands.

The lemma `StepRow` says that every step leaves the row alone or does one of five
things to it; the invariants about the row follow from it instead of from the
actions.  `DurableAnswers`, `SingleAnswer` and `FinalSnapshot` (a saved result is
never replaced) follow; `LiveLease`
needs `SeenIsExpired`: a takeover matches only a dead token, so a live lease ends
by its holder's save.

Three more theorems are what `NoCallHangs` asks beyond fairness.  A waiting call
waits for a task that its process runs or has just ended (`NobodyWaitsInVain`);
there is only one such task for a message (`SingleTask`), which is why the record of
running tasks names the right one (`Registered`, `InTouch`); and each step of a task
brings it nearer to its end (`TasksComeToAnEnd`, over the lemma `TaskForward`, with
the measure `Left`).  `Refinement` maps the snapshot to the decision and the HTTP
answers to what the calls are told, and shows that each step is a step of
`ReplyOnce` or a stutter.

**`V3RecoveryProofs`.**  Five parts beside the type.  `Sending` ties the number of
submissions to the dispatch row and to what the worker is about to do: before
anything was posted the row says at most `submitting`, and only the worker that
wrote this posts.  `Quiet`: before a post there is no receipt anywhere.  `Truth`:
every receipt, in flight, in the row or in the hands of worker and handler,
agrees with the fate of the messages.  `Run`: what the run row may say meanwhile;
after a post it is a status that a receipt can settle, before it the worker's
claim stands.  `RecoveredIsDelivered` is part of its own invariant.  `OneWorker` is
needed: a claim carries no token, and a second worker would post between the look
at the dispatch and the post of the first.  `SentOnce`, `RecoveredIsDelivered`,
`FinalizedIsSettled` and `StagedIsReconciled` follow.  `Refinement` shows that
every step is a step of `RecoverOnce` or a stutter; beside the invariant it needs
`Cause`, that the worker cancels only a run whose customer has acted, and
`StepOnTheClearing`: an answer becomes cleared only while the customer has not acted,
nothing was sent and the worker's claim stands, so that without the second gate the
step from the generation would have no counterpart.  What the refinement
implies about runs of the code has theorems of its own as well: `NoSecondAnswer`
(a send implies that HTTP gave no answer of the model) and `CancelledNeverSent`.
Everything that `rec_safety` checks is proved.

**`RunDocumentProofs`.**  Two invariants, because the two properties hold under
different assumptions.  `RInv` (`Copies`: a writer past its read holds a document;
`Requested`: while recovery may still generate, the request is in the document and
in every text that will replace it) gives `RequestStays` for any number of
writers.  `AInv` (`Answered`: whoever holds a text from before the answer can no
longer be there when it is saved) gives `AnswerStays`, with the premise `OneCall`:
the HTTP timing of a call reads after its own save, and that of another call need
not, which is finding 2.

`OpenJobCanBeClaimed` is what `FinalizationSettles` asks beyond fairness: with
recovery off, a job that is still to be done keeps the payload that the claim looks
for.  Its invariant `JInv` says which of the overlapping texts may hold a job that
is over while the row still has it open: none that will be written back.  It needs
`OneCall` and `OneFinalizer`, and TLC shows that it fails without either.

**`ReplyCoordinatorProofs`.**  `IInv` has the type, `RunningIsFindable` and
three strengthenings: a call that has arrived has a message and a process, and
only calls that have begun have records (`Begun`); which outcome goes with which
point of a call, and that only a superseded call is silenced (`Fates`); and that
what a superseded call was asked is carried by a call that can no longer be
silenced or was not told to stop (`Carried`).  `SilencedIsCarried` alone is not
inductive: it says nothing of a superseded call that has not noticed yet.
`NewestIsFindable` and `NoMessageIsDropped` (the input of a silenced call is in that
of another one) are its consequences.

**`VoiceBatchProofs`.**  `Composition` is `VoiceSpec => Spec`: the coordinator with
voice batches in front implements the coordinator's own specification.  The only
invariant it needs is the type of tickets and batches; a call that comes through
its batch makes an `Arrive` step, and all else stutters.  The theorems about the
coordinator therefore hold behind the batches, without a second proof.

Two properties are about the two together and have invariants of their own.
`SecondAnswers` (`AnsweredTwiceOnlyIfSuperseded`) rests on `VInv`: a batch with a
result is not joined any more (`Frozen`), what a call was asked is its own text or
the whole of the batch it owns (`Asked`), what it carries was asked of it or of a call
it superseded (`Sourced`), a process keeps the record of a call nobody superseded
(`Kept`), and two such calls share a message only over a failed one (`Apart`).  The
property used to excuse only the message of the failed call; the proof did not go
through, because its retry asks for its whole batch again, and so the excused set is
all that the failed call was asked.  `NobodyIsForgotten` (`NoMessageIsForgotten`) is
what `EveryMessageIsAnswered` asks beyond termination: there is no state in which a
message was taken up, nobody has dealt with it and no call has it in hand.  `WInv`
adds what a call that is over was told (`Settled`), that a call keeps to its ticket
(`Exact`), that every batch has a latest message and so an owner (`Led`), and that a
call joins only one that has its message (`Joined`).

**`OutreachProofs`.**  `IInv` has the type, `PostedOnce` and four parts: what the
statuses of a task, its plan and its dispatch say about whether it was handed over
(`Held`), what the executor may rely on at each of its steps (`Executed`), that
the steps before the one executed were handed over and, where receipts are
required, received (`Preceded`), and that the executor's checks were made before
the customer wrote again (`Checked`).  Its consequences are `SentAtMostOnce`,
`SentInOrder` and `OneMessageAfterReply`, although `reschedule_outreach_task` may
revive any task that was cancelled: a revived task has to pass the checks again.

`PlansGoOn` (`NoPlanIsStuck`) is what `ActivePlanEnds` asks beyond fairness: a plan
that runs has a step that can be taken up, or the executor or a callback has work to
do on it.  Its invariant `SInv` adds that the steps of a plan are there once it is
made (`Made`), that a step is begun only when all before it were sent, and they
stay sent (`Ordered`), that a claim stands only while its executor holds it
(`Claimed`), and that a failed step leaves no step behind that still waits, except
while somebody is on the way to skip them (`Dropped`).  The step that can be taken up
is the first one that waits; that there is a first one is `FirstStep`, from the
library's theorem on minimal elements of well-founded relations.

**`ReplyPipelineProofs`.**  `IInv` has the type, the order of the clock and the
deadlines in each phase (`Clock`), the requests that may run (`Requests`), how
draft, floor and attempt belong together (`Drafts`), what an answer of the model
passed (`Said`), and who left writes (`Written`).  `RepairGetsItsTurn` is arithmetic
over `Clock` and the named assumptions on the budgets: what is kept back from the
primary call is enough for the repair under every assignment that satisfies them.
`BoundedTurns` (`TurnIsBounded`) is an action property: every step, also of the clock,
of a model or of the customer, lessens nine counts read in lexicographic order (what
is left of the turn's phases, attempts, tries, formats, requests and time).  It is
what `TurnEnds` asks beyond fairness.

**`SopTaskProofs`.**  `IInv` has the type, `CompletedIsClosed` and four parts.
`Batches`: what waits or is queued has a task to handle, so the choice of the
earliest one is defined.  `Written`: a row comes with its event, and before anything
is sent.  `Passing`: what the pass may rely on at each of its places, above all that
it reports only a task that is closed, and that the row says "begun" from the
submission until the answer is recorded.  `Lost`: for an open task without an
answer in its row, nothing was sent, or one submission of one content was (`Over`)
and the row is one that the next pass closes or finishes (`Kept`).
`LostIsNotRepeated` alone is not inductive, for it does not say why the next pass
will not prepare the row again: `Begin` has only `Resumes` and `ClosesAs` to go by,
and `Kept` is what makes one of them true, also when the pass was called by the
ordinary poll.

`NothingIsOverlooked` (`LeftOutIsFound`) is what `EveryTaskEnds` asks beyond fairness.
The reservations in memory, the rows that restore them and the statuses that the
recovery scan looks for are three lists that have to agree; what the polls leave
out because of the first two, the third finds.  `NInv` adds that what is reserved,
held, queued or waiting has an event (`KnownHeld`, `KnownBatches`) and that what is
taken for over is closed (`OverIsClosed`).  The first attempt had one exception,
tasks of the removed execution path.  Its proof stopped at a task that one task had
released while another still held it, which is `accepted` and reserved at once; TLC
then found the schedule that maroons it (section 3.3), and `EveryTaskEnds` names
it now.  The proof splits a pass into its start (`BeginStep`) and the rest
(`ProceedStep`), over a frame lemma (`Frame`): a step of a pass changes only its own
task's row, completes only a closed task and opens none again.

What is only model-checked is liveness: `NoCallHangs`, `RetryHeals`, `NoStuckRun`,
`FinalizationSettles`, `EveryMessageIsAnswered`, `EveryTaskEnds`, `ActivePlanEnds` and
`TurnEnds`.  Fairness and ENABLED are beyond the prover.  What these properties ask of
single states and steps is proved where it could be stated: `TurnIsBounded` for
`TurnEnds`, `NoMessageIsForgotten` for `EveryMessageIsAnswered`,
`OpenJobCanBeClaimed` for `FinalizationSettles`, `NoPlanIsStuck` for
`ActivePlanEnds`, `WaitsForATask`, `OneTaskPerProcess` and `TasksAdvance` for
`NoCallHangs`, `LeftOutIsFound` for `EveryTaskEnds`, and `FinalizedIsSettled` and
`StagedIsReconciled` for `NoStuckRun`.  Every invariant and every action property that a
passing run checks is proved.  `WaitsForATask`, `OneTaskPerProcess`, `TasksAdvance`,
`LeftOutIsFound` and `OpenJobCanBeClaimed` are in no configuration: TLC was asked for
them at the bounds of their runs before they were proved, and the theorems say more.
## 5. What is not modelled

The table in 1.1 names the parts; PROJECT.json says for each why.  The strategy
outbox has a protocol of its own and is the first item of the plan.  Material
identity, customer memory, work items, reception state and identity links are
data written in one transaction after one check; they commit or fail with it.
Storage is assumed to be transactional; supervision is assumed to restart what
it says; administration and the frontend keep no state.

The models cover a small part of the lines.  Most of this code is not protocol:
prompts, rules about the wording of a reply, extraction of facts, queries of the
dashboards, and paths that are no longer called.  A model of those would restate
them.  `sop_platform_task_service.py` for one has 7232 lines, of which the sequence
planning and the model decisions cannot be reached from the poll any more.

Within the modelled parts these details are left out.  Other tables written in
the reply transaction (SOP cancellation, materials, memory): they commit or fail
with it.  The seven-day limit of the finalization claim, its order and its batch
limit.  The SOP source of a dispatch.  Recalled and auto-opening
messages in the coordinator, which are filtered before it.  Clock skew between
processes: deadlines are compared as if one clock were read.  Outreach other than
the first-day plans, which is the only one the worker executes, and
`recover_interrupted_outreach_tasks` and `execute_due_tasks`, which have no caller.
In the monitor, the workflow runs that keep an evaluation from being repeated.
Failure alerts of SOP tasks.

## 6. Plan

Done: generation, recovery with delivery, the run document, the coordinator with
voice batches, the reply pipeline, SOP tasks, outreach; the proofs of section 4.
What is left, the most important behaviour first:

1. `StrategyOutbox`: claim, post, complete or fail, restart, duplicate delivery,
   against an abstract queue (at least once, nothing lost).
2. `FinalizationQueue`: the oldest-first claim with a batch limit and backoff;
   is every ripe job reached?
3. The lease of the SOP failure alerts, and the monitor's workflow runs
   (retry of an evaluation by its fingerprint).
