--------------------------- MODULE ReplyPipeline ---------------------------
(***************************************************************************)
(* One turn of the reply process, from the start of the full graph to the  *)
(* end of the commit graph: the nodes before the reply, the round budget   *)
(* they share with it, the reply's model call with its hedged requests,    *)
(* the one repair, the validation of what the model wrote, the fixed texts *)
(* of a turn that failed, preemption by a newer message of the customer,   *)
(* and the writes that the validated reply asked for.                      *)
(*                                                                         *)
(* Time is a number of ticks.  The event loop reacts to a deadline at the  *)
(* tick it falls on: time does not pass while a timeout is due.            *)
(***************************************************************************)
EXTENDS Integers, FiniteSets

CONSTANTS
    Ordinary,       \* the round's deadline
    Strong,         \* the deadline of a round with fact tools, and the graph's
    PrimaryBudget,  \* model_reply_primary_budget_seconds
    RepairBudget,   \* model_reply_recovery_budget_seconds
    RepairCap,      \* the most the primary call leaves for the repair
    MinRetry,       \* min_retry_remaining_seconds
    Models,         \* candidates of the reply tier
    MaxParallel,    \* model_hedge_max_parallel
    Tries,          \* model_request_retry_attempts
    NoDraft

LesserOf(a, b) == IF a < b THEN a ELSE b

Reserve == LesserOf(RepairBudget, RepairCap)

ASSUME RoundAssumption ==
    Ordinary \in Nat /\ Strong \in Nat /\ Ordinary <= Strong
ASSUME BudgetAssumption ==
    /\ PrimaryBudget \in Nat \ {0}
    /\ RepairBudget \in Nat \ {0}
    /\ RepairCap \in Nat
ASSUME RetryAssumption == MinRetry \in Nat \ {0} /\ MinRetry <= Reserve
ASSUME RaceAssumption ==
    Models \in Nat \ {0} /\ MaxParallel \in Nat \ {0} /\ Tries \in Nat \ {0}

(***************************************************************************)
(* What the model writes.  exit: it decided that the customer asked to be  *)
(* left alone.  ref: how it cites the message that says so: "alias" is the *)
(* short form the prompt tells it to use, "message" the reference itself.  *)
(* sells: the answer sells, or asks for a write (a work order, a phone     *)
(* number).  fault: what else is wrong with it; "content" is found before  *)
(* the exit is looked at, "claim" and "fact" after it, and "claim" is in   *)
(* sentences that may be cut out.  The sales policy is on: with its        *)
(* runtime_mode "off" the code knows no exit.                              *)
(***************************************************************************)
Faults == {"none", "content", "claim", "fact"}

Payloads ==
    [exit : {FALSE}, ref : {"none"}, sells : BOOLEAN, fault : Faults]
    \cup [exit : {TRUE}, ref : {"none", "alias", "message"}, sells : BOOLEAN, fault : Faults]

ASSUME NoDraftAssumption == NoDraft \notin Payloads

Restored(p) == [p EXCEPT !.ref = IF @ = "alias" THEN "message" ELSE @]

\* The exit counts if it cites a message of the customer that exists.
FloorOf(p) == p.exit /\ p.ref = "message"

(***************************************************************************)
(* The checks of a reply, in the order they are made.                      *)
(***************************************************************************)
\* Structure, selected contents, the schema of the policy decision.
Malformed(p) == p.fault = "content"

SellsOverExit(p) == p.exit /\ p.sells

\* Mutant: the checks forget the floor.
DropsNothing(p, floor) == FALSE

\* The references are restored before this check.
DropsFloor(p, floor) == floor /\ ~FloorOf(Restored(p))

\* The admission collects all its violations: "claim" says that each of them
\* is in sentences that may be cut out.
Inadmissible(p) == p.fault \in {"claim", "fact"}

\* The first check that p fails.
Verdict(p, floor) ==
    IF Malformed(p) THEN "content"
    ELSE IF SellsOverExit(p) THEN "exit"
    ELSE IF DropsFloor(p, floor) THEN "floor"
    ELSE IF Inadmissible(p) THEN p.fault
    ELSE "ok"

\* What is left of p without those sentences; more may be wrong with it.
WithoutClaim(p) == {[p EXCEPT !.fault = f] : f \in {"none", "fact"}}

Salvaged(p, verdict) == IF verdict = "claim" THEN WithoutClaim(p) ELSE {}

(***************************************************************************)
(* A model call: a race of requests to the candidates, repeated after a    *)
(* transient failure, then once more without the response format.          *)
(***************************************************************************)
VARIABLES
    now, enforced, roundEnd,  \* the clock, and the budget of the round
    pc,
    attempt, due,             \* the model call, and its deadline
    strict, try, next, flight, bad,
    draft, error,             \* what the primary call wrote, and its verdict
    second, error2,           \* the same of the repair
    floor,                    \* the repair must keep the exit
    answer,                   \* what the turn says, and on whose word
    superseded,               \* a newer message of the customer took the turn over
    wrote                     \* the platform took the write the reply asked for

budget == <<enforced, roundEnd>>
race == <<strict, try, next, flight, bad>>
call == <<attempt, due, race>>
drafts == <<draft, error, second, error2, floor>>
vars == <<now, budget, pc, call, drafts, answer, superseded, wrote>>

Upstream == {"context", "route", "facts", "material"}
Graph == Upstream \cup {"reply", "ask", "backoff", "failed", "salvage"}

\* Who wrote the answer: the model, or a fixed text.
Texts == {"nobody", "information", "exit", "hold", "fallback"}
Text(by) == [by |-> by, said |-> NoDraft]
Answers == [by : Texts, said : {NoDraft}] \cup [by : {"model"}, said : Payloads]

Horizon == Strong + PrimaryBudget + RepairBudget
Errors == {"none", "ok", "call", "exit", "floor"} \cup (Faults \ {"none"})

TypeOK ==
    /\ now \in 0..Horizon
    /\ enforced \in BOOLEAN /\ roundEnd \in {Ordinary, Strong}
    /\ pc \in Graph \cup {"answered", "commit", "done"}
    /\ attempt \in {"none", "primary", "repair"}
    /\ due \in 0..Horizon
    /\ strict \in BOOLEAN /\ try \in 1..Tries
    /\ next \in 1..(Models + 1) /\ flight \subseteq 1..Models /\ bad \subseteq {"busy", "format"}
    /\ draft \in Payloads \cup {NoDraft} /\ error \in Errors
    /\ second \in Payloads \cup {NoDraft} /\ error2 \in Errors
    /\ floor \in BOOLEAN
    /\ answer \in Answers
    /\ superseded \in BOOLEAN /\ wrote \in BOOLEAN

NoRace == strict' = TRUE /\ try' = 1 /\ next' = 1 /\ flight' = {} /\ bad' = {} /\ due' = 0

Init ==
    /\ now = 0
    /\ enforced \in BOOLEAN /\ roundEnd = Ordinary
    /\ pc = "context"
    /\ attempt = "none" /\ due = 0
    /\ strict = TRUE /\ try = 1 /\ next = 1 /\ flight = {} /\ bad = {}
    /\ draft = NoDraft /\ error = "none" /\ second = NoDraft /\ error2 = "none"
    /\ floor = FALSE
    /\ answer = Text("nobody")
    /\ superseded = FALSE /\ wrote = FALSE

Answer(a) == pc' = "answered" /\ answer' = a

-----------------------------------------------------------------------------
(* The graph before the reply.  Each node turns its own failures into a     *)
(* degraded output; what it does not catch ends the graph.                  *)

After == [context |-> "route", route |-> "facts", facts |-> "material", material |-> "reply"]

Node ==
    /\ pc \in Upstream
    /\ pc' = After[pc]
    /\ roundEnd' \in IF pc = "facts" /\ enforced THEN {roundEnd, Strong} ELSE {roundEnd}
    /\ UNCHANGED <<now, enforced, call, drafts, answer, superseded, wrote>>

NodeRaises ==
    /\ pc \in Upstream
    /\ Answer(Text("fallback"))
    /\ UNCHANGED <<now, budget, call, drafts, superseded, wrote>>

GraphTimeout ==
    /\ enforced /\ pc \in Graph /\ now >= Strong
    /\ NoRace
    /\ Answer(Text("fallback"))
    /\ UNCHANGED <<now, budget, attempt, drafts, superseded, wrote>>

-----------------------------------------------------------------------------
(* Model requests.                                                          *)

\* Mutant: as many requests as fit, without counting the candidates left.
LaunchedBeyond(n, running) == n..(n + MaxParallel - Cardinality(running) - 1)

Launched(n, running) == n..LesserOf(Models, n + MaxParallel - Cardinality(running) - 1)

Race(s, t) ==
    /\ strict' = s /\ try' = t /\ next' = 2 /\ flight' = {1} /\ bad' = {}
    /\ pc' = "ask"

Capped(d) == IF enforced THEN LesserOf(d, roundEnd) ELSE d

\* Mutant: the primary call may use the time kept for the repair.
PrimaryToTheEnd == Capped(now + PrimaryBudget)

\* Mutant: the repair has its whole budget, whatever is left of the round.
RepairUncapped == now + RepairBudget

PrimaryDeadline ==
    IF enforced THEN LesserOf(now + PrimaryBudget, roundEnd - Reserve) ELSE now + PrimaryBudget
RepairDeadline == Capped(now + RepairBudget)

Hedge ==
    /\ pc = "ask" /\ now < due /\ flight # {}
    /\ next <= Models /\ Cardinality(flight) < MaxParallel
    /\ flight' = flight \cup {next} /\ next' = next + 1
    /\ UNCHANGED <<now, budget, pc, attempt, due, strict, try, bad, drafts,
                   answer, superseded, wrote>>

\* A failed request makes room for the candidates that are left.
RequestFails(m, kind) ==
    /\ pc = "ask" /\ m \in flight /\ now < due
    /\ bad' = bad \cup ({kind} \cap {"busy", "format"})
    /\ LET more == Launched(next, flight \ {m})
       IN  flight' = (flight \ {m}) \cup more /\ next' = next + Cardinality(more)
    /\ UNCHANGED <<now, budget, pc, attempt, due, strict, try, drafts, answer,
                   superseded, wrote>>

CallFails ==
    /\ NoRace
    /\ IF attempt = "primary"
       THEN pc' = "failed" /\ error' = "call" /\ UNCHANGED error2
       ELSE pc' = "salvage" /\ error2' = "call" /\ UNCHANGED error
    /\ UNCHANGED <<attempt, draft, second, floor>>

Repeats == "busy" \in bad /\ try < Tries
RaceIsLost == pc = "ask" /\ flight = {} /\ now < due

Backoff ==
    /\ RaceIsLost /\ Repeats
    /\ pc' = "backoff"
    /\ UNCHANGED <<now, budget, call, drafts, answer, superseded, wrote>>

\* Mutant: a repetition does not use up a try.
RetryUncounted ==
    /\ pc = "backoff" /\ now < due
    /\ Race(strict, try)
    /\ UNCHANGED <<now, budget, attempt, due, drafts, answer, superseded, wrote>>

Retry ==
    /\ pc = "backoff" /\ now < due
    /\ Race(strict, try + 1)
    /\ UNCHANGED <<now, budget, attempt, due, drafts, answer, superseded, wrote>>

WithoutFormat ==
    /\ RaceIsLost /\ ~Repeats /\ strict /\ "format" \in bad
    /\ Race(FALSE, 1)
    /\ UNCHANGED <<now, budget, attempt, due, drafts, answer, superseded, wrote>>

\* Mutant: a deadline that falls into the pause before a retry goes unseen.
GiveUpAsking ==
    /\ \/ RaceIsLost /\ ~Repeats /\ ~(strict /\ "format" \in bad)
       \/ pc = "ask" /\ now >= due
    /\ CallFails
    /\ UNCHANGED <<now, budget, answer, superseded, wrote>>

GiveUpCall ==
    /\ \/ RaceIsLost /\ ~Repeats /\ ~(strict /\ "format" \in bad)
       \/ pc \in {"ask", "backoff"} /\ now >= due
    /\ CallFails
    /\ UNCHANGED <<now, budget, answer, superseded, wrote>>

\* A request returns what the model wrote; the others are cancelled and
\* awaited, and p is validated before anything else runs.
Receive(m, p) ==
    /\ pc = "ask" /\ m \in flight
    /\ NoRace
    /\ LET verdict == Verdict(p, attempt = "repair" /\ floor)
       IN  /\ IF attempt = "primary"
              THEN draft' = p /\ error' = verdict /\ UNCHANGED <<second, error2>>
              ELSE second' = p /\ error2' = verdict /\ UNCHANGED <<draft, error>>
           /\ IF verdict = "ok"
              THEN Answer([by |-> "model", said |-> Restored(p)])
              ELSE pc' = (IF attempt = "primary" THEN "failed" ELSE "salvage") /\ UNCHANGED answer
    /\ UNCHANGED <<now, budget, attempt, floor, superseded, wrote>>

-----------------------------------------------------------------------------
(* The reply node.                                                          *)

\* Answers that need no model: an input without information, a process
\* without a model.
NoModel ==
    /\ pc = "reply"
    /\ \E by \in {"information", "nobody"} : Answer(Text(by))
    /\ UNCHANGED <<now, budget, call, drafts, superseded, wrote>>

Primary ==
    /\ pc = "reply"
    /\ IF PrimaryDeadline <= now
       THEN pc' = "failed" /\ error' = "call" /\ UNCHANGED call
       ELSE Race(TRUE, 1) /\ attempt' = "primary" /\ due' = PrimaryDeadline /\ UNCHANGED error
    /\ UNCHANGED <<now, budget, draft, second, error2, floor, answer, superseded, wrote>>

MayRepair == enforced => roundEnd - now >= MinRetry

\* The floor is read off the draft as the model wrote it.
Repair ==
    /\ pc = "failed" /\ MayRepair
    /\ floor' = (draft # NoDraft /\ FloorOf(draft))
    /\ Race(TRUE, 1) /\ attempt' = "repair" /\ due' = RepairDeadline
    /\ UNCHANGED <<now, budget, draft, error, second, error2, answer, superseded, wrote>>

\* An invalid repair, or else the draft it should have repaired, without the
\* sentences that broke the contract.
Salvage ==
    /\ pc = "salvage" /\ draft # NoDraft
    /\ \E p \in Salvaged(second, error2) \cup Salvaged(draft, error) :
          /\ Verdict(p, floor) = "ok"
          /\ Answer([by |-> "model", said |-> Restored(p)])
    /\ UNCHANGED <<now, budget, call, drafts, superseded, wrote>>

\* Neither call gave an answer.
FixedText ==
    /\ \/ pc = "failed" /\ ~MayRepair
       \/ pc = "salvage"
    /\ Answer(Text(IF {error, error2} \cap {"exit", "floor"} # {} THEN "exit" ELSE "hold"))
    /\ UNCHANGED <<now, budget, call, drafts, superseded, wrote>>

-----------------------------------------------------------------------------
(* Around the graph.                                                        *)

\* The coordinator gives the turn to a newer message.
Supersede ==
    /\ ~superseded /\ pc # "done"
    /\ superseded' = TRUE
    /\ UNCHANGED <<now, budget, pc, call, drafts, answer, wrote>>

\* The graph's task is cancelled and not awaited.
Preempt ==
    /\ superseded /\ pc \in Graph
    /\ pc' = "done"
    /\ UNCHANGED <<now, budget, call, drafts, answer, superseded, wrote>>

\* The cancelled task gets to run, and cancels its requests.
Unwind ==
    /\ pc = "done" /\ flight # {}
    /\ NoRace
    /\ UNCHANGED <<now, budget, pc, attempt, drafts, answer, superseded, wrote>>

Finish ==
    /\ pc = "answered"
    /\ \/ superseded /\ answer' = Text("nobody") /\ pc' = "done"
       \/ ~superseded /\ answer.by = "nobody" /\ answer' = Text("hold") /\ pc' = "done"
       \/ /\ ~superseded /\ answer.by # "nobody" /\ UNCHANGED answer
          /\ pc' = IF enforced /\ now >= roundEnd THEN "done" ELSE "commit"
    /\ UNCHANGED <<now, budget, call, drafts, superseded, wrote>>

\* Mutant: a fixed text keeps the writes of the draft it replaces.
WantsOfDraft(a) == draft # NoDraft /\ draft.sells

Wants(a) == a.by = "model" /\ a.said.sells

\* The platform takes the write.
Write ==
    /\ pc = "commit" /\ Wants(answer) /\ ~wrote
    /\ wrote' = TRUE
    /\ UNCHANGED <<now, budget, pc, call, drafts, answer, superseded>>

\* The commit graph ends, fails or runs out of time; the reply stays.
EndCommit ==
    /\ pc = "commit"
    /\ pc' = "done"
    /\ UNCHANGED <<now, budget, call, drafts, answer, superseded, wrote>>

\* Nothing waits beyond its deadline.  Without an enforced budget the nodes
\* before the reply end by their own timeouts; the bound gives them Strong.
Tick ==
    /\ \/ pc \in Upstream /\ now < Strong
       \/ pc = "ask" /\ flight # {} /\ now < due
       \/ pc = "backoff" /\ now < due
       \/ pc = "commit" /\ enforced /\ now < roundEnd
    /\ (enforced /\ pc \in Graph) => now < Strong
    /\ ~(superseded /\ pc \in Graph)
    /\ now' = now + 1
    /\ UNCHANGED <<budget, pc, call, drafts, answer, superseded, wrote>>

-----------------------------------------------------------------------------
\* What the event loop does as soon as it can.
React ==
    \/ GraphTimeout \/ Backoff \/ Retry \/ WithoutFormat \/ GiveUpCall
    \/ NoModel \/ Primary \/ Repair \/ Salvage \/ FixedText
    \/ Preempt \/ Unwind \/ Finish

\* What others answer in their own time, or never.
Respond ==
    \/ NodeRaises \/ Hedge \/ Supersede \/ Write
    \/ \E m \in 1..Models :
          \/ \E kind \in {"busy", "format", "other"} : RequestFails(m, kind)
          \/ \E p \in Payloads : Receive(m, p)

Next == Tick \/ Node \/ EndCommit \/ React \/ Respond

Spec == Init /\ [][Next]_vars

\* The event loop runs what is ready and time passes; the calls of a node and
\* of the commit graph have timeouts of their own.
FairSpec ==
    Spec /\ WF_vars(React) /\ WF_vars(Tick) /\ WF_vars(Node) /\ WF_vars(EndCommit)

-----------------------------------------------------------------------------
(* The customer's exit is kept by the repair: if the draft said, citing the *)
(* customer in one of the forms refs, that the customer asked to be left    *)
(* alone, the turn's answer does not sell to them and asks for no write.    *)
Keeps(refs) ==
    (/\ draft # NoDraft /\ draft.exit /\ draft.ref \in refs
     /\ answer.by = "model")
        => answer.said.exit /\ ~answer.said.sells

ExitIsKept == Keeps({"message"})

(* The contract of the reply's admission says that an explicit exit must    *)
(* not be downgraded by a repair, whatever form the prompt has it cited in. *)
ExitSurvivesRepair == Keeps({"message", "alias"})

(* A write reaches the platform only for a reply that passed every check,   *)
(* the floor of the repair included, and is the answer the customer gets.   *)
OnlyValidRepliesWrite ==
    wrote => /\ answer.by = "model" /\ ~answer.said.exit
             /\ Verdict(answer.said, floor) = "ok"

(* The primary call leaves time for the repair: when it was tried and gave  *)
(* no valid answer, the repair may start.                                   *)
RepairHasItsTurn == pc = "failed" /\ attempt = "primary" => MayRepair

(* Requests run only while their call is awaited, at most MaxParallel of    *)
(* them, and never beyond the end of the round; a preempted turn may leave  *)
(* some until its task unwinds.                                             *)
RequestsAreBounded ==
    flight # {} =>
        /\ pc = "ask" \/ (pc = "done" /\ superseded)
        /\ Cardinality(flight) <= MaxParallel
        /\ enforced => now <= roundEnd

(* Every turn ends, however the models behave, and leaves no request.       *)
TurnEnds == <>[](pc = "done" /\ flight = {})

\* What is left of a turn: the more weighty first.
Phase ==
    CASE pc = "context"  -> 12
      [] pc = "route"    -> 11
      [] pc = "facts"    -> 10
      [] pc = "material" -> 9
      [] pc = "reply"    -> 8
      [] pc \in {"ask", "backoff"} -> IF attempt = "primary" THEN 7 ELSE 5
      [] pc = "failed"   -> 6
      [] pc = "salvage"  -> 4
      [] pc = "answered" -> 3
      [] pc = "commit"   -> 2
      [] pc = "done"     -> IF flight = {} THEN 0 ELSE 1

Unasked == (Models + 1) - next

Count(condition) == IF condition THEN 1 ELSE 0

Left ==
    <<Count(~superseded), Count(~wrote), Horizon - now, Phase,
      Count(strict), Tries - try, Unasked, Cardinality(flight), Count(pc = "ask")>>

Sooner(old, new) ==
    \E i \in 1..9 : new[i] < old[i] /\ \A j \in 1..(i - 1) : new[j] = old[j]

Shortens == Left \in [1..9 -> Nat] /\ Sooner(Left, Left')

(* No turn goes on for ever: hedging, repetition, the second format and the *)
(* repair each use up what they may not get back, so every step, whoever    *)
(* takes it, brings the turn nearer to its end.                             *)
TurnIsBounded == [][Shortens]_vars
=============================================================================
