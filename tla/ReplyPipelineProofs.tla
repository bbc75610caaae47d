------------------------ MODULE ReplyPipelineProofs ------------------------
(***************************************************************************)
(* TypeOK, ExitIsKept, OnlyValidRepliesWrite, RepairHasItsTurn,            *)
(* RequestsAreBounded and TurnIsBounded, for all budgets, any number of    *)
(* candidates, requests in parallel and repetitions, with enforced budgets *)
(* and without.                                                            *)
(***************************************************************************)
EXTENDS ReplyPipeline, TLAPS, FiniteSetTheorems

Asking == {"ask", "backoff"}

\* Where time may be.
Clock ==
    /\ pc \in Upstream \cup {"reply"} => now <= Strong
    /\ pc \in Asking \/ flight # {} => now <= due /\ (enforced => due <= roundEnd)
    /\ pc \in Asking /\ attempt = "primary" =>
          due <= Strong + PrimaryBudget /\ (enforced => due <= roundEnd - Reserve)
    /\ pc = "failed" =>
          /\ now <= Strong + PrimaryBudget
          /\ attempt = "primary" /\ enforced => now <= roundEnd - Reserve

\* What is known of the requests that run.
Requests ==
    /\ flight # {} => pc = "ask" \/ (pc = "done" /\ superseded)
    /\ Cardinality(flight) <= MaxParallel
    /\ pc = "backoff" => try < Tries

\* What the drafts, the floor and the attempt say of each other.
Drafts ==
    /\ pc \in Upstream \cup {"reply"} => attempt = "none"
    /\ pc = "failed" => attempt # "repair"
    /\ pc \in Asking => attempt # "none"
    /\ pc = "salvage" => attempt = "repair"
    /\ attempt = "none" \/ (pc \in Asking /\ attempt = "primary") => draft = NoDraft
    /\ attempt # "repair" => ~floor
    /\ attempt = "repair" => floor = (draft # NoDraft /\ FloorOf(draft))
    /\ error2 \notin {"none", "call"} => second # NoDraft
    /\ error \notin {"none", "call"} => draft # NoDraft

\* What the model said passed the checks, and kept the exit of the draft.
Said ==
    /\ pc \in Graph => answer.by # "model"
    /\ answer.by = "model" =>
          /\ Verdict(answer.said, floor) = "ok"
          /\ draft # NoDraft /\ FloorOf(draft) => answer.said.exit

Written ==
    wrote => /\ pc \in {"commit", "done"}
             /\ answer.by = "model" /\ answer.said.sells

IInv == TypeOK /\ Clock /\ Requests /\ Drafts /\ Said /\ Written

-----------------------------------------------------------------------------
(* What the model writes and what the checks say of it. *)
LEMMA PayloadFacts ==
    ASSUME NEW p \in Payloads, NEW f \in BOOLEAN
    PROVE  /\ Restored(p) \in Payloads
           /\ Restored(p).exit = p.exit /\ Restored(p).sells = p.sells
           /\ FloorOf(p) => FloorOf(Restored(p))
           /\ Verdict(Restored(p), f) = Verdict(p, f)
           /\ Verdict(p, f) \in Errors \ {"none", "call"}
<1>1. Restored(p) \in Payloads
    BY DEF Restored, Payloads, Faults
<1>2. /\ Restored(p).exit = p.exit /\ Restored(p).sells = p.sells
      /\ Restored(p).fault = p.fault
      /\ Restored(p).ref = IF p.ref = "alias" THEN "message" ELSE p.ref
    BY DEF Restored, Payloads
<1>3. Restored(Restored(p)).ref = Restored(p).ref /\ Restored(Restored(p)).exit = p.exit
    BY <1>1, <1>2 DEF Restored, Payloads
<1>4. Verdict(Restored(p), f) = Verdict(p, f)
    BY <1>2, <1>3 DEF Verdict, Malformed, SellsOverExit, DropsFloor, Inadmissible, FloorOf
<1>5. Verdict(p, f) \in Errors \ {"none", "call"}
    BY DEF Verdict, Errors, Payloads, Faults, Malformed, Inadmissible
<1> QED
    BY <1>1, <1>2, <1>4, <1>5 DEF FloorOf

LEMMA ValidFacts ==
    ASSUME NEW p \in Payloads, NEW f \in BOOLEAN, Verdict(p, f) = "ok"
    PROVE  /\ ~(p.exit /\ p.sells)
           /\ f => p.exit
<1>1. Restored(p).exit = p.exit
    BY PayloadFacts
<1> QED
    BY <1>1 DEF Verdict, Malformed, SellsOverExit, DropsFloor, Inadmissible, FloorOf,
                Payloads, Faults

LEMMA SalvagedFacts ==
    ASSUME NEW p \in Payloads, NEW verdict
    PROVE  Salvaged(p, verdict) \subseteq Payloads
<1>1. \A f \in Faults : [p EXCEPT !.fault = f] \in Payloads
    BY DEF Payloads
<1>2. WithoutClaim(p) \subseteq Payloads
    BY <1>1 DEF WithoutClaim, Faults
<1> QED
    BY <1>2 DEF Salvaged

-----------------------------------------------------------------------------
(* The race of requests. *)
LEMMA LaunchedFacts ==
    ASSUME NEW running \in SUBSET (1 .. Models), NEW n \in 1 .. (Models + 1),
           Cardinality(running) <= MaxParallel
    PROVE  LET more == Launched(n, running)
           IN  /\ more \subseteq 1 .. Models /\ n + Cardinality(more) \in 1 .. (Models + 1)
               /\ Cardinality(running \cup more) <= MaxParallel
<1> DEFINE last == LesserOf(Models, n + MaxParallel - Cardinality(running) - 1)
           more == Launched(n, running)
<1>1. IsFiniteSet(running) /\ Cardinality(running) \in Nat
  <2>1. IsFiniteSet(1 .. Models)
      BY FS_Interval, RaceAssumption
  <2>2. IsFiniteSet(running)
      BY <2>1, FS_Subset
  <2> QED
      BY <2>2, FS_CardinalityType
<1>2. last \in Int /\ more = n .. last /\ last <= Models
      /\ last <= n + MaxParallel - Cardinality(running) - 1
    BY <1>1, RaceAssumption DEF LesserOf, Launched
<1>3. IsFiniteSet(more) /\ Cardinality(more) = IF n > last THEN 0 ELSE last - n + 1
    BY <1>2, FS_Interval
<1>4. more \subseteq 1 .. Models
    BY <1>2, RaceAssumption
<1>5. n + Cardinality(more) \in 1 .. (Models + 1)
    BY <1>2, <1>3, RaceAssumption
<1>6. Cardinality(running \cup more) <= Cardinality(running) + Cardinality(more)
  <2>1. Cardinality(running \cup more)
            = Cardinality(running) + Cardinality(more) - Cardinality(running \cap more)
      BY <1>1, <1>3, FS_Union
  <2>2. Cardinality(running \cap more) \in Nat
      BY <1>1, FS_Subset, FS_CardinalityType
  <2> QED
      BY <1>1, <1>2, <1>3, <2>1, <2>2
<1>7. Cardinality(running) + Cardinality(more) <= MaxParallel
    BY <1>1, <1>2, <1>3, RaceAssumption
<1>8. Cardinality(running \cup more) \in Nat
    BY <1>1, <1>3, FS_Union, FS_CardinalityType
<1> QED
    BY <1>1, <1>2, <1>3, <1>4, <1>5, <1>6, <1>7, <1>8, RaceAssumption

LEMMA FewerRequests ==
    ASSUME flight \in SUBSET (1 .. Models), Cardinality(flight) <= MaxParallel, NEW m
    PROVE  Cardinality(flight \ {m}) <= MaxParallel
<1>1. IsFiniteSet(1 .. Models)
    BY FS_Interval, RaceAssumption
<1>2. IsFiniteSet(flight)
    BY <1>1, FS_Subset
<1>3. Cardinality(flight) \in Nat /\ Cardinality(flight \ {m}) \in Nat
      /\ Cardinality(flight \ {m}) <= Cardinality(flight)
    BY <1>2, FS_Subset, FS_CardinalityType
<1> QED
    BY <1>3, RaceAssumption

LEMMA SmallRaces ==
    /\ Cardinality({}) <= MaxParallel /\ Cardinality({1}) <= MaxParallel
    /\ 1 \in 1 .. Models /\ 2 \in 1 .. (Models + 1)
<1>1. Cardinality({}) = 0 /\ Cardinality({1}) = 1
    BY FS_EmptySet, FS_Singleton
<1> QED
    BY <1>1, RaceAssumption

-----------------------------------------------------------------------------
(* Types, and what they need of the others: a time, and the repetitions. *)
RaceTyped ==
    /\ strict \in BOOLEAN /\ try \in 1 .. Tries /\ next \in 1 .. (Models + 1)
    /\ flight \subseteq 1 .. Models /\ bad \subseteq {"busy", "format"}

LEMMA NoRaceFacts ==
    ASSUME NoRace
    PROVE  RaceTyped' /\ due' = 0 /\ flight' = {}
  BY RaceAssumption DEF NoRace, RaceTyped

LEMMA TextFacts == \A by \in Texts : Text(by) \in Answers /\ Text(by).by = by /\ by # "model"
  BY DEF Text, Texts, Answers

LEMMA TypeStep == IInv /\ [Next]_vars => TypeOK'
<1> SUFFICES ASSUME IInv, [Next]_vars PROVE TypeOK'
    OBVIOUS
<1> USE RoundAssumption, BudgetAssumption, RetryAssumption, RaceAssumption
    DEF IInv, TypeOK, Horizon, RaceTyped
<1>0. Ordinary <= Strong /\ roundEnd <= Strong /\ roundEnd \in Nat /\ now \in Nat
    OBVIOUS
<1>1. CASE Tick
    BY <1>1, <1>0 DEF Tick, call, drafts, race, budget, Graph, Upstream
<1>2. CASE Node
    BY <1>2 DEF Node, After, call, drafts, race, Upstream, Graph
<1>3. CASE EndCommit
    BY <1>3 DEF EndCommit, call, drafts, race, budget
<1>4. CASE NodeRaises \/ NoModel \/ GraphTimeout \/ FixedText
  <2>1. \E by \in Texts : Answer(Text(by))
      BY <1>4 DEF NodeRaises, NoModel, GraphTimeout, FixedText, Texts
  <2>2. answer' \in Answers /\ pc' = "answered"
      BY <2>1, TextFacts DEF Answer
  <2>3. CASE GraphTimeout
      BY <2>2, <2>3, NoRaceFacts DEF GraphTimeout, drafts, budget
  <2>4. CASE NodeRaises \/ NoModel
      BY <2>2, <2>4 DEF NodeRaises, NoModel, call, drafts, race, budget
  <2>5. CASE FixedText
      BY <2>2, <2>5 DEF FixedText, call, drafts, race, budget
  <2> QED
      BY <1>4, <2>3, <2>4, <2>5
<1>5. CASE Backoff
    BY <1>5 DEF Backoff, call, drafts, race, budget, Graph
<1>50. CASE Supersede \/ Write \/ Preempt
  <2>1. /\ UNCHANGED <<now, budget, call, drafts, answer>> /\ pc' \in {pc, "done"}
        /\ superseded' \in BOOLEAN /\ wrote' \in BOOLEAN
      BY <1>50 DEF Supersede, Write, Preempt
  <2> QED
      BY <2>1 DEF call, drafts, race, budget
<1>51. CASE Unwind
    BY <1>51, NoRaceFacts DEF Unwind, drafts, budget
<1>52. CASE Hedge
  <2>1. next \in 1 .. Models
      BY <1>52 DEF Hedge
  <2> QED
      BY <1>52, <2>1 DEF Hedge, drafts, budget
<1>6. CASE Retry \/ WithoutFormat
  <2>1. Retry => RaceTyped' /\ pc' = "ask"
      BY DEF Retry, Race, Requests
  <2>2. WithoutFormat => RaceTyped' /\ pc' = "ask"
    <3>1. WithoutFormat => Race(FALSE, 1)
        BY DEF WithoutFormat
    <3>2. Race(FALSE, 1) => strict' = FALSE /\ try' = 1 /\ next' = 2 /\ flight' = {1}
                              /\ bad' = {} /\ pc' = "ask"
        BY DEF Race
    <3>3. WithoutFormat => strict' \in BOOLEAN
        BY <3>1, <3>2
    <3> QED
        BY <3>1, <3>2, <3>3
  <2>3. RaceTyped' /\ pc' = "ask"
      BY <1>6, <2>1, <2>2
  <2> QED
      BY <1>6, <2>3 DEF Retry, WithoutFormat, drafts, budget, Graph
<1>7. CASE GiveUpCall
    BY <1>7, NoRaceFacts DEF GiveUpCall, CallFails, Graph, Errors, budget
<1>8. CASE Primary
  <2>1. PrimaryDeadline > now => PrimaryDeadline \in 0 .. Horizon
      BY <1>8, <1>0 DEF Primary, PrimaryDeadline, Reserve, LesserOf, Clock
  <2>2. CASE PrimaryDeadline <= now
    <3>1. pc' = "failed" /\ error' = "call" /\ UNCHANGED call
        BY <1>8, <2>2 DEF Primary
    <3> QED
        BY <1>8, <3>1 DEF Primary, call, race, budget, Graph, Errors
  <2>3. CASE ~(PrimaryDeadline <= now)
    <3>1. Race(TRUE, 1) /\ attempt' = "primary" /\ due' = PrimaryDeadline /\ error' = error
        BY <1>8, <2>3 DEF Primary
    <3>2. RaceTyped' /\ pc' = "ask"
        BY <3>1 DEF Race
    <3>3. due' \in 0 .. Horizon
        BY <2>1, <2>3, <3>1, <1>0 DEF PrimaryDeadline, Reserve, LesserOf
    <3> QED
        BY <1>8, <3>1, <3>2, <3>3 DEF Primary, budget, Graph
  <2> QED
      BY <2>2, <2>3
<1>9. CASE Repair
  <2>1. RepairDeadline \in 0 .. Horizon
      BY <1>9, <1>0 DEF Repair, RepairDeadline, Capped, LesserOf, Clock
  <2>2. RaceTyped' /\ pc' = "ask"
      BY <1>9 DEF Repair, Race
  <2> QED
      BY <1>9, <2>1, <2>2 DEF Repair, FloorOf, budget, Graph
<1>10. CASE Salvage
  <2>1. PICK p \in Salvaged(second, error2) \cup Salvaged(draft, error) :
            Answer([by |-> "model", said |-> Restored(p)])
      BY <1>10 DEF Salvage
  <2>2. p \in Payloads
      BY <1>10, <2>1, SalvagedFacts DEF Salvage, Drafts, Salvaged
  <2>3. answer' \in Answers /\ pc' = "answered"
      BY <2>1, <2>2, PayloadFacts DEF Answer, Answers
  <2> QED
      BY <1>10, <2>3 DEF Salvage, call, drafts, race, budget
<1>11. CASE Finish
    BY <1>11 DEF Finish, Text, Answers, Texts, call, drafts, race, budget
<1>12. ASSUME NEW m \in 1 .. Models, NEW kind \in {"busy", "format", "other"}, RequestFails(m, kind)
       PROVE  TypeOK'
  <2> DEFINE more == Launched(next, flight \ {m})
  <2>1. Cardinality(flight \ {m}) <= MaxParallel
      BY FewerRequests DEF Requests
  <2>2. more \subseteq 1 .. Models /\ next + Cardinality(more) \in 1 .. (Models + 1)
      BY <2>1, LaunchedFacts
  <2>3. flight' \subseteq 1 .. Models /\ next' \in 1 .. (Models + 1)
      BY <1>12, <2>2 DEF RequestFails
  <2> QED
      BY <1>12, <2>3 DEF RequestFails, drafts, budget
<1>13. ASSUME NEW m \in 1 .. Models, NEW p \in Payloads, Receive(m, p)
       PROVE  TypeOK'
  <2> DEFINE verdict == Verdict(p, attempt = "repair" /\ floor)
  <2>1. verdict \in Errors /\ Restored(p) \in Payloads
      BY PayloadFacts
  <2>2. answer' \in Answers /\ pc' \in Graph \cup {"answered"}
      BY <1>13, <2>1 DEF Receive, Answer, Answers, Graph
  <2>3. draft' \in Payloads \cup {NoDraft} /\ second' \in Payloads \cup {NoDraft}
        /\ error' \in Errors /\ error2' \in Errors
      BY <1>13, <2>1 DEF Receive
  <2> QED
      BY <1>13, <2>2, <2>3, NoRaceFacts DEF Receive, budget
<1>14. CASE UNCHANGED vars
    BY <1>14 DEF vars, call, drafts, race, budget
<1> QED
    BY <1>1, <1>2, <1>3, <1>4, <1>5, <1>50, <1>51, <1>52, <1>6, <1>7, <1>8, <1>9, <1>10, <1>11, <1>12,
       <1>13, <1>14
    DEF Next, React, Respond

-----------------------------------------------------------------------------
(* Time, and the requests that run in it. *)
LEMMA ClockStep == IInv /\ [Next]_vars => Clock'
<1> SUFFICES ASSUME IInv, [Next]_vars PROVE Clock'
    OBVIOUS
<1> USE RoundAssumption, BudgetAssumption, RetryAssumption
    DEF IInv, TypeOK, Clock, Requests, Drafts, Asking
<1>0. /\ Ordinary <= Strong /\ roundEnd <= Strong /\ roundEnd \in Nat /\ now \in Nat /\ due \in Nat
      /\ Reserve \in Nat /\ Strong \in Nat /\ PrimaryBudget \in Nat /\ RepairBudget \in Nat
    BY DEF Reserve, LesserOf
<1>1. CASE Tick
    BY <1>1, <1>0 DEF Tick, call, race, budget, Upstream, Graph
<1>2. CASE Node
  <2>1. pc' \in {"route", "facts", "material", "reply"}
      BY <1>2 DEF Node, After, Upstream
  <2>2. flight' = {} /\ now' <= Strong
      BY <1>2 DEF Node, call, race, Upstream
  <2> QED
      BY <2>1, <2>2 DEF Upstream
<1>3. CASE EndCommit \/ NodeRaises \/ NoModel \/ Salvage \/ FixedText \/ Finish \/ Preempt
    BY <1>3, <1>0 DEF EndCommit, NodeRaises, NoModel, Salvage, FixedText, Finish, Preempt, Answer,
       call, race, budget, Upstream, Graph
<1>4. CASE GraphTimeout
    BY <1>4, NoRaceFacts DEF GraphTimeout, Answer, Upstream
<1>5. CASE Unwind
    BY <1>5, NoRaceFacts DEF Unwind, Upstream
<1>6. CASE Backoff \/ Supersede \/ Write
    BY <1>6 DEF Backoff, Supersede, Write, call, race, budget, RaceIsLost, Upstream
<1>7. CASE Retry \/ WithoutFormat
    BY <1>7 DEF Retry, WithoutFormat, Race, RaceIsLost, budget, Upstream
<1>8. CASE Hedge
    BY <1>8 DEF Hedge, budget, Upstream
<1>9. ASSUME NEW m, NEW kind, RequestFails(m, kind) PROVE Clock'
    BY <1>9 DEF RequestFails, budget, Upstream
<1>10. CASE GiveUpCall
    BY <1>10, <1>0, NoRaceFacts DEF GiveUpCall, CallFails, RaceIsLost, budget, Upstream
<1>11. CASE Primary
    BY <1>11, <1>0 DEF Primary, PrimaryDeadline, LesserOf, Race, call, race, budget, Upstream
<1>12. CASE Repair
    BY <1>12, <1>0 DEF Repair, RepairDeadline, Capped, MayRepair, LesserOf, Race, budget, Upstream
<1>13. ASSUME NEW m, NEW p, Receive(m, p) PROVE Clock'
    BY <1>13, <1>0, NoRaceFacts DEF Receive, Answer, budget, Upstream
<1>14. CASE UNCHANGED vars
    BY <1>14 DEF vars, call, race, budget
<1> QED
    BY <1>1, <1>2, <1>3, <1>4, <1>5, <1>6, <1>7, <1>8, <1>9, <1>10, <1>11, <1>12, <1>13, <1>14
    DEF Next, React, Respond

LEMMA RequestsStep == IInv /\ [Next]_vars => Requests'
<1> SUFFICES ASSUME IInv, [Next]_vars PROVE Requests'
    OBVIOUS
<1> USE DEF IInv, Requests
<1>1. CASE Tick \/ Node \/ EndCommit \/ NodeRaises \/ NoModel \/ Salvage \/ FixedText \/ Finish
    BY <1>1 DEF Tick, Node, EndCommit, NodeRaises, NoModel, Salvage, FixedText, Finish, Answer,
       After, call, race, Upstream, Graph
<1>2. CASE Supersede \/ Write \/ Preempt \/ Backoff
    BY <1>2 DEF Supersede, Write, Preempt, Backoff, Repeats, RaceIsLost, call, race, Graph
<1>3. CASE GraphTimeout \/ Unwind \/ GiveUpCall
    BY <1>3, NoRaceFacts, SmallRaces DEF GraphTimeout, Unwind, GiveUpCall, CallFails, Answer
<1>4. CASE Retry \/ WithoutFormat
    BY <1>4, SmallRaces DEF Retry, WithoutFormat, Race
<1>5. CASE Hedge
  <2>1. IsFiniteSet(flight) /\ Cardinality(flight) \in Nat
    <3>1. IsFiniteSet(1 .. Models)
        BY FS_Interval, RaceAssumption
    <3>2. IsFiniteSet(flight)
        BY <3>1, FS_Subset DEF TypeOK
    <3> QED
        BY <3>2, FS_CardinalityType
  <2>2. Cardinality(flight \cup {next}) <= Cardinality(flight) + 1
      BY <2>1, FS_AddElement
  <2>3. Cardinality(flight \cup {next}) \in Nat
      BY <2>1, FS_AddElement, FS_CardinalityType
  <2> QED
      BY <1>5, <2>1, <2>2, <2>3, RaceAssumption DEF Hedge
<1>6. ASSUME NEW m \in 1 .. Models, NEW kind, RequestFails(m, kind) PROVE Requests'
  <2>1. Cardinality(flight \ {m}) <= MaxParallel
      BY FewerRequests DEF TypeOK
  <2>2. Cardinality((flight \ {m}) \cup Launched(next, flight \ {m})) <= MaxParallel
      BY <2>1, LaunchedFacts DEF TypeOK
  <2> QED
      BY <1>6, <2>2 DEF RequestFails
<1>7. CASE Primary
    BY <1>7, SmallRaces DEF Primary, Race, call, race
<1>8. CASE Repair
    BY <1>8, SmallRaces DEF Repair, Race
<1>9. ASSUME NEW m, NEW p, Receive(m, p) PROVE Requests'
    BY <1>9, NoRaceFacts, SmallRaces DEF Receive, Answer
<1>10. CASE UNCHANGED vars
    BY <1>10 DEF vars, call, race
<1> QED
    BY <1>1, <1>2, <1>3, <1>4, <1>5, <1>6, <1>7, <1>8, <1>9, <1>10 DEF Next, React, Respond

-----------------------------------------------------------------------------
(* What is written, checked and said. *)
LEMMA DraftsStep == IInv /\ [Next]_vars => Drafts'
<1> SUFFICES ASSUME IInv, [Next]_vars PROVE Drafts'
    OBVIOUS
<1> USE DEF IInv, Drafts, Asking
<1>1. CASE Tick \/ EndCommit \/ NodeRaises \/ NoModel \/ Salvage \/ FixedText \/ Finish
    BY <1>1 DEF Tick, EndCommit, NodeRaises, NoModel, Salvage, FixedText, Finish, Answer,
       call, drafts, Upstream, Graph
<1>2. CASE Node
    BY <1>2 DEF Node, After, call, drafts, Upstream
<1>3. CASE Supersede \/ Write \/ Preempt \/ Backoff \/ Unwind
    BY <1>3 DEF Supersede, Write, Preempt, Backoff, Unwind, RaceIsLost, call, drafts, Upstream, Graph
<1>4. CASE GraphTimeout
    BY <1>4 DEF GraphTimeout, Answer, drafts, Upstream
<1>5. CASE Retry \/ WithoutFormat
    BY <1>5 DEF Retry, WithoutFormat, Race, RaceIsLost, drafts, Upstream
<1>6. CASE Hedge
    BY <1>6 DEF Hedge, drafts, Upstream
<1>7. ASSUME NEW m, NEW kind, RequestFails(m, kind) PROVE Drafts'
    BY <1>7 DEF RequestFails, drafts, Upstream
<1>8. CASE GiveUpCall
    BY <1>8 DEF GiveUpCall, CallFails, RaceIsLost, Upstream, TypeOK
<1>9. CASE Primary
    BY <1>9 DEF Primary, Race, call, Upstream
<1>10. CASE Repair
    BY <1>10 DEF Repair, Race, FloorOf, Upstream
<1>11. ASSUME NEW m \in 1 .. Models, NEW p \in Payloads, Receive(m, p) PROVE Drafts'
  <2>1. attempt \in {"primary", "repair"} /\ attempt' = attempt /\ floor' = floor
      BY <1>11 DEF Receive, TypeOK
  <2>2. p # NoDraft
      BY NoDraftAssumption
  <2>3. pc' \in {"answered", IF attempt = "primary" THEN "failed" ELSE "salvage"}
      BY <1>11 DEF Receive, Answer
  <2> QED
      BY <1>11, <2>1, <2>2, <2>3 DEF Receive, Upstream
<1>12. CASE UNCHANGED vars
    BY <1>12 DEF vars, call, drafts
<1> QED
    BY <1>1, <1>2, <1>3, <1>4, <1>5, <1>6, <1>7, <1>8, <1>9, <1>10, <1>11, <1>12
    DEF Next, React, Respond

LEMMA SaidStep == IInv /\ [Next]_vars => Said'
<1> SUFFICES ASSUME IInv, [Next]_vars PROVE Said'
    OBVIOUS
<1> USE DEF IInv, Said
<1>1. CASE Tick \/ Node \/ EndCommit \/ Supersede \/ Write \/ Preempt \/ Backoff \/ Unwind
    BY <1>1 DEF Tick, Node, EndCommit, Supersede, Write, Preempt, Backoff, Unwind, RaceIsLost,
       After, drafts, Upstream, Graph
<1>2. CASE NodeRaises \/ NoModel \/ GraphTimeout \/ FixedText
  <2>1. \E by \in Texts : Answer(Text(by))
      BY <1>2 DEF NodeRaises, NoModel, GraphTimeout, FixedText, Texts
  <2> QED
      BY <2>1, TextFacts DEF Answer, Graph, Upstream
<1>3. CASE Retry \/ WithoutFormat \/ Hedge
    BY <1>3 DEF Retry, WithoutFormat, Hedge, RaceIsLost, Race, drafts, Graph
<1>4. ASSUME NEW m, NEW kind, RequestFails(m, kind) PROVE Said'
    BY <1>4 DEF RequestFails, drafts
<1>5. CASE GiveUpCall
    BY <1>5 DEF GiveUpCall, CallFails, RaceIsLost, Graph
<1>6. CASE Primary
    BY <1>6 DEF Primary, Race, Graph
<1>7. CASE Repair
    BY <1>7 DEF Repair, Race, Graph
<1>8. CASE Salvage
  <2>1. PICK p \in Salvaged(second, error2) \cup Salvaged(draft, error) :
            Verdict(p, floor) = "ok" /\ Answer([by |-> "model", said |-> Restored(p)])
      BY <1>8 DEF Salvage
  <2>2. p \in Payloads
      BY <1>8, <2>1, SalvagedFacts DEF Salvage, Drafts, Salvaged, TypeOK
  <2>3. floor \in BOOLEAN /\ (FloorOf(draft) => floor)
      BY <1>8 DEF Salvage, Drafts, TypeOK
  <2>4. Verdict(Restored(p), floor) = "ok" /\ Restored(p).exit = p.exit
      BY <2>1, <2>2, <2>3, PayloadFacts
  <2>5. floor => p.exit
      BY <2>1, <2>2, <2>3, ValidFacts
  <2> QED
      BY <1>8, <2>1, <2>3, <2>4, <2>5 DEF Salvage, Answer, FloorOf, drafts, Graph, Upstream
<1>9. CASE Finish
    BY <1>9, TextFacts DEF Finish, Texts, drafts, Graph, Upstream
<1>10. ASSUME NEW m \in 1 .. Models, NEW p \in Payloads, Receive(m, p) PROVE Said'
  <2> DEFINE kept == attempt = "repair" /\ floor
  <2>1. attempt \in {"primary", "repair"} /\ floor \in BOOLEAN /\ kept \in BOOLEAN /\ floor' = floor
      BY <1>10 DEF Receive, Drafts, Asking, TypeOK
  <2>2. kept = floor
      BY <2>1 DEF Drafts
  <2>3. CASE Verdict(p, kept) = "ok"
    <3>1. pc' = "answered" /\ answer' = [by |-> "model", said |-> Restored(p)]
        BY <1>10, <2>3 DEF Receive, Answer
    <3>2. Verdict(Restored(p), kept) = "ok" /\ Restored(p).exit = p.exit
        BY <2>1, <2>3, PayloadFacts
    <3>3. CASE attempt = "primary"
      <4>1. draft' = p
          BY <1>10, <3>3 DEF Receive
      <4> QED
          BY <2>1, <2>2, <3>1, <3>2, <4>1 DEF FloorOf, Graph, Upstream
    <3>4. CASE attempt = "repair"
      <4>1. draft' = draft /\ (draft # NoDraft /\ FloorOf(draft) => kept)
          BY <1>10, <3>4 DEF Receive, Drafts
      <4>2. kept => p.exit
          BY <2>1, <2>3, ValidFacts
      <4>3. FloorOf(draft)' = FloorOf(draft)
          BY <4>1 DEF FloorOf
      <4> QED
          BY <2>1, <2>2, <3>1, <3>2, <4>1, <4>2, <4>3 DEF Graph, Upstream
    <3> QED
        BY <2>1, <3>3, <3>4
  <2>4. CASE Verdict(p, kept) # "ok"
      BY <1>10, <2>4 DEF Receive, Graph
  <2> QED
      BY <2>3, <2>4
<1>11. CASE UNCHANGED vars
    BY <1>11 DEF vars, drafts
<1> QED
    BY <1>1, <1>2, <1>3, <1>4, <1>5, <1>6, <1>7, <1>8, <1>9, <1>10, <1>11 DEF Next, React, Respond

LEMMA WrittenStep == IInv /\ [Next]_vars => Written'
<1> SUFFICES ASSUME IInv, [Next]_vars PROVE Written'
    OBVIOUS
<1> USE DEF IInv, Written
<1>1. CASE Write
    BY <1>1 DEF Write, Wants
<1>2. CASE EndCommit \/ Supersede \/ Tick \/ Unwind
    BY <1>2 DEF EndCommit, Supersede, Tick, Unwind
<1>3. CASE Node \/ NodeRaises \/ GraphTimeout \/ Backoff \/ Retry \/ WithoutFormat \/ GiveUpCall
           \/ NoModel \/ Primary \/ Repair \/ Salvage \/ FixedText \/ Preempt \/ Hedge
    BY <1>3 DEF Node, NodeRaises, GraphTimeout, Backoff, Retry, WithoutFormat, GiveUpCall,
       NoModel, Primary, Repair, Salvage, FixedText, Preempt, Hedge, RaceIsLost, Upstream, Graph
<1>4. CASE Finish
    BY <1>4 DEF Finish
<1>5. ASSUME NEW m, NEW kind, RequestFails(m, kind) PROVE Written'
    BY <1>5 DEF RequestFails
<1>6. ASSUME NEW m, NEW p, Receive(m, p) PROVE Written'
    BY <1>6 DEF Receive
<1>7. CASE UNCHANGED vars
    BY <1>7 DEF vars
<1> QED
    BY <1>1, <1>2, <1>3, <1>4, <1>5, <1>6, <1>7 DEF Next, React, Respond

-----------------------------------------------------------------------------
(* The invariant of the turn: types, time, requests, drafts, what was said  *)
(* and what was written, for all budgets and any number of candidates.      *)
THEOREM Invariance == Spec => []IInv
<1>1. Init => IInv
  <2> SUFFICES ASSUME Init PROVE IInv
      OBVIOUS
  <2>1. answer \in Answers /\ pc \in Graph
      BY TextFacts DEF Init, Texts, Graph, Upstream
  <2>4. now \in 0 .. Horizon /\ due \in 0 .. Horizon /\ try \in 1 .. Tries
         /\ next \in 1 .. (Models + 1)
      BY RoundAssumption, BudgetAssumption, RaceAssumption DEF Init, Horizon
  <2>5. TypeOK
      BY <2>1, <2>4 DEF Init, TypeOK, Errors
  <2>2. Clock /\ Requests /\ Drafts /\ Written
      BY SmallRaces, RoundAssumption
      DEF Init, Clock, Requests, Drafts, Written, Asking, Upstream
  <2>3. Said
      BY TextFacts DEF Init, Said, Texts
  <2> QED
      BY <2>2, <2>3, <2>5 DEF IInv
<1>2. IInv /\ [Next]_vars => IInv'
    BY TypeStep, ClockStep, RequestsStep, DraftsStep, SaidStep, WrittenStep DEF IInv
<1> QED
    BY <1>1, <1>2, PTL DEF Spec

(* The turn's clock, call, drafts and answer keep their types. *)
THEOREM TypeCorrect == Spec => []TypeOK
<1>1. IInv => TypeOK
    BY DEF IInv
<1> QED
    BY <1>1, Invariance, PTL

(* A repair cannot take back an exit that the draft grounded in a message   *)
(* of the customer: the answer keeps it and does not sell.                  *)
THEOREM ExitKept == Spec => []ExitIsKept
<1>1. IInv => ExitIsKept
  <2> SUFFICES ASSUME IInv, draft # NoDraft, draft.exit, draft.ref \in {"message"},
                      answer.by = "model"
               PROVE  answer.said.exit /\ ~answer.said.sells
      BY DEF ExitIsKept, Keeps
  <2>1. answer.said \in Payloads /\ floor \in BOOLEAN
      BY DEF IInv, TypeOK, Answers, Text, Texts
  <2>2. Verdict(answer.said, floor) = "ok" /\ answer.said.exit
      BY DEF IInv, Said, FloorOf
  <2> QED
      BY <2>1, <2>2, ValidFacts
<1> QED
    BY <1>1, Invariance, PTL

(* Only a reply that passed every check, and that the customer is given,    *)
(* causes a write.                                                          *)
THEOREM WritesAreValid == Spec => []OnlyValidRepliesWrite
<1>1. IInv => OnlyValidRepliesWrite
  <2> SUFFICES ASSUME IInv, wrote
               PROVE  answer.by = "model" /\ ~answer.said.exit /\ Verdict(answer.said, floor) = "ok"
      BY DEF OnlyValidRepliesWrite
  <2>1. answer.by = "model" /\ answer.said.sells
      BY DEF IInv, Written
  <2>2. answer.said \in Payloads /\ floor \in BOOLEAN /\ Verdict(answer.said, floor) = "ok"
      BY <2>1 DEF IInv, TypeOK, Said, Answers, Texts
  <2> QED
      BY <2>1, <2>2, ValidFacts
<1> QED
    BY <1>1, Invariance, PTL

(* A primary call that was started leaves the repair its time.              *)
THEOREM RepairGetsItsTurn == Spec => []RepairHasItsTurn
<1>1. IInv => RepairHasItsTurn
  <2>1. IInv => /\ roundEnd \in Int /\ now \in Int
                /\ Reserve \in Int /\ MinRetry \in Int /\ MinRetry <= Reserve
      BY RoundAssumption, BudgetAssumption, RetryAssumption
      DEF IInv, TypeOK, Horizon, Reserve, LesserOf
  <2> QED
      BY <2>1 DEF IInv, Clock, RepairHasItsTurn, MayRepair
<1> QED
    BY <1>1, Invariance, PTL

(* Requests run only while they are awaited or unwound, at most MaxParallel *)
(* of them, and never beyond the end of an enforced round.                  *)
THEOREM BoundedRequests == Spec => []RequestsAreBounded
<1>1. IInv => RequestsAreBounded
  <2>1. IInv => now \in Int /\ due \in Int /\ roundEnd \in Int
      BY RoundAssumption, BudgetAssumption DEF IInv, TypeOK, Horizon
  <2> QED
      BY <2>1 DEF IInv, Clock, Requests, RequestsAreBounded
<1> QED
    BY <1>1, Invariance, PTL

-----------------------------------------------------------------------------
(* The end of the turn. *)

\* Each of what a step may use up, when it leaves the more weighty as it is.
Spent ==
    \/ ~superseded /\ superseded'
    \/ superseded' = superseded /\ ~wrote /\ wrote'
    \/ superseded' = superseded /\ wrote' = wrote
       /\ \/ now' > now
          \/ now' = now /\ Phase' < Phase
          \/ now' = now /\ Phase' = Phase /\ strict /\ ~strict'
          \/ now' = now /\ Phase' = Phase /\ strict' = strict /\ try' > try
          \/ now' = now /\ Phase' = Phase /\ strict' = strict /\ try' = try /\ next' > next
          \/ /\ now' = now /\ Phase' = Phase /\ strict' = strict /\ try' = try /\ next' = next
             /\ Cardinality(flight') < Cardinality(flight)
          \/ /\ now' = now /\ Phase' = Phase /\ strict' = strict /\ try' = try /\ next' = next
             /\ flight' = flight /\ pc = "ask" /\ pc' # "ask"

LEMMA PhaseIsCount == TypeOK => Phase \in 0 .. 12
  BY DEF TypeOK, Phase, Graph, Upstream

LEMMA LessIsLeft == ASSUME NEW a \in Nat, NEW x \in Nat, NEW y \in Nat, y > x PROVE a - y < a - x
  OBVIOUS

(* Every step spends something. *)
LEMMA StepSpends == IInv /\ Next => Spent
<1> SUFFICES ASSUME IInv, Next PROVE Spent
    OBVIOUS
<1> USE DEF IInv
<1>0. now \in Nat /\ next \in Nat /\ try \in Nat /\ superseded \in BOOLEAN /\ wrote \in BOOLEAN
      /\ strict \in BOOLEAN
    BY DEF TypeOK
<1>1. CASE Tick
    BY <1>0, <1>1 DEF Tick, Spent
<1>2. CASE Supersede \/ Write
    BY <1>0, <1>2 DEF Supersede, Write, Spent
<1>3. ASSUME UNCHANGED <<now, superseded, wrote>>, Phase' < Phase PROVE Spent
    BY <1>3 DEF Spent
<1>4. CASE Node
    BY <1>3, <1>4 DEF Node, After, Upstream, Phase
<1>5. CASE NodeRaises \/ NoModel \/ GraphTimeout \/ Salvage \/ FixedText
  <2>1. pc \in Graph /\ pc' = "answered" /\ UNCHANGED <<now, superseded, wrote>>
      BY <1>5 DEF NodeRaises, NoModel, GraphTimeout, Salvage, FixedText, Answer, Graph
  <2>2. Phase > 3 /\ Phase' = 3
      BY <2>1 DEF Phase, Graph, Upstream
  <2> QED
      BY <1>3, <2>1, <2>2
<1>6. CASE EndCommit \/ Finish
  <2>1. flight = {} /\ flight' = {}
      BY <1>6 DEF EndCommit, Finish, Requests, call, race
  <2> QED
      BY <1>3, <1>6, <2>1 DEF EndCommit, Finish, Phase
<1>7. CASE Preempt
  <2>1. Phase > 1 /\ Phase' <= 1 /\ Phase' \in Int
      BY <1>7 DEF Preempt, Phase, Graph, Upstream
  <2> QED
      BY <1>3, <1>7, <2>1, PhaseIsCount DEF Preempt
<1>8. CASE Unwind
    BY <1>3, <1>8, NoRaceFacts DEF Unwind, Phase
<1>9. CASE GiveUpCall
  <2>1. pc \in Asking /\ attempt \in {"primary", "repair"}
      BY <1>9 DEF GiveUpCall, RaceIsLost, Asking, Drafts, TypeOK
  <2>2. pc' = (IF attempt = "primary" THEN "failed" ELSE "salvage") /\ UNCHANGED <<now, superseded, wrote>>
      BY <1>9 DEF GiveUpCall, CallFails
  <2> QED
      BY <1>3, <2>1, <2>2 DEF Phase, Asking
<1>10. ASSUME NEW m \in 1 .. Models, NEW p \in Payloads, Receive(m, p) PROVE Spent
  <2>1. pc = "ask" /\ UNCHANGED <<now, superseded, wrote, attempt>>
      BY <1>10 DEF Receive
  <2>2. pc' \in {"answered", IF attempt = "primary" THEN "failed" ELSE "salvage"}
      BY <1>10 DEF Receive, Answer
  <2> QED
      BY <1>3, <2>1, <2>2 DEF Phase
<1>11. CASE Primary \/ Repair
  <2>1. UNCHANGED <<now, superseded, wrote>>
      BY <1>11 DEF Primary, Repair
  <2>2. CASE Primary
      BY <1>3, <2>1, <2>2 DEF Primary, Race, Phase
  <2>3. CASE Repair
      BY <1>3, <2>1, <2>3 DEF Repair, Race, Phase
  <2> QED
      BY <1>11, <2>2, <2>3
<1>12. CASE Backoff \/ Retry \/ WithoutFormat
  <2>1. pc \in Asking /\ pc' \in Asking /\ UNCHANGED <<now, superseded, wrote, attempt>>
      BY <1>12 DEF Backoff, Retry, WithoutFormat, RaceIsLost, Race, call, Asking
  <2>2. Phase' = Phase
      BY <2>1 DEF Phase, Asking
  <2>3. CASE Backoff
      BY <2>1, <2>2, <2>3 DEF Backoff, RaceIsLost, call, race, Spent
  <2>4. CASE Retry
      BY <1>0, <2>1, <2>2, <2>4 DEF Retry, Race, Spent
  <2>5. CASE WithoutFormat
      BY <1>0, <2>1, <2>2, <2>5 DEF WithoutFormat, Race, Spent
  <2> QED
      BY <1>12, <2>3, <2>4, <2>5
<1>13. CASE Hedge
  <2>1. Phase' = Phase
      BY <1>13 DEF Hedge, Phase
  <2> QED
      BY <1>0, <1>13, <2>1 DEF Hedge, Spent
<1>14. ASSUME NEW m \in 1 .. Models, NEW kind, RequestFails(m, kind) PROVE Spent
  <2> DEFINE more == Launched(next, flight \ {m})
  <2>1. Phase' = Phase
      BY <1>14 DEF RequestFails, Phase
  <2>2. IsFiniteSet(flight) /\ m \in flight
    <3>1. IsFiniteSet(1 .. Models)
        BY FS_Interval, RaceAssumption
    <3> QED
        BY <1>14, <3>1, FS_Subset DEF RequestFails, TypeOK
  <2>3. Cardinality(flight \ {m}) = Cardinality(flight) - 1 /\ Cardinality(flight) \in Nat
      BY <2>2, FS_RemoveElement, FS_CardinalityType
  <2>4. flight' = (flight \ {m}) \cup more /\ next' = next + Cardinality(more)
      BY <1>14 DEF RequestFails
  <2>5. IsFiniteSet(more)
    <3>1. Cardinality(flight \ {m}) \in Nat
        BY <2>2, FS_Subset, FS_CardinalityType
    <3>2. LesserOf(Models, next + MaxParallel - Cardinality(flight \ {m}) - 1) \in Int
        BY <1>0, <3>1, RaceAssumption DEF LesserOf
    <3> QED
        BY <1>0, <3>2, FS_Interval DEF Launched
  <2>6. CASE more = {}
    <3>1. next' = next /\ flight' = flight \ {m}
        BY <1>0, <2>4, <2>6, FS_EmptySet
    <3>2. Cardinality(flight') < Cardinality(flight)
        BY <2>3, <3>1
    <3> QED
        BY <1>14, <2>1, <3>1, <3>2 DEF RequestFails, Spent
  <2>7. CASE more # {}
    <3>1. Cardinality(more) \in Nat /\ Cardinality(more) # 0
        BY <2>5, <2>7, FS_EmptySet, FS_CardinalityType
    <3>2. next' > next
        BY <1>0, <2>4, <3>1
    <3> QED
        BY <1>14, <2>1, <3>2 DEF RequestFails, Spent
  <2> QED
      BY <2>6, <2>7
<1> QED
    BY <1>1, <1>2, <1>4, <1>5, <1>6, <1>7, <1>8, <1>9, <1>10, <1>11, <1>12, <1>13, <1>14
    DEF Next, React, Respond

LEMMA LeftIsCount == IInv => Left \in [1 .. 9 -> Nat]
<1> SUFFICES ASSUME IInv PROVE Left \in [1 .. 9 -> Nat]
    OBVIOUS
<1>1. now \in 0 .. Horizon /\ Horizon \in Nat /\ try \in 1 .. Tries /\ next \in 1 .. (Models + 1)
    BY RoundAssumption, BudgetAssumption DEF IInv, TypeOK, Horizon
<1>2. Horizon - now \in Nat /\ Tries - try \in Nat /\ (Models + 1) - next \in Nat
    BY <1>1, RaceAssumption
<1>3. Cardinality(flight) \in Nat
  <2>1. IsFiniteSet(1 .. Models)
      BY FS_Interval, RaceAssumption
  <2> QED
      BY <2>1, FS_Subset, FS_CardinalityType DEF IInv, TypeOK
<1>4. Phase \in Nat
    BY PhaseIsCount DEF IInv
<1>5. \A condition : Count(condition) \in Nat
    BY DEF Count
<1> QED
    BY <1>2, <1>3, <1>4, <1>5 DEF Left, Unasked

(* No turn goes on for ever, whatever the budgets and however many models,  *)
(* requests in parallel and repetitions: every step, of the event loop, the *)
(* models, the clock or the customer, leaves less of it.  With a step       *)
(* always to take, which only TLC shows, this is why every turn ends.       *)
THEOREM BoundedTurns == Spec => TurnIsBounded
<1>1. IInv /\ IInv' /\ [Next]_vars => [Shortens]_vars
  <2> SUFFICES ASSUME IInv, IInv', Next PROVE Sooner(Left, Left')
      BY LeftIsCount DEF Shortens
  <2>1. Spent
      BY StepSpends
  <2>2. /\ Horizon \in Nat /\ now \in Nat /\ now' \in Nat
        /\ next \in Nat /\ next' \in Nat /\ try \in Nat /\ try' \in Nat
        /\ Tries \in Nat /\ Models + 1 \in Nat
      BY RaceAssumption, RoundAssumption, BudgetAssumption DEF IInv, TypeOK, Horizon
  <2>3. /\ Left[1] = Count(~superseded) /\ Left[2] = Count(~wrote) /\ Left[3] = Horizon - now
        /\ Left[4] = Phase /\ Left[5] = Count(strict) /\ Left[6] = Tries - try
        /\ Left[7] = Unasked /\ Left[8] = Cardinality(flight) /\ Left[9] = Count(pc = "ask")
      BY DEF Left
  <2>4. /\ Left'[1] = Count(~superseded') /\ Left'[2] = Count(~wrote') /\ Left'[3] = Horizon - now'
        /\ Left'[4] = Phase' /\ Left'[5] = Count(strict') /\ Left'[6] = Tries - try'
        /\ Left'[7] = Unasked' /\ Left'[8] = Cardinality(flight')
        /\ Left'[9] = Count(pc' = "ask")
      BY DEF Left
  <2> DEFINE old == Left
             new == Left'
  <2>5. ASSUME NEW i \in 1 .. 9, new[i] < old[i], \A j \in 1 .. (i - 1) : new[j] = old[j]
        PROVE  Sooner(old, new)
      BY <2>5 DEF Sooner
  <2>6. Count(TRUE) = 1 /\ Count(FALSE) = 0
      BY DEF Count
  <2>7. \/ new[1] < old[1]
        \/ new[1] = old[1] /\ new[2] < old[2]
        \/ new[1] = old[1] /\ new[2] = old[2] /\ new[3] < old[3]
        \/ new[1] = old[1] /\ new[2] = old[2] /\ new[3] = old[3] /\ new[4] < old[4]
        \/ /\ new[1] = old[1] /\ new[2] = old[2] /\ new[3] = old[3] /\ new[4] = old[4]
           /\ \/ new[5] < old[5]
              \/ new[5] = old[5] /\ new[6] < old[6]
              \/ new[5] = old[5] /\ new[6] = old[6] /\ new[7] < old[7]
              \/ new[5] = old[5] /\ new[6] = old[6] /\ new[7] = old[7] /\ new[8] < old[8]
              \/ /\ new[5] = old[5] /\ new[6] = old[6] /\ new[7] = old[7] /\ new[8] = old[8]
                 /\ new[9] < old[9]
    <3>1. CASE ~superseded /\ superseded'
        BY <2>3, <2>4, <3>1 DEF Count
    <3>2. CASE superseded' = superseded /\ ~wrote /\ wrote'
        BY <2>3, <2>4, <3>2 DEF Count
    <3>3. CASE superseded' = superseded /\ wrote' = wrote
      <4>1. new[1] = old[1] /\ new[2] = old[2]
          BY <2>3, <2>4, <3>3
      <4>2. ASSUME now' > now PROVE new[3] < old[3]
        <5>1. Horizon - now' < Horizon - now
            BY <2>2, <4>2, LessIsLeft, Zenon
        <5> QED
            BY <2>3, <2>4, <5>1, Zenon
      <4>3. CASE now' = now /\ Phase' < Phase
          BY <2>3, <2>4, <4>1, <4>3
      <4>4. ASSUME now' = now, Phase' = Phase, strict, ~strict' PROVE new[3] = old[3] /\ new[4] = old[4] /\ new[5] < old[5]
          BY <2>3, <2>4, <4>4 DEF Count
      <4>5. ASSUME now' = now, Phase' = Phase, strict' = strict
            PROVE  new[3] = old[3] /\ new[4] = old[4] /\ new[5] = old[5]
          BY <2>3, <2>4, <4>5
      <4>6. ASSUME try' > try PROVE new[6] < old[6]
        <5>1. Tries - try' < Tries - try
            BY <2>2, <4>6, LessIsLeft, Zenon
        <5> QED
            BY <2>3, <2>4, <5>1, Zenon
      <4>7. ASSUME try' = try PROVE new[6] = old[6]
          BY <2>3, <2>4, <4>7
      <4>8. ASSUME next' > next PROVE new[7] < old[7]
        <5>1. Unasked' < Unasked
          <6> DEFINE all == Models + 1
          <6>1. all \in Nat
              BY <2>2
          <6>2. Unasked = all - next /\ Unasked' = all - next'
              BY DEF Unasked
          <6> HIDE DEF all
          <6> QED
              BY <2>2, <4>8, <6>1, <6>2, LessIsLeft, Zenon
        <5> QED
            BY <2>3, <2>4, <5>1, Zenon
      <4>9. ASSUME next' = next PROVE new[7] = old[7]
          BY <2>3, <2>4, <4>9 DEF Unasked
      <4>10. ASSUME Cardinality(flight') < Cardinality(flight) PROVE new[8] < old[8]
          BY <2>3, <2>4, <4>10
      <4>11. ASSUME flight' = flight, pc = "ask", pc' # "ask" PROVE new[8] = old[8] /\ new[9] < old[9]
          BY <2>3, <2>4, <4>11 DEF Count
      <4> QED
          BY <2>1, <3>3, <4>1, <4>2, <4>3, <4>4, <4>5, <4>6, <4>7, <4>8, <4>9, <4>10, <4>11 DEF Spent
    <3> QED
        BY <2>1, <3>1, <3>2, <3>3 DEF Spent
  <2> HIDE DEF old, new
  <2>8. Sooner(old, new)
      BY <2>5, <2>7
  <2> QED
      BY <2>8 DEF old, new
<1> QED
    BY <1>1, Invariance, PTL DEF Spec, TurnIsBounded
=============================================================================
