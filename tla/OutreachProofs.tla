--------------------------- MODULE OutreachProofs ---------------------------
(***************************************************************************)
(* TypeOK, PostedOnce, InOrder, OneAfterReply and NoPlanIsStuck, for every *)
(* set of tasks, every number of messages of the customer and every bound  *)
(* on the faults.                                                          *)
(***************************************************************************)
EXTENDS Outreach, TLAPS, FiniteSetTheorems, WellFoundedInduction

\* The customer had written again when a message of x was taken.
After(x) == \E i \in DOMAIN posts[x] : posts[x][i] > plan[x[1]].seen

\* Who has a message: no task that waits, is claimed or was skipped, no task of
\* a plan not made, and every task that counts as sent or has a receipt.
Held ==
    /\ \A x \in Tasks : task[x] \in {"none", "pending", "checking", "skipped"} => posts[x] = <<>>
    /\ \A x \in Tasks : plan[x[1]].status = "none" => posts[x] = <<>>
    /\ \A x \in Tasks : dispatch[x] \in Confirmed => posts[x] # <<>>
    /\ \A x \in Tasks : task[x] = "sent" =>
          posts[x] # <<>> /\ (receipts => dispatch[x] = "succeeded")

\* What the executor may rely on.
Executed ==
    /\ executor.pc # "idle" => plan[Mine[1]].status # "none"
    /\ executor.pc \in {"check", "prepare", "send", "posting"} => posts[Mine] = <<>>
    /\ executor.pc = "posting" => task[Mine] = "sending"
    /\ executor.pc = "posted" => posts[Mine] # <<>>

\* The steps before the one that is executed.
Preceded ==
    executor.pc \in {"listed", "check", "prepare", "send", "posting"} =>
       \A y \in Of(Mine[1]) : y[2] < Mine[2] =>
          posts[y] # <<>> /\ (receipts => dispatch[y] = "succeeded")

\* The checks were made before the customer wrote again, or they failed.
Checked ==
    /\ \A x \in Tasks : \A i \in DOMAIN posts[x] : posts[x][i] <= said
    /\ executor.pc \in {"prepare", "send", "posting"} => \A y \in Of(Mine[1]) : ~After(y)
    /\ \A x, y \in Tasks : x[1] = y[1] /\ After(x) /\ After(y) => x = y

IInv == TypeOK /\ PostedOnce /\ Held /\ Executed /\ Preceded /\ Checked

-----------------------------------------------------------------------------
(* The tasks, their plans and what is written to a plan. *)
LEMMA TaskFacts ==
    /\ \A x \in Tasks : x[1] \in Nat /\ x[2] \in Nat /\ x[1] \in Plans /\ x \in Of(x[1])
    /\ \A p : Of(p) \subseteq Tasks
    /\ <<0, 0>> \notin Tasks
  BY TasksAreNumbered DEF Plans, Of

(* Each plan status and each step of the executor is one of the types. *)
LEMMA SetPlanTyped ==
    ASSUME plan \in [Plans -> Rows], said \in 0 .. MaxReplies,
           NEW p \in Plans, NEW status \in PlanStatuses, SetPlan(p, status)
    PROVE  plan' \in [Plans -> Rows]
  BY DEF SetPlan, Rows

LEMMA CancelTyped ==
    ASSUME plan \in [Plans -> Rows], task \in [Tasks -> TaskStatuses], CancelForReply
    PROVE  plan' \in [Plans -> Rows] /\ task' \in [Tasks -> TaskStatuses]
  BY DEF CancelForReply, Rows, PlanStatuses, TaskStatuses

LEMMA Busy ==
    ASSUME executor \in Executions \cup {Idle}
    PROVE  executor.pc # "idle" => executor \in Executions /\ Mine \in Tasks
  BY DEF Executions, Idle, Mine

LEMMA GoTyped ==
    ASSUME executor \in Executions, NEW pc \in Executing, Go(pc)
    PROVE  executor' \in Executions /\ executor'.task = executor.task /\ executor'.pc = pc
  BY DEF Go, Executions

LEMMA SettleTyped ==
    ASSUME plan \in [Plans -> Rows], task \in [Tasks -> TaskStatuses], said \in 0 .. MaxReplies,
           NEW x \in Tasks, NEW pc, NEW next, Settle(x, pc, next)
    PROVE  /\ plan' \in [Plans -> Rows] /\ task' \in [Tasks -> TaskStatuses]
           /\ next \in {"more", "last", "cancel", "end"}
<1> x[1] \in Plans
    BY TaskFacts
<1>1. CASE pc \in {"count", "more", "last", "cancel"}
      BY <1>1, SetPlanTyped DEF Settle, PlanStatuses
<1>2. CASE pc = "rest"
      BY <1>2 DEF Settle, SkipRemaining, TaskStatuses
<1> QED BY <1>1, <1>2 DEF Settle

(* A plan that is made stays made, from what the customer had written then. *)
LEMMA SetPlanKeeps ==
    ASSUME plan \in [Plans -> Rows], NEW p, NEW status, status # "none", SetPlan(p, status),
           NEW q \in Plans
    PROVE  plan'[q].seen = plan[q].seen /\ (plan'[q].status = "none" => plan[q].status = "none")
  BY DEF SetPlan, Rows

LEMMA CancelKeeps ==
    ASSUME plan \in [Plans -> Rows], task \in [Tasks -> TaskStatuses], CancelForReply
    PROVE  /\ \A q \in Plans : /\ plan'[q].seen = plan[q].seen
                               /\ plan'[q].status = "none" => plan[q].status = "none"
           /\ \A x \in Tasks : task'[x] = task[x] \/ (task[x] \in Unsent /\ task'[x] = "skipped")
<1>1. ASSUME NEW q \in Plans
      PROVE  plan'[q] = plan[q] \/ plan'[q] = [plan[q] EXCEPT !.status = "cancelled"]
      BY DEF CancelForReply
<1>2. ASSUME NEW q \in Plans
      PROVE  /\ plan'[q].seen = plan[q].seen
             /\ plan'[q].status = "none" => plan[q].status = "none"
  <2>1. CASE plan'[q] = plan[q]
        BY <2>1
  <2>2. CASE plan'[q] = [plan[q] EXCEPT !.status = "cancelled"]
    <3>1. plan[q] \in Rows
          OBVIOUS
    <3>2. plan'[q].seen = plan[q].seen /\ plan'[q].status = "cancelled"
          BY <2>2, <3>1 DEF Rows
    <3> QED BY <3>2
  <2> QED BY <1>1, <2>1, <2>2
<1>3. \A x \in Tasks : task'[x] = task[x] \/ (task[x] \in Unsent /\ task'[x] = "skipped")
      BY DEF CancelForReply
<1> QED BY <1>2, <1>3

LEMMA SettleKeeps ==
    ASSUME plan \in [Plans -> Rows], task \in [Tasks -> TaskStatuses],
           NEW x, NEW pc, NEW next, Settle(x, pc, next)
    PROVE  /\ \A q \in Plans : /\ plan'[q].seen = plan[q].seen
                               /\ plan'[q].status = "none" => plan[q].status = "none"
           /\ \A y \in Tasks : task'[y] = task[y] \/ (task[y] \in Unsent /\ task'[y] = "skipped")
<1>1. CASE pc \in {"count", "rest"}
  <2>1. plan' = plan
        BY <1>1 DEF Settle
  <2>2. \A y \in Tasks : task'[y] = task[y] \/ (task[y] \in Unsent /\ task'[y] = "skipped")
        BY <1>1 DEF Settle, SkipRemaining
  <2> QED BY <2>1, <2>2
<1>2. CASE pc \in {"more", "last", "cancel"}
  <2>1. PICK status : status # "none" /\ SetPlan(x[1], status)
        BY <1>2 DEF Settle
  <2>2. task' = task
        BY <1>2 DEF Settle
  <2> QED BY <2>1, <2>2, SetPlanKeeps
<1> QED BY <1>1, <1>2 DEF Settle

LEMMA GoKeeps ==
    ASSUME executor \in Executions, NEW pc, Go(pc)
    PROVE  executor'.task = executor.task /\ executor'.pc = pc
  BY DEF Go, Executions

(* A step that sends nothing and makes no plan, for an executor that has its
   checks behind it or none to rely on. *)
LEMMA CheckedKept ==
    ASSUME TypeOK, Checked, posts' = posts, said' \in Nat, said <= said',
           \A q \in Plans : plan'[q].seen = plan[q].seen,
           executor'.pc \in {"prepare", "send", "posting"} =>
              /\ executor'.task = executor.task
              /\ executor.pc \in {"prepare", "send", "posting"}
    PROVE  Checked'
<1> USE TaskFacts, BoundsAreNumbers DEF TypeOK, Checked, Mine
<1>1. \A x \in Tasks : After(x)' <=> After(x)
      BY DEF After
<1>2. \A x \in Tasks : \A i \in DOMAIN posts[x] : posts[x][i] \in Nat
      OBVIOUS
<1>3. \A x \in Tasks : \A i \in DOMAIN posts'[x] : posts'[x][i] <= said'
      BY <1>2
<1>4. executor'.pc \in {"prepare", "send", "posting"} => \A y \in Of(Mine'[1]) : ~After(y)'
      BY <1>1
<1> QED BY <1>1, <1>3, <1>4

LEMMA InitIInv == Init => IInv
  BY TaskFacts, BoundsAreNumbers
     DEF Init, IInv, TypeOK, PostedOnce, Held, Executed, Preceded, Checked, After, Rows, NoPlan,
         PlanStatuses, TaskStatuses, Confirmed, Submissions, Settling, Finalizations, Evaluations,
         Executions, Idle, Asleep, Mine

(* generate_plan writes one plan that was not made, or none. *)
LEMMA GenerateMakes ==
    ASSUME TypeOK, Generate
    PROVE  \/ plan' = plan /\ task' = task
           \/ \E p \in Plans :
                 /\ plan[p].status = "none" /\ plan'[p].status = "draft"
                 /\ \A q \in Plans \ {p} : plan'[q] = plan[q]
                 /\ \A x \in Tasks : task'[x] = (IF x[1] = p THEN "pending" ELSE task[x])
<1>1. CASE UNCHANGED <<plan, task>>
      BY <1>1
<1>2. CASE ~UNCHANGED <<plan, task>>
  <2>1. PICK p \in Plans :
           /\ \A q \in Plans : plan[q].status = "none" <=> q >= p
           /\ plan' = [plan EXCEPT ![p] = [status |-> "draft", seen |-> monitor.seen, doneAt |-> 0]]
           /\ task' = [x \in Tasks |-> IF x \in Of(p) THEN "pending" ELSE task[x]]
        BY <1>2 DEF Generate
  <2>2. p \in Nat
        BY TasksAreNumbered DEF Plans
  <2>3. plan[p].status = "none"
        BY <2>1, <2>2
  <2>4. plan'[p].status = "draft" /\ \A q \in Plans \ {p} : plan'[q] = plan[q]
        BY <2>1 DEF TypeOK
  <2>5. \A x \in Tasks : task'[x] = (IF x[1] = p THEN "pending" ELSE task[x])
        BY <2>1 DEF Of
  <2> QED BY <2>3, <2>4, <2>5
<1> QED BY <1>1, <1>2

(* Settling sends nothing: the executor goes on settling its task or is done. *)
LEMMA SettleExecutedKeeps ==
    ASSUME TypeOK, SettleExecuted
    PROVE  /\ \A q \in Plans : /\ plan'[q].seen = plan[q].seen
                               /\ plan'[q].status = "none" => plan[q].status = "none"
           /\ \A y \in Tasks : task'[y] = task[y] \/ (task[y] \in Unsent /\ task'[y] = "skipped")
           /\ executor.pc \in Settling
           /\ \/ executor'.pc = "idle"
              \/ executor'.pc \in Settling /\ executor'.task = executor.task
<1> USE DEF TypeOK
<1> PICK next \in Settling \cup {"end"} :
            /\ Settle(Mine, executor.pc, next)
            /\ IF next = "end" THEN executor' = Idle ELSE Go(next)
    BY DEF SettleExecuted
<1>1. executor.pc \in Settling
      BY DEF Settle, Settling
<1>2. /\ \A q \in Plans : /\ plan'[q].seen = plan[q].seen
                          /\ plan'[q].status = "none" => plan[q].status = "none"
      /\ \A y \in Tasks : task'[y] = task[y] \/ (task[y] \in Unsent /\ task'[y] = "skipped")
      BY SettleKeeps
<1>3. executor \in Executions
      BY <1>1, Busy DEF Settling
<1>4. \/ executor'.pc = "idle"
      \/ executor'.pc \in Settling /\ executor'.task = executor.task
  <2>1. CASE next = "end"
        BY <2>1 DEF Idle
  <2>2. CASE next # "end"
        BY <2>2, <1>3, GoKeeps
  <2> QED BY <2>1, <2>2
<1> QED BY <1>1, <1>2, <1>4

(* Every step keeps the types. *)
LEMMA NextTypeOK == IInv /\ Next => TypeOK'
<1> SUFFICES ASSUME IInv, Next PROVE TypeOK'
    OBVIOUS
<1> USE TaskFacts, BoundsAreNumbers DEF IInv, TypeOK, conversation, service, Mine
<1>1. CASE CustomerWrites
      BY <1>1 DEF CustomerWrites
<1>2. CASE Ingress
      BY <1>2, CancelTyped DEF Ingress
<1>3. CASE EndWithoutReply
      BY <1>3, CancelTyped DEF EndWithoutReply
<1>4. CASE Scan
      BY <1>4 DEF Scan, Evaluations, Asleep
<1>5. CASE Refresh
      BY <1>5 DEF Refresh, Evaluations, Asleep
<1>6. CASE Generate
  <2>1. [status |-> "draft", seen |-> monitor.seen, doneAt |-> 0] \in Rows
        BY DEF Rows, PlanStatuses, Evaluations
  <2>2. plan' \in [Plans -> Rows]
        BY <1>6, <2>1 DEF Generate
  <2>3. task' \in [Tasks -> TaskStatuses]
        BY <1>6 DEF Generate, TaskStatuses
  <2>4. monitor' \in Evaluations
        BY <1>6 DEF Generate, Evaluations, Asleep
  <2> QED BY <1>6, <2>2, <2>3, <2>4 DEF Generate
<1>7. CASE Approve
  <2>1. monitor.plan \in Plans /\ SetPlan(monitor.plan, "active") => plan' \in [Plans -> Rows]
        BY SetPlanTyped DEF PlanStatuses
  <2>2. monitor.plan \notin Plans /\ SetPlan(monitor.plan, "active") => plan' = plan
        BY DEF SetPlan
  <2> QED BY <1>7, <2>1, <2>2 DEF Approve, Fault, NoFault, Evaluations, Asleep
<1>8. CASE List
      BY <1>8 DEF List, Executions, Executing
<1>9. CASE Claim
      BY <1>9, Busy, GoTyped DEF Claim, Executing, TaskStatuses, Idle
<1>10. CASE Check
  <2>1. task' \in [Tasks -> TaskStatuses]
        BY <1>10 DEF Check, GiveUp, TaskStatuses
  <2>2. executor' \in Executions \cup {Idle}
        BY <1>10, Busy, GoTyped DEF Check, GiveUp, Executing, Settling
  <2> QED BY <1>10, <2>1, <2>2 DEF Check, Fault, NoFault
<1>11. CASE Prepare
      BY <1>11, Busy, GoTyped DEF Prepare, GiveUp, Executing, TaskStatuses, Idle, Settling
<1>12. CASE Submit
      BY <1>12, Busy, GoTyped DEF Submit, Executing, TaskStatuses, Submissions, Idle
<1>13. CASE Arrive
  <2>1. Append(posts[Mine], said) \in Seq(0 .. MaxReplies)
        BY <1>13, Busy DEF Arrive
  <2> QED BY <1>13, <2>1, Busy, GoTyped DEF Arrive, Executing, Idle
<1>14. CASE Fail
      BY <1>14, Busy, GoTyped DEF Fail, Fault, Executing, TaskStatuses, Submissions, Settling, Idle
<1>15. CASE Finalize
      BY <1>15, Busy, GoTyped DEF Finalize, Executing, TaskStatuses, Settling, Idle
<1>16. CASE SettleExecuted
  <2> PICK next \in Settling \cup {"end"} :
              /\ Settle(Mine, executor.pc, next)
              /\ IF next = "end" THEN executor' = Idle ELSE Go(next)
      BY <1>16 DEF SettleExecuted
  <2>1. executor \in Executions
        BY DEF Settle, Idle
  <2>2. Mine \in Tasks
        BY <2>1 DEF Executions
  <2>3. plan' \in [Plans -> Rows] /\ task' \in [Tasks -> TaskStatuses]
        BY <2>2, SettleTyped
  <2>4. executor' \in Executions \cup {Idle}
        BY <2>1, GoTyped DEF Executing
  <2> QED BY <1>16, <2>3, <2>4 DEF SettleExecuted
<1>17. ASSUME NEW x \in Tasks, Receipt(x) PROVE TypeOK'
      BY <1>17 DEF Receipt, Submissions
<1>18. ASSUME NEW x \in Tasks, FinalizeReceipt(x) PROVE TypeOK'
      BY <1>18 DEF FinalizeReceipt, TaskStatuses, Finalizations, Settling
<1>19. ASSUME NEW x \in Tasks, SettleReceipt(x) PROVE TypeOK'
      BY <1>19, SettleTyped DEF SettleReceipt, Finalizations
<1>20. ASSUME NEW x \in Tasks, MarkFinalized(x) PROVE TypeOK'
      BY <1>20 DEF MarkFinalized, Finalizations
<1>21. CASE WorkerCrash
  <2> Mine \in Tasks => Mine[1] \in Plans
      BY TaskFacts
  <2> executor = Idle => Mine[1] = 0
      BY DEF Idle
  <2> QED BY <1>21 DEF WorkerCrash, Fault, Evaluations, Asleep, Executions
<1>22. CASE CallbackCrash
      BY <1>22 DEF CallbackCrash, Fault, Finalizations
<1> QED BY <1>1, <1>2, <1>3, <1>4, <1>5, <1>6, <1>7, <1>8, <1>9, <1>10, <1>11, <1>12, <1>13, <1>14, <1>15, <1>16, <1>17, <1>18, <1>19, <1>20, <1>21, <1>22
        DEF Next, Conversing, Monitoring, Execute, Finalizing

(* Every step keeps who has a message, and how many. *)
LEMMA NextHeld == IInv /\ Next => PostedOnce' /\ Held'
<1> SUFFICES ASSUME IInv, Next PROVE PostedOnce' /\ Held'
    OBVIOUS
<1> USE TaskFacts DEF IInv, TypeOK, PostedOnce, Held, Executed, conversation, service, Mine, Idle
<1>1. CASE CustomerWrites
      BY <1>1 DEF CustomerWrites
<1>2. CASE Ingress
      BY <1>2, Busy, CancelKeeps DEF Ingress, Unsent
<1>3. CASE EndWithoutReply
      BY <1>3, Busy, CancelKeeps DEF EndWithoutReply, Unsent
<1>4. CASE Scan
      BY <1>4 DEF Scan
<1>5. CASE Refresh
      BY <1>5 DEF Refresh
<1>6. CASE Generate
  <2>1. CASE plan' = plan /\ task' = task
        BY <1>6, <2>1 DEF Generate
  <2>2. CASE ~(plan' = plan /\ task' = task)
    <3>1. PICK p \in Plans :
             /\ plan[p].status = "none" /\ plan'[p].status = "draft"
             /\ \A q \in Plans \ {p} : plan'[q] = plan[q]
             /\ \A x \in Tasks : task'[x] = (IF x[1] = p THEN "pending" ELSE task[x])
          BY <1>6, <2>2, GenerateMakes
    <3>2. UNCHANGED <<executor, dispatch, posts, receipts>>
          BY <1>6 DEF Generate
    <3>3. Held'
          BY <3>1, <3>2, Busy
    <3> QED BY <3>2, <3>3
  <2> QED BY <2>1, <2>2
<1>7. CASE Approve
      BY <1>7, Busy, SetPlanKeeps DEF Approve
<1>8. CASE List
      BY <1>8 DEF List, Due
<1>9. CASE Claim
      BY <1>9, Busy, GoKeeps DEF Claim
<1>10. CASE Check
      BY <1>10, Busy, GoKeeps DEF Check, GiveUp
<1>11. CASE Prepare
      BY <1>11, Busy, GoKeeps DEF Prepare, GiveUp
<1>12. CASE Submit
      BY <1>12, Busy, GoKeeps DEF Submit, Confirmed
<1>13. CASE Arrive
      BY <1>13, Busy, GoKeeps DEF Arrive
<1>14. CASE Fail
      BY <1>14, Busy, GoKeeps DEF Fail, Confirmed
<1>15. CASE Finalize
      BY <1>15, Busy, GoKeeps DEF Finalize
<1>16. CASE SettleExecuted
      BY <1>16, SettleExecutedKeeps, Busy DEF SettleExecuted, Settling, Unsent
<1>17. ASSUME NEW x \in Tasks, Receipt(x) PROVE PostedOnce' /\ Held'
      BY <1>17 DEF Receipt, Confirmed
<1>18. ASSUME NEW x \in Tasks, FinalizeReceipt(x) PROVE PostedOnce' /\ Held'
      BY <1>18 DEF FinalizeReceipt
<1>19. ASSUME NEW x \in Tasks, SettleReceipt(x) PROVE PostedOnce' /\ Held'
  <2>1. /\ \A q \in Plans : plan'[q].status = "none" => plan[q].status = "none"
        /\ \A y \in Tasks : task'[y] = task[y] \/ (task[y] \in Unsent /\ task'[y] = "skipped")
        BY <1>19, SettleKeeps DEF SettleReceipt
  <2>2. UNCHANGED <<receipts, executor, dispatch, posts>>
        BY <1>19 DEF SettleReceipt
  <2> QED BY <2>1, <2>2, Busy DEF Unsent
<1>20. ASSUME NEW x \in Tasks, MarkFinalized(x) PROVE PostedOnce' /\ Held'
      BY <1>20 DEF MarkFinalized
<1>21. CASE WorkerCrash
      BY <1>21 DEF WorkerCrash, Fault
<1>22. CASE CallbackCrash
      BY <1>22 DEF CallbackCrash, Fault
<1> QED BY <1>1, <1>2, <1>3, <1>4, <1>5, <1>6, <1>7, <1>8, <1>9, <1>10, <1>11, <1>12, <1>13, <1>14, <1>15, <1>16, <1>17, <1>18, <1>19, <1>20, <1>21, <1>22
        DEF Next, Conversing, Monitoring, Execute, Finalizing

(* Every step keeps what the executor relies on. *)
LEMMA NextExecuted == IInv /\ Next => Executed'
<1> SUFFICES ASSUME IInv, Next PROVE Executed'
    OBVIOUS
<1> USE TaskFacts DEF IInv, TypeOK, Held, Executed, conversation, service, Mine, Idle
<1>1. CASE CustomerWrites
      BY <1>1 DEF CustomerWrites
<1>2. CASE Ingress
      BY <1>2, Busy, CancelKeeps DEF Ingress, Unsent
<1>3. CASE EndWithoutReply
      BY <1>3, Busy, CancelKeeps DEF EndWithoutReply, Unsent
<1>4. CASE Scan
      BY <1>4 DEF Scan
<1>5. CASE Refresh
      BY <1>5 DEF Refresh
<1>6. CASE Generate
  <2>1. CASE plan' = plan /\ task' = task
        BY <1>6, <2>1 DEF Generate
  <2>2. CASE ~(plan' = plan /\ task' = task)
    <3>1. PICK p \in Plans :
             /\ plan[p].status = "none" /\ plan'[p].status = "draft"
             /\ \A q \in Plans \ {p} : plan'[q] = plan[q]
             /\ \A x \in Tasks : task'[x] = (IF x[1] = p THEN "pending" ELSE task[x])
          BY <1>6, <2>2, GenerateMakes
    <3> QED BY <1>6, <3>1, Busy DEF Generate
  <2> QED BY <2>1, <2>2
<1>7. CASE Approve
      BY <1>7, Busy, SetPlanKeeps DEF Approve
<1>8. CASE List
      BY <1>8 DEF List, Due
<1>9. CASE Claim
      BY <1>9, Busy, GoKeeps DEF Claim
<1>10. CASE Check
      BY <1>10, Busy, GoKeeps DEF Check, GiveUp
<1>11. CASE Prepare
      BY <1>11, Busy, GoKeeps DEF Prepare, GiveUp
<1>12. CASE Submit
      BY <1>12, Busy, GoKeeps DEF Submit, Confirmed
<1>13. CASE Arrive
  <2>1. executor \in Executions /\ Mine \in Tasks /\ posts[Mine] = <<>>
        BY <1>13, Busy DEF Arrive
  <2>2. posts'[Mine] = Append(<<>>, said)
        BY <1>13, <2>1 DEF Arrive
  <2>3. executor'.pc = "posted" /\ executor'.task = executor.task
        BY <1>13, <2>1, GoKeeps DEF Arrive
  <2> QED BY <1>13, <2>1, <2>2, <2>3 DEF Arrive
<1>14. CASE Fail
      BY <1>14, Busy, GoKeeps DEF Fail, Confirmed
<1>15. CASE Finalize
      BY <1>15, Busy, GoKeeps DEF Finalize
<1>16. CASE SettleExecuted
      BY <1>16, SettleExecutedKeeps, Busy DEF SettleExecuted, Settling, Unsent
<1>17. ASSUME NEW x \in Tasks, Receipt(x) PROVE Executed'
      BY <1>17 DEF Receipt, Confirmed
<1>18. ASSUME NEW x \in Tasks, FinalizeReceipt(x) PROVE Executed'
      BY <1>18 DEF FinalizeReceipt
<1>19. ASSUME NEW x \in Tasks, SettleReceipt(x) PROVE Executed'
      BY <1>19, Busy, SettleKeeps DEF SettleReceipt, Unsent
<1>20. ASSUME NEW x \in Tasks, MarkFinalized(x) PROVE Executed'
      BY <1>20 DEF MarkFinalized
<1>21. CASE WorkerCrash
      BY <1>21 DEF WorkerCrash, Fault
<1>22. CASE CallbackCrash
      BY <1>22 DEF CallbackCrash, Fault
<1> QED BY <1>1, <1>2, <1>3, <1>4, <1>5, <1>6, <1>7, <1>8, <1>9, <1>10, <1>11, <1>12, <1>13, <1>14, <1>15, <1>16, <1>17, <1>18, <1>19, <1>20, <1>21, <1>22
        DEF Next, Conversing, Monitoring, Execute, Finalizing

(* Every step keeps that the steps before the executed one were sent. *)
LEMMA NextPreceded == IInv /\ Next => Preceded'
<1> SUFFICES ASSUME IInv, Next PROVE Preceded'
    OBVIOUS
<1> USE TaskFacts DEF IInv, TypeOK, Held, Executed, Preceded, conversation, service, Mine, Idle
<1>1. CASE CustomerWrites
      BY <1>1 DEF CustomerWrites
<1>2. CASE Ingress
      BY <1>2, Busy, CancelKeeps DEF Ingress, Unsent
<1>3. CASE EndWithoutReply
      BY <1>3, Busy, CancelKeeps DEF EndWithoutReply, Unsent
<1>4. CASE Scan
      BY <1>4 DEF Scan
<1>5. CASE Refresh
      BY <1>5 DEF Refresh
<1>6. CASE Generate
  <2>1. CASE plan' = plan /\ task' = task
        BY <1>6, <2>1 DEF Generate
  <2>2. CASE ~(plan' = plan /\ task' = task)
    <3>1. PICK p \in Plans :
             /\ plan[p].status = "none" /\ plan'[p].status = "draft"
             /\ \A q \in Plans \ {p} : plan'[q] = plan[q]
             /\ \A x \in Tasks : task'[x] = (IF x[1] = p THEN "pending" ELSE task[x])
          BY <1>6, <2>2, GenerateMakes
    <3> QED BY <1>6, <3>1, Busy DEF Generate
  <2> QED BY <2>1, <2>2
<1>7. CASE Approve
      BY <1>7, Busy, SetPlanKeeps DEF Approve
<1>8. CASE List
      BY <1>8 DEF List, Due
<1>9. CASE Claim
      BY <1>9, Busy, GoKeeps DEF Claim
<1>10. CASE Check
      BY <1>10, Busy, GoKeeps DEF Check, GiveUp
<1>11. CASE Prepare
      BY <1>11, Busy, GoKeeps DEF Prepare, GiveUp
<1>12. CASE Submit
      BY <1>12, Busy, GoKeeps DEF Submit, Confirmed
<1>13. CASE Arrive
  <2>1. executor'.pc = "posted"
        BY <1>13, Busy, GoKeeps DEF Arrive
  <2> QED BY <2>1
<1>14. CASE Fail
      BY <1>14, Busy, GoKeeps DEF Fail, Confirmed
<1>15. CASE Finalize
      BY <1>15, Busy, GoKeeps DEF Finalize
<1>16. CASE SettleExecuted
      BY <1>16, SettleExecutedKeeps, Busy DEF SettleExecuted, Settling, Unsent
<1>17. ASSUME NEW x \in Tasks, Receipt(x) PROVE Preceded'
      BY <1>17 DEF Receipt, Confirmed
<1>18. ASSUME NEW x \in Tasks, FinalizeReceipt(x) PROVE Preceded'
      BY <1>18 DEF FinalizeReceipt
<1>19. ASSUME NEW x \in Tasks, SettleReceipt(x) PROVE Preceded'
      BY <1>19, Busy, SettleKeeps DEF SettleReceipt, Unsent
<1>20. ASSUME NEW x \in Tasks, MarkFinalized(x) PROVE Preceded'
      BY <1>20 DEF MarkFinalized
<1>21. CASE WorkerCrash
      BY <1>21 DEF WorkerCrash, Fault
<1>22. CASE CallbackCrash
      BY <1>22 DEF CallbackCrash, Fault
<1> QED BY <1>1, <1>2, <1>3, <1>4, <1>5, <1>6, <1>7, <1>8, <1>9, <1>10, <1>11, <1>12, <1>13, <1>14, <1>15, <1>16, <1>17, <1>18, <1>19, <1>20, <1>21, <1>22
        DEF Next, Conversing, Monitoring, Execute, Finalizing

(* Every step keeps that one message at most follows the customer. *)
LEMMA NextChecked == IInv /\ Next => Checked'
<1> SUFFICES ASSUME IInv, Next PROVE Checked'
    OBVIOUS
<1> USE TaskFacts, BoundsAreNumbers DEF IInv, TypeOK, conversation, service, Mine, Idle, Asleep
<1>1. CASE CustomerWrites
      BY <1>1, CheckedKept DEF CustomerWrites
<1>2. CASE Ingress
      BY <1>2, CancelKeeps, CheckedKept DEF Ingress
<1>3. CASE EndWithoutReply
      BY <1>3, CancelKeeps, CheckedKept DEF EndWithoutReply
<1>4. CASE Scan
      BY <1>4, CheckedKept DEF Scan
<1>5. CASE Refresh
      BY <1>5, CheckedKept DEF Refresh
<1>6. CASE Generate
  <2>1. ASSUME NEW x \in Tasks
        PROVE  plan'[x[1]] = plan[x[1]] \/ posts[x] = <<>>
        BY <1>6, GenerateMakes DEF Held
  <2>2. posts' = posts /\ said' = said /\ executor' = executor
        BY <1>6 DEF Generate
  <2>3. \A x \in Tasks : After(x)' => After(x)
        BY <2>1, <2>2 DEF After
  <2> QED BY <2>2, <2>3 DEF Checked, Of
<1>7. CASE Approve
  <2>1. \A q \in Plans : plan'[q].seen = plan[q].seen
        BY <1>7, SetPlanKeeps DEF Approve
  <2> QED BY <1>7, <2>1, CheckedKept DEF Approve
<1>8. CASE List
      BY <1>8, CheckedKept DEF List, Due
<1>9. CASE Claim
      BY <1>9, Busy, GoKeeps, CheckedKept DEF Claim
<1>10. CASE Check
  <2>1. CASE executor'.pc # "prepare"
        BY <1>10, <2>1, Busy, GoKeeps, CheckedKept DEF Check, GiveUp
  <2>2. CASE executor'.pc = "prepare"
    <3>1. said <= plan[Mine[1]].seen /\ executor'.task = executor.task /\ plan' = plan /\ posts' = posts
          BY <1>10, <2>2, Busy, GoKeeps DEF Check, GiveUp, Replied, Rows
    <3>2. \A y \in Of(Mine[1]) : ~After(y)
          BY <3>1 DEF After, Checked, Of, Rows
    <3> QED BY <1>10, <3>1, <3>2 DEF Check, After, Checked
  <2> QED BY <2>1, <2>2
<1>11. CASE Prepare
      BY <1>11, Busy, GoKeeps, CheckedKept DEF Prepare, GiveUp
<1>12. CASE Submit
      BY <1>12, Busy, GoKeeps, CheckedKept DEF Submit
<1>13. CASE Arrive
  <2>0. Mine \in Tasks /\ posts[Mine] = <<>>
        BY <1>13, Busy DEF Arrive, Executed
  <2>1. posts'[Mine] = <<said>>
    <3>1. posts'[Mine] = Append(posts[Mine], said)
          BY <1>13, <2>0 DEF Arrive
    <3>2. Append(<<>>, said) = <<said>>
          OBVIOUS
    <3> QED BY <2>0, <3>1, <3>2
  <2>2. \A y \in Tasks \ {Mine} : posts'[y] = posts[y]
        BY <1>13 DEF Arrive
  <2>3. \A y \in Of(Mine[1]) : ~After(y)
        BY <1>13 DEF Arrive, Checked
  <2>4. \A y \in Tasks \ {Mine} : After(y)' <=> After(y)
        BY <1>13, <2>2 DEF Arrive, After
  <2>5. \A x \in Tasks : \A i \in DOMAIN posts'[x] : posts'[x][i] <= said'
        BY <1>13, <2>0, <2>1, <2>2 DEF Arrive, Checked
  <2>6. \A x, y \in Tasks : x[1] = y[1] /\ After(x)' /\ After(y)' => x = y
        BY <2>3, <2>4 DEF Of, Checked
  <2> QED BY <1>13, <2>5, <2>6, Busy, GoKeeps DEF Arrive, Checked
<1>14. CASE Fail
      BY <1>14, Busy, GoKeeps, CheckedKept DEF Fail
<1>15. CASE Finalize
      BY <1>15, Busy, GoKeeps, CheckedKept DEF Finalize
<1>16. CASE SettleExecuted
      BY <1>16, SettleExecutedKeeps, CheckedKept DEF SettleExecuted, Settling, Unsent
<1>17. ASSUME NEW x \in Tasks, Receipt(x) PROVE Checked'
      BY <1>17, CheckedKept DEF Receipt
<1>18. ASSUME NEW x \in Tasks, FinalizeReceipt(x) PROVE Checked'
      BY <1>18, CheckedKept DEF FinalizeReceipt
<1>19. ASSUME NEW x \in Tasks, SettleReceipt(x) PROVE Checked'
      BY <1>19, SettleKeeps, CheckedKept DEF SettleReceipt
<1>20. ASSUME NEW x \in Tasks, MarkFinalized(x) PROVE Checked'
      BY <1>20, CheckedKept DEF MarkFinalized
<1>21. CASE WorkerCrash
      BY <1>21, CheckedKept DEF WorkerCrash, Fault
<1>22. CASE CallbackCrash
      BY <1>22, CheckedKept DEF CallbackCrash, Fault
<1> QED BY <1>1, <1>2, <1>3, <1>4, <1>5, <1>6, <1>7, <1>8, <1>9, <1>10, <1>11, <1>12, <1>13, <1>14, <1>15, <1>16, <1>17, <1>18, <1>19, <1>20, <1>21, <1>22
        DEF Next, Conversing, Monitoring, Execute, Finalizing

(* A step that hands a message over follows those that hand over the steps
   before it. *)
LEMMA NextInOrder ==
    ASSUME IInv, Next, NEW x \in Tasks, Posted(x), NEW y \in Of(x[1]), y[2] < x[2]
    PROVE  posts[y] # <<>> /\ (receipts => dispatch[y] = "succeeded")
<1> USE DEF IInv, TypeOK
<1>1. posts' # posts
      BY DEF Posted
<1>2. Arrive
      BY <1>1
         DEF Next, Conversing, Monitoring, Execute, Finalizing, CustomerWrites, Ingress,
             EndWithoutReply, Scan, Refresh, Generate, Approve, List, Claim, Check, Prepare, Submit,
             Fail, Finalize, SettleExecuted, Receipt, FinalizeReceipt, SettleReceipt,
             MarkFinalized, WorkerCrash, CallbackCrash, conversation, service
<1>3. x = Mine
      BY <1>2 DEF Arrive, Posted
<1> QED BY <1>2, <1>3 DEF Arrive, Preceded

-----------------------------------------------------------------------------
(* The invariant holds of every behaviour. *)
THEOREM Invariance == Spec => []IInv
<1>1. IInv /\ [Next]_vars => IInv'
  <2>1. IInv /\ UNCHANGED vars => IInv'
        BY DEF IInv, TypeOK, PostedOnce, Held, Executed, Preceded, Checked, After, Mine, vars,
               conversation, service
  <2>2. IInv /\ Next => IInv'
        BY NextTypeOK, NextHeld, NextExecuted, NextPreceded, NextChecked DEF IInv
  <2> QED BY <2>1, <2>2
<1> QED BY InitIInv, <1>1, PTL DEF Spec

(* The rows, the receipts and the three threads keep to their types: no pass
   of the executor works on a task that does not exist. *)
THEOREM TypeCorrect == Spec => []TypeOK
<1>1. IInv => TypeOK
      BY DEF IInv
<1> QED BY <1>1, Invariance, PTL

(* No step of a plan is handed to the messaging service twice
   (execution.py, _execute_claimed_task and _submit_delivery): only a task that
   waits is claimed, and no task that has a message waits again. *)
THEOREM SentAtMostOnce == Spec => []PostedOnce
<1>1. IInv => PostedOnce
      BY DEF IInv
<1> QED BY <1>1, Invariance, PTL

(* The steps of a plan are sent in their order, each after those before it
   were confirmed (list_due_first_day_tasks), although the status that was
   read when the task was listed may be stale when it is sent. *)
THEOREM SentInOrder == Spec => InOrder
<1>1. IInv /\ [Next]_vars =>
         [\A x \in Tasks : Posted(x) =>
             \A y \in Of(x[1]) : y[2] < x[2] =>
                posts[y] # <<>> /\ (receipts => dispatch[y] = "succeeded")]_vars
      BY NextInOrder
<1> QED BY <1>1, Invariance, PTL DEF Spec, InOrder

(* After the customer has written again at most one message of the plan
   reaches them (execution.py, _check_send_eligibility), whatever the rows of the
   plan and its tasks say by then. *)
THEOREM OneMessageAfterReply == Spec => []OneAfterReply
<1>1. IInv => OneAfterReply
  <2> SUFFICES ASSUME IInv, NEW p \in Plans
               PROVE  Cardinality({x \in Of(p) : \E i \in DOMAIN posts[x] : posts[x][i] > plan[p].seen}) <= 1
      BY DEF OneAfterReply
  <2> DEFINE S == {x \in Of(p) : \E i \in DOMAIN posts[x] : posts[x][i] > plan[p].seen}
  <2>1. \A x, y \in S : x = y
        BY DEF IInv, Checked, After, Of
  <2>2. CASE S = {}
        BY <2>2, FS_EmptySet
  <2>3. CASE S # {}
    <3>1. PICK x : S = {x}
          BY <2>1, <2>3
    <3>2. Cardinality({x}) = 1
          BY FS_Singleton
    <3> QED BY <3>1, <3>2
  <2> QED BY <2>2, <2>3
<1> QED BY <1>1, Invariance, PTL

-----------------------------------------------------------------------------
(* No plan stands still. *)

\* The steps of a plan are there once it is made.
Made ==
    /\ \A x \in Tasks : plan[x[1]].status = "none" <=> task[x] = "none"
    /\ monitor.pc = "approve" =>
          monitor.plan \in Plans /\ plan[monitor.plan].status # "none"
    /\ \A x \in Tasks : finalizer[x] \in Settling => task[x] # "none"

Begun == {"checking", "sending", "sent", "failed"}

\* The executor is at work on its step, which is not settled.
AtWork == executor.pc \in {"listed", "check", "prepare", "send", "posting", "posted"}

\* Only receipts confirm.  A step is begun when all before it were sent, and they
\* stay so; none after it has begun while the executor is at work on it.
Ordered ==
    /\ \A x \in Tasks : dispatch[x] \in Confirmed => receipts
    /\ \A x, y \in Tasks : x[1] = y[1] /\ x[2] < y[2] /\ task[y] \in Begun => task[x] = "sent"
    /\ AtWork => \A x \in Tasks : x[1] = Mine[1] =>
          /\ x[2] < Mine[2] => task[x] = "sent"
          /\ x[2] > Mine[2] => task[x] \notin Begun

\* Whose claim stands, and that a task that is settled is not left to be sent.
Claimed ==
    /\ \A x \in Tasks : task[x] = "checking" =>
          x[1] \in interrupted \/ (executor.pc \in {"check", "prepare", "send"} /\ Mine = x)
    /\ executor.pc = "rest" => task[Mine] \notin Unsent

NoneLeft(p) == \A x \in Tasks : x[1] = p => task[x] \notin Unsent

\* The steps of a plan one of whose steps failed are skipped, or will be.
Dropped ==
    \A y \in Tasks : task[y] = "failed" =>
        \/ y[1] \in interrupted
        \/ executor.pc = "rest" /\ Mine[1] = y[1]
        \/ dispatch[y] \in Confirmed /\ finalizer[y] \in {"none", "rest"}
        \/ NoneLeft(y[1])

SInv == IInv /\ Made /\ Ordered /\ Claimed /\ Dropped

(* A set of steps has a first one. *)
LEMMA FirstStep ==
    ASSUME NEW S \in SUBSET Nat, S # {}
    PROVE  \E n \in S : \A m \in S : n <= m
<1> DEFINE R == {e \in Nat \X Nat : e[1] < e[2]}
<1>1. IsWellFoundedOn(R, Nat)
      BY NatLessThanWellFounded DEF OpToRel
<1>2. \A m, n \in Nat : m < n => <<m, n>> \in R
      OBVIOUS
<1> HIDE DEF R
<1>3. PICK n \in S : \A m \in S : <<m, n>> \notin R
      BY <1>1, WFMin
<1>4. ASSUME NEW m \in S PROVE n <= m
  <2>1. m \in Nat /\ n \in Nat
        OBVIOUS
  <2>2. m < n => <<m, n>> \in R
        BY <1>2, <2>1
  <2>3. ~(m < n)
        BY <1>3, <2>2
  <2> QED BY <2>1, <2>3
<1> QED BY <1>4

(* Whoever has a message has begun. *)
LEMMA PostedHasBegun ==
    ASSUME TypeOK, Held, NEW x \in Tasks, posts[x] # <<>>
    PROVE  task[x] \in {"sending", "sent", "failed"}
  BY DEF TypeOK, Held, TaskStatuses

(* The task of a step in progress is written, and no other. *)
LEMMA MineOnly ==
    ASSUME TypeOK, NEW status,
           executor.pc # "idle", task' = [task EXCEPT ![Mine] = status]
    PROVE  /\ Mine \in Tasks
           /\ task'[Mine] = status
           /\ \A x \in Tasks : x # Mine => task'[x] = task[x]
  BY Busy DEF TypeOK

(* What is written to the plans makes none and unmakes none. *)
LEMMA SetPlanMakesNone ==
    ASSUME plan \in [Plans -> Rows], NEW p, NEW status, status # "none", SetPlan(p, status),
           p \in Plans => plan[p].status # "none",
           NEW q \in Plans
    PROVE  plan'[q].status = "none" <=> plan[q].status = "none"
  BY DEF SetPlan, Rows

LEMMA CancelMakesNone ==
    ASSUME plan \in [Plans -> Rows], task \in [Tasks -> TaskStatuses], CancelForReply
    PROVE  /\ \A q \in Plans : plan'[q].status = "none" <=> plan[q].status = "none"
           /\ \A x \in Tasks : task'[x] = "none" <=> task[x] = "none"
<1>1. ASSUME NEW q \in Plans
      PROVE  plan'[q].status = "none" <=> plan[q].status = "none"
  <2>1. plan[q] \in Rows
        OBVIOUS
  <2>2. CASE plan[q].status \in Open
    <3>1. plan'[q] = [plan[q] EXCEPT !.status = "cancelled"]
          BY <2>2 DEF CancelForReply
    <3>2. plan'[q].status = "cancelled"
          BY <2>1, <3>1 DEF Rows
    <3> QED BY <2>2, <3>2 DEF Open
  <2>3. CASE plan[q].status \notin Open
        BY <2>3 DEF CancelForReply
  <2> QED BY <2>2, <2>3
<1>2. \A x \in Tasks : task'[x] = "none" <=> task[x] = "none"
      BY CancelKeeps DEF Unsent
<1> QED BY <1>1, <1>2

LEMMA SettleMakesNone ==
    ASSUME plan \in [Plans -> Rows], task \in [Tasks -> TaskStatuses],
           NEW x \in Tasks, NEW pc, NEW next, Settle(x, pc, next),
           plan[x[1]].status # "none"
    PROVE  /\ \A q \in Plans : plan'[q].status = "none" <=> plan[q].status = "none"
           /\ \A y \in Tasks : task'[y] = "none" <=> task[y] = "none"
<1>1. CASE pc \in {"count", "rest"}
      BY <1>1 DEF Settle, SkipRemaining, Unsent
<1>2. CASE pc \in {"more", "last", "cancel"}
  <2>1. PICK status : status # "none" /\ SetPlan(x[1], status)
        BY <1>2 DEF Settle
  <2>2. task' = task
        BY <1>2 DEF Settle
  <2> QED BY <2>1, <2>2, SetPlanMakesNone
<1> QED BY <1>1, <1>2 DEF Settle

(* Every step keeps that a made plan has its steps. *)
LEMMA NextMade == IInv /\ Made /\ Next => Made'
<1> SUFFICES ASSUME IInv, Made, Next PROVE Made'
    OBVIOUS
<1> USE TaskFacts DEF IInv, TypeOK, Made, conversation, service
<1>1. CASE CustomerWrites
      BY <1>1 DEF CustomerWrites
<1>2. CASE Ingress
      BY <1>2, CancelMakesNone DEF Ingress
<1>3. CASE EndWithoutReply
      BY <1>3, CancelMakesNone DEF EndWithoutReply
<1>4. CASE Scan
      BY <1>4 DEF Scan
<1>5. CASE Refresh
      BY <1>5 DEF Refresh, Asleep
<1>6. CASE Generate
  <2>1. UNCHANGED finalizer
        BY <1>6 DEF Generate
  <2>2. CASE UNCHANGED <<plan, task>>
        BY <1>6, <2>1, <2>2 DEF Generate, Asleep
  <2>3. CASE ~UNCHANGED <<plan, task>>
    <3>1. PICK p \in Plans :
             /\ plan' = [plan EXCEPT ![p] = [status |-> "draft", seen |-> monitor.seen, doneAt |-> 0]]
             /\ task' = [x \in Tasks |-> IF x \in Of(p) THEN "pending" ELSE task[x]]
             /\ monitor' = [pc |-> "approve", plan |-> p, seen |-> 0]
          BY <1>6, <2>3 DEF Generate
    <3>2. plan'[p].status = "draft" /\ \A q \in Plans \ {p} : plan'[q] = plan[q]
          BY <3>1
    <3>3. \A x \in Tasks : task'[x] = (IF x[1] = p THEN "pending" ELSE task[x])
          BY <3>1 DEF Of
    <3>4. monitor'.plan = p
          BY <3>1
    <3>5. \A x \in Tasks : plan'[x[1]].status = "none" <=> task'[x] = "none"
          BY <3>2, <3>3
    <3>6. \A x \in Tasks : finalizer'[x] \in Settling => task'[x] # "none"
          BY <2>1, <3>3
    <3> QED BY <3>2, <3>4, <3>5, <3>6
  <2> QED BY <2>2, <2>3
<1>7. CASE Approve
  <2>1. monitor.plan \in Plans /\ plan[monitor.plan].status # "none"
        BY <1>7 DEF Approve
  <2>2. \A q \in Plans : plan'[q].status = "none" <=> plan[q].status = "none"
        BY <1>7, <2>1, SetPlanMakesNone DEF Approve
  <2> QED BY <1>7, <2>2 DEF Approve, Asleep
<1>8. CASE List
      BY <1>8 DEF List
<1>9. CASE Claim
      BY <1>9 DEF Claim
<1>10. CASE Check
      BY <1>10, MineOnly DEF Check, GiveUp, Executed
<1>11. CASE Prepare
      BY <1>11, MineOnly DEF Prepare, GiveUp, Executed
<1>12. CASE Submit
      BY <1>12, MineOnly DEF Submit, Executed
<1>13. CASE Arrive
      BY <1>13 DEF Arrive
<1>14. CASE Fail
      BY <1>14, MineOnly DEF Fail, Executed
<1>15. CASE Finalize
      BY <1>15, MineOnly DEF Finalize, Executed
<1>16. CASE SettleExecuted
  <2>1. PICK next : Settle(Mine, executor.pc, next)
        BY <1>16 DEF SettleExecuted
  <2>2. Mine \in Tasks /\ plan[Mine[1]].status # "none"
        BY <2>1, Busy DEF Settle, Executed
  <2> QED BY <1>16, <2>1, <2>2, SettleMakesNone DEF SettleExecuted
<1>17. ASSUME NEW x \in Tasks, Receipt(x) PROVE Made'
      BY <1>17 DEF Receipt
<1>18. ASSUME NEW x \in Tasks, FinalizeReceipt(x) PROVE Made'
  <2>1. task[x] # "none" /\ task'[x] # "none"
        BY <1>18, PostedHasBegun DEF FinalizeReceipt, Held
  <2>2. \A y \in Tasks : y # x => task'[y] = task[y] /\ finalizer'[y] = finalizer[y]
        BY <1>18 DEF FinalizeReceipt
  <2> QED BY <1>18, <2>1, <2>2 DEF FinalizeReceipt
<1>19. ASSUME NEW x \in Tasks, SettleReceipt(x) PROVE Made'
  <2>1. PICK next \in Settling \cup {"end"} :
           /\ Settle(x, finalizer[x], next)
           /\ finalizer' = [finalizer EXCEPT ![x] = IF next = "end" THEN "written" ELSE next]
        BY <1>19 DEF SettleReceipt
  <2>2. finalizer[x] \in Settling
        BY <2>1 DEF Settle, Settling
  <2>3. task[x] # "none" /\ plan[x[1]].status # "none"
        BY <2>2
  <2> QED BY <1>19, <2>1, <2>3, SettleMakesNone DEF SettleReceipt
<1>20. ASSUME NEW x \in Tasks, MarkFinalized(x) PROVE Made'
      BY <1>20 DEF MarkFinalized, Settling
<1>21. CASE WorkerCrash
      BY <1>21 DEF WorkerCrash, Asleep
<1>22. CASE CallbackCrash
      BY <1>22 DEF CallbackCrash, Settling
<1> QED BY <1>1, <1>2, <1>3, <1>4, <1>5, <1>6, <1>7, <1>8, <1>9, <1>10, <1>11, <1>12, <1>13, <1>14, <1>15, <1>16, <1>17, <1>18, <1>19, <1>20, <1>21, <1>22
        DEF Next, Conversing, Monitoring, Execute, Finalizing

(* A step that begins none: tasks stay or are skipped, the executor stays
   where it was, goes on with its step, or leaves off. *)
LEMMA OrderedKept ==
    ASSUME TypeOK, Ordered,
           \A x \in Tasks : dispatch'[x] \in Confirmed => receipts',
           \A x \in Tasks : task'[x] = task[x] \/ (task[x] \in Unsent /\ task'[x] \notin Begun),
           AtWork' => AtWork /\ executor'.task = executor.task
    PROVE  Ordered'
  BY DEF Ordered, Unsent, Mine, Begun

(* A step of the executor on its task. *)
LEMMA OrderedByMine ==
    ASSUME TypeOK, Ordered, receipts' = receipts,
           \A x \in Tasks : dispatch'[x] \in Confirmed => receipts,
           AtWork, Mine \in Tasks,
           \A x \in Tasks : x # Mine => task'[x] = task[x],
           AtWork' => executor'.task = executor.task
    PROVE  Ordered'
<1> USE TaskFacts DEF Ordered
<1>1. ASSUME NEW x \in Tasks, NEW y \in Tasks, x[1] = y[1], x[2] < y[2], task'[y] \in Begun
      PROVE  task'[x] = "sent"
  <2>1. CASE y = Mine
        BY <1>1, <2>1
  <2>2. CASE x = Mine
        BY <1>1, <2>2
  <2>3. CASE x # Mine /\ y # Mine
        BY <1>1, <2>3
  <2> QED BY <2>1, <2>2, <2>3
<1>2. ASSUME AtWork', NEW x \in Tasks, x[1] = Mine'[1]
      PROVE  /\ x[2] < Mine'[2] => task'[x] = "sent"
             /\ x[2] > Mine'[2] => task'[x] \notin Begun
  <2>1. Mine' = Mine
        BY <1>2 DEF Mine
  <2> QED BY <1>2, <2>1
<1> QED BY <1>1, <1>2

(* Every step keeps that the steps of a plan are begun in their order. *)
LEMMA NextOrdered == IInv /\ Ordered /\ Next => Ordered'
<1> SUFFICES ASSUME IInv, Ordered, Next PROVE Ordered'
    OBVIOUS
<1>0. /\ TypeOK /\ Held /\ Executed
      /\ \A x \in Tasks : dispatch[x] \in Confirmed => receipts
      BY DEF IInv, Ordered
<1>1. CASE CustomerWrites
      BY <1>0, <1>1, OrderedKept DEF CustomerWrites, service, AtWork
<1>2. CASE Ingress
      BY <1>0, <1>2, OrderedKept, CancelKeeps DEF Ingress, service, AtWork, TypeOK, Begun
<1>3. CASE EndWithoutReply
      BY <1>0, <1>3, OrderedKept, CancelKeeps DEF EndWithoutReply, service, AtWork, TypeOK, Begun
<1>4. CASE Scan
      BY <1>0, <1>4, OrderedKept DEF Scan, service, AtWork
<1>5. CASE Refresh
      BY <1>0, <1>5, OrderedKept DEF Refresh, service, AtWork
<1>6. CASE Generate
  <2>1. UNCHANGED <<executor, dispatch, receipts>>
        BY <1>6 DEF Generate, service
  <2>2. CASE plan' = plan /\ task' = task
        BY <1>0, <2>1, <2>2, OrderedKept DEF AtWork
  <2>3. CASE ~(plan' = plan /\ task' = task)
    <3>1. PICK p \in Plans :
             /\ plan[p].status = "none"
             /\ \A x \in Tasks : task'[x] = (IF x[1] = p THEN "pending" ELSE task[x])
          BY <1>0, <1>6, <2>3, GenerateMakes
    <3>2. AtWork => Mine[1] # p
          BY <1>0, <3>1 DEF Executed, AtWork
    <3> QED BY <2>1, <3>1, <3>2 DEF Ordered, AtWork, Mine, Begun
  <2> QED BY <2>2, <2>3
<1>7. CASE Approve
      BY <1>0, <1>7, OrderedKept DEF Approve, service, AtWork
<1>8. CASE List
  <2>1. UNCHANGED <<task, dispatch, receipts>>
        BY <1>8 DEF List, service
  <2>2. PICK x \in Tasks : Due(x) /\ executor' = [pc |-> "listed", task |-> x]
        BY <1>8 DEF List
  <2>3. Mine' = x
        BY <2>2 DEF Mine
  <2>4. ASSUME NEW y \in Tasks, x[1] = y[1]
        PROVE  (y[2] < x[2] => task[y] = "sent") /\ (y[2] > x[2] => task[y] \notin Begun)
    <3>1. task[x] = "pending" /\ (y[2] < x[2] => task[y] = "sent")
          BY <2>2, <2>4 DEF Due, Of
    <3>2. y[2] > x[2] => x[2] < y[2]
          BY TaskFacts
    <3> QED BY <2>4, <3>1, <3>2 DEF Ordered
  <2> QED BY <2>1, <2>3, <2>4 DEF Ordered
<1>9. CASE Claim
  <2>1. AtWork /\ Mine \in Tasks /\ UNCHANGED receipts
        BY <1>0, <1>9, Busy DEF Claim, AtWork, TypeOK
  <2>2. \A x \in Tasks : x # Mine => task'[x] = task[x]
        BY <1>0, <1>9 DEF Claim, TypeOK
  <2>3. \A x \in Tasks : dispatch'[x] \in Confirmed => receipts
        BY <1>0, <1>9 DEF Claim, service, Confirmed, TypeOK
  <2>4. AtWork' => executor'.task = executor.task
        BY <1>0, <1>9, Busy, GoKeeps DEF Claim, AtWork, Idle, TypeOK
  <2> QED BY <1>0, <2>1, <2>2, <2>3, <2>4, OrderedByMine
<1>10. CASE Check
  <2>1. AtWork /\ Mine \in Tasks /\ UNCHANGED receipts
        BY <1>0, <1>10, Busy DEF Check, AtWork, TypeOK
  <2>2. \A x \in Tasks : x # Mine => task'[x] = task[x]
        BY <1>0, <1>10 DEF Check, GiveUp, TypeOK
  <2>3. \A x \in Tasks : dispatch'[x] \in Confirmed => receipts
        BY <1>0, <1>10 DEF Check, service, Confirmed, TypeOK
  <2>4. AtWork' => executor'.task = executor.task
        BY <1>0, <1>10, Busy, GoKeeps DEF Check, AtWork, Idle, TypeOK, GiveUp
  <2> QED BY <1>0, <2>1, <2>2, <2>3, <2>4, OrderedByMine
<1>11. CASE Prepare
  <2>1. AtWork /\ Mine \in Tasks /\ UNCHANGED receipts
        BY <1>0, <1>11, Busy DEF Prepare, AtWork, TypeOK
  <2>2. \A x \in Tasks : x # Mine => task'[x] = task[x]
        BY <1>0, <1>11 DEF Prepare, GiveUp, TypeOK
  <2>3. \A x \in Tasks : dispatch'[x] \in Confirmed => receipts
        BY <1>0, <1>11 DEF Prepare, service, Confirmed, TypeOK
  <2>4. AtWork' => executor'.task = executor.task
        BY <1>0, <1>11, Busy, GoKeeps DEF Prepare, AtWork, Idle, TypeOK, GiveUp
  <2> QED BY <1>0, <2>1, <2>2, <2>3, <2>4, OrderedByMine
<1>12. CASE Submit
  <2>1. AtWork /\ Mine \in Tasks /\ UNCHANGED receipts
        BY <1>0, <1>12, Busy DEF Submit, AtWork, TypeOK
  <2>2. \A x \in Tasks : x # Mine => task'[x] = task[x]
        BY <1>0, <1>12 DEF Submit, TypeOK
  <2>3. \A x \in Tasks : dispatch'[x] \in Confirmed => receipts
        BY <1>0, <1>12 DEF Submit, service, Confirmed, TypeOK
  <2>4. AtWork' => executor'.task = executor.task
        BY <1>0, <1>12, Busy, GoKeeps DEF Submit, AtWork, Idle, TypeOK
  <2> QED BY <1>0, <2>1, <2>2, <2>3, <2>4, OrderedByMine
<1>13. CASE Arrive
  <2>1. AtWork /\ Mine \in Tasks /\ UNCHANGED receipts
        BY <1>0, <1>13, Busy DEF Arrive, AtWork, TypeOK
  <2>2. \A x \in Tasks : x # Mine => task'[x] = task[x]
        BY <1>0, <1>13 DEF Arrive, TypeOK
  <2>3. \A x \in Tasks : dispatch'[x] \in Confirmed => receipts
        BY <1>0, <1>13 DEF Arrive, service, Confirmed, TypeOK
  <2>4. AtWork' => executor'.task = executor.task
        BY <1>0, <1>13, Busy, GoKeeps DEF Arrive, AtWork, Idle, TypeOK
  <2> QED BY <1>0, <2>1, <2>2, <2>3, <2>4, OrderedByMine
<1>14. CASE Fail
  <2>1. AtWork /\ Mine \in Tasks /\ UNCHANGED receipts
        BY <1>0, <1>14, Busy DEF Fail, AtWork, TypeOK
  <2>2. \A x \in Tasks : x # Mine => task'[x] = task[x]
        BY <1>0, <1>14 DEF Fail, TypeOK
  <2>3. \A x \in Tasks : dispatch'[x] \in Confirmed => receipts
        BY <1>0, <1>14 DEF Fail, service, Confirmed, TypeOK
  <2>4. AtWork' => executor'.task = executor.task
        BY <1>0, <1>14, Busy, GoKeeps DEF Fail, AtWork, Idle, TypeOK
  <2> QED BY <1>0, <2>1, <2>2, <2>3, <2>4, OrderedByMine
<1>15. CASE Finalize
  <2>1. AtWork /\ Mine \in Tasks /\ UNCHANGED receipts
        BY <1>0, <1>15, Busy DEF Finalize, AtWork, TypeOK
  <2>2. \A x \in Tasks : x # Mine => task'[x] = task[x]
        BY <1>0, <1>15 DEF Finalize, TypeOK
  <2>3. \A x \in Tasks : dispatch'[x] \in Confirmed => receipts
        BY <1>0, <1>15 DEF Finalize, service, Confirmed, TypeOK
  <2>4. AtWork' => executor'.task = executor.task
        BY <1>0, <1>15, Busy, GoKeeps DEF Finalize, AtWork, Idle, TypeOK
  <2> QED BY <1>0, <2>1, <2>2, <2>3, <2>4, OrderedByMine
<1>16. CASE SettleExecuted
      BY <1>0, <1>16, SettleExecutedKeeps, OrderedKept DEF SettleExecuted, service, AtWork, Settling, Begun
<1>17. ASSUME NEW x \in Tasks, Receipt(x) PROVE Ordered'
      BY <1>0, <1>17, OrderedKept DEF Receipt, AtWork
<1>18. ASSUME NEW x \in Tasks, FinalizeReceipt(x) PROVE Ordered'
  <2>1. /\ UNCHANGED <<executor, dispatch, receipts>>
        /\ dispatch[x] \in Confirmed
        /\ task'[x] = IF dispatch[x] = "succeeded" THEN "sent" ELSE "failed"
        /\ \A y \in Tasks : y # x => task'[y] = task[y]
        BY <1>0, <1>18 DEF FinalizeReceipt, service, TypeOK
  <2>2. task[x] \in {"sending", "sent", "failed"}
        BY <1>0, <2>1, PostedHasBegun DEF Held
  <2>3. task[x] = "sent" => task'[x] = "sent"
        BY <1>0, <2>1 DEF Held
  <2> QED BY <2>1, <2>2, <2>3 DEF Ordered, AtWork, Mine, Begun
<1>19. ASSUME NEW x \in Tasks, SettleReceipt(x) PROVE Ordered'
      BY <1>0, <1>19, SettleKeeps, OrderedKept DEF SettleReceipt, service, AtWork, TypeOK, Begun
<1>20. ASSUME NEW x \in Tasks, MarkFinalized(x) PROVE Ordered'
      BY <1>0, <1>20, OrderedKept DEF MarkFinalized, service, AtWork
<1>21. CASE WorkerCrash
      BY <1>0, <1>21, OrderedKept DEF WorkerCrash, service, AtWork, Idle
<1>22. CASE CallbackCrash
      BY <1>0, <1>22, OrderedKept DEF CallbackCrash, service, AtWork
<1> QED BY <1>1, <1>2, <1>3, <1>4, <1>5, <1>6, <1>7, <1>8, <1>9, <1>10, <1>11, <1>12, <1>13, <1>14, <1>15, <1>16, <1>17, <1>18, <1>19, <1>20, <1>21, <1>22
        DEF Next, Conversing, Monitoring, Execute, Finalizing

(* A step that lets the executor where it is, and claims and frees no task. *)
LEMMA ClaimedKept ==
    ASSUME Claimed, UNCHANGED <<executor, interrupted>>,
           \A x \in Tasks : task'[x] = task[x] \/ task'[x] \notin Unsent,
           executor.pc # "idle" => Mine \in Tasks
    PROVE  Claimed'
  BY DEF Claimed, Mine, Unsent

(* Every step keeps whose claim stands. *)
LEMMA NextClaimed == IInv /\ Claimed /\ Next => Claimed'
<1> SUFFICES ASSUME IInv, Claimed, Next PROVE Claimed'
    OBVIOUS
<1>0. /\ TypeOK /\ Executed /\ Claimed
      /\ executor.pc # "idle" => Mine \in Tasks
      BY Busy DEF IInv, TypeOK
<1>1. CASE CustomerWrites
      BY <1>0, <1>1, ClaimedKept DEF CustomerWrites
<1>2. CASE Ingress
      BY <1>0, <1>2, ClaimedKept, CancelKeeps DEF Ingress, TypeOK, Unsent
<1>3. CASE EndWithoutReply
      BY <1>0, <1>3, ClaimedKept, CancelKeeps DEF EndWithoutReply, TypeOK, Unsent
<1>4. CASE Scan
      BY <1>0, <1>4, ClaimedKept DEF Scan
<1>5. CASE Refresh
      BY <1>0, <1>5, ClaimedKept DEF Refresh
<1>6. CASE Generate
  <2>1. UNCHANGED <<executor, interrupted>>
        BY <1>6 DEF Generate
  <2>2. CASE plan' = plan /\ task' = task
        BY <1>0, <2>1, <2>2, ClaimedKept
  <2>3. CASE ~(plan' = plan /\ task' = task)
    <3>1. PICK p \in Plans :
             /\ plan[p].status = "none"
             /\ \A x \in Tasks : task'[x] = (IF x[1] = p THEN "pending" ELSE task[x])
          BY <1>0, <1>6, <2>3, GenerateMakes
    <3>2. executor.pc # "idle" => Mine \in Tasks /\ Mine[1] # p
          BY <1>0, <3>1, Busy DEF Executed, TypeOK
    <3> QED BY <2>1, <3>1, <3>2 DEF Claimed, Mine
  <2> QED BY <2>2, <2>3
<1>7. CASE Approve
      BY <1>0, <1>7, ClaimedKept DEF Approve
<1>8. CASE List
      BY <1>8 DEF List, Claimed
<1>9. CASE Claim
  <2>1. executor \in Executions /\ Mine \in Tasks
        BY <1>0, <1>9, Busy DEF Claim, TypeOK
  <2> QED BY <1>0, <1>9, <2>1, MineOnly, GoKeeps DEF Claim, Claimed, Idle, Mine, TypeOK, Unsent
<1>10. CASE Check
  <2>1. executor \in Executions /\ Mine \in Tasks
        BY <1>0, <1>10, Busy DEF Check, TypeOK
  <2> QED BY <1>0, <1>10, <2>1, MineOnly, GoKeeps DEF Check, Claimed, Idle, Mine, TypeOK, Unsent, GiveUp
<1>11. CASE Prepare
  <2>1. executor \in Executions /\ Mine \in Tasks
        BY <1>0, <1>11, Busy DEF Prepare, TypeOK
  <2> QED BY <1>0, <1>11, <2>1, MineOnly, GoKeeps DEF Prepare, Claimed, Idle, Mine, TypeOK, Unsent, GiveUp
<1>12. CASE Submit
  <2>1. executor \in Executions /\ Mine \in Tasks
        BY <1>0, <1>12, Busy DEF Submit, TypeOK
  <2> QED BY <1>0, <1>12, <2>1, MineOnly, GoKeeps DEF Submit, Claimed, Idle, Mine, TypeOK, Unsent
<1>13. CASE Arrive
  <2>1. executor \in Executions /\ Mine \in Tasks
        BY <1>0, <1>13, Busy DEF Arrive, TypeOK
  <2> QED BY <1>0, <1>13, <2>1, MineOnly, GoKeeps DEF Arrive, Claimed, Idle, Mine, TypeOK, Unsent
<1>14. CASE Fail
  <2>1. executor \in Executions /\ Mine \in Tasks
        BY <1>0, <1>14, Busy DEF Fail, TypeOK
  <2> QED BY <1>0, <1>14, <2>1, MineOnly, GoKeeps DEF Fail, Claimed, Idle, Mine, TypeOK, Unsent
<1>15. CASE Finalize
  <2>1. executor \in Executions /\ Mine \in Tasks
        BY <1>0, <1>15, Busy DEF Finalize, TypeOK
  <2> QED BY <1>0, <1>15, <2>1, MineOnly, GoKeeps DEF Finalize, Claimed, Idle, Mine, TypeOK, Unsent
<1>16. CASE SettleExecuted
  <2>1. PICK next \in Settling \cup {"end"} :
           /\ Settle(Mine, executor.pc, next)
           /\ IF next = "end" THEN executor' = Idle ELSE Go(next)
        BY <1>16 DEF SettleExecuted
  <2>2. executor \in Executions /\ Mine \in Tasks
        BY <1>0, <2>1, Busy DEF Settle, TypeOK
  <2>3. next # "rest"
        BY <1>0, <2>1, <2>2, SettleTyped DEF TypeOK
  <2>4. executor'.pc # "rest"
        BY <2>1, <2>2, <2>3, GoKeeps DEF Idle
  <2>5. /\ \A x \in Tasks : task'[x] = "checking" => task[x] = "checking"
        /\ executor.pc \in Settling
        BY <1>0, <1>16, SettleExecutedKeeps
  <2> QED BY <1>16, <2>4, <2>5 DEF SettleExecuted, Claimed, Settling
<1>17. ASSUME NEW x \in Tasks, Receipt(x) PROVE Claimed'
      BY <1>0, <1>17, ClaimedKept DEF Receipt
<1>18. ASSUME NEW x \in Tasks, FinalizeReceipt(x) PROVE Claimed'
      BY <1>0, <1>18, ClaimedKept DEF FinalizeReceipt, TypeOK, Unsent
<1>19. ASSUME NEW x \in Tasks, SettleReceipt(x) PROVE Claimed'
      BY <1>0, <1>19, ClaimedKept, SettleKeeps DEF SettleReceipt, TypeOK, Unsent
<1>20. ASSUME NEW x \in Tasks, MarkFinalized(x) PROVE Claimed'
      BY <1>0, <1>20, ClaimedKept DEF MarkFinalized
<1>21. CASE WorkerCrash
  <2>1. Mine \in Tasks => Mine[1] # 0
        BY TasksAreNumbered
  <2> QED BY <1>21, <2>1 DEF WorkerCrash, Claimed, Idle
<1>22. CASE CallbackCrash
      BY <1>0, <1>22, ClaimedKept DEF CallbackCrash
<1> QED BY <1>1, <1>2, <1>3, <1>4, <1>5, <1>6, <1>7, <1>8, <1>9, <1>10, <1>11, <1>12, <1>13, <1>14, <1>15, <1>16, <1>17, <1>18, <1>19, <1>20, <1>21, <1>22
        DEF Next, Conversing, Monitoring, Execute, Finalizing

(* A step that fails no task but with its receipt, and leaves the dropping of
   a plan where it is or completes it. *)
LEMMA DroppedKept ==
    ASSUME Dropped, interrupted \subseteq interrupted',
           \A x \in Tasks :
              \/ task'[x] = task[x]
              \/ /\ task'[x] \notin Unsent
                 /\ task'[x] = "failed" => dispatch'[x] \in Confirmed /\ finalizer'[x] = "rest",
           executor.pc = "rest" =>
              \/ executor'.pc = "rest" /\ executor'.task = executor.task
              \/ Mine[1] \in interrupted'
              \/ \A x \in Tasks : x[1] = Mine[1] => task'[x] \notin Unsent,
           \A y \in Tasks : dispatch[y] \in Confirmed /\ finalizer[y] \in {"none", "rest"} =>
              \/ dispatch'[y] \in Confirmed /\ finalizer'[y] \in {"none", "rest"}
              \/ task'[y] # "failed"
              \/ \A x \in Tasks : x[1] = y[1] => task'[x] \notin Unsent
    PROVE  Dropped'
<1> SUFFICES ASSUME NEW y \in Tasks, task'[y] = "failed"
             PROVE  \/ y[1] \in interrupted'
                    \/ executor'.pc = "rest" /\ executor'.task[1] = y[1]
                    \/ dispatch'[y] \in Confirmed /\ finalizer'[y] \in {"none", "rest"}
                    \/ \A x \in Tasks : x[1] = y[1] => task'[x] \notin Unsent
    BY DEF Dropped, NoneLeft, Mine
<1>1. CASE task[y] # "failed"
      BY <1>1
<1>2. CASE task[y] = "failed"
  <2>1. \/ y[1] \in interrupted
        \/ executor.pc = "rest" /\ Mine[1] = y[1]
        \/ dispatch[y] \in Confirmed /\ finalizer[y] \in {"none", "rest"}
        \/ \A x \in Tasks : x[1] = y[1] => task[x] \notin Unsent
        BY <1>2 DEF Dropped, NoneLeft
  <2>2. CASE executor.pc = "rest" /\ Mine[1] = y[1]
        BY <2>2 DEF Mine
  <2> QED BY <2>1, <2>2
<1> QED BY <1>1, <1>2

(* A step of the executor on its task fails no other, and fails its own only to
   drop the rest. *)
LEMMA DroppedByMine ==
    ASSUME Dropped, Ordered, AtWork, executor.pc # "rest", Mine \in Tasks,
           UNCHANGED <<interrupted, finalizer>>,
           \A x \in Tasks : x # Mine => task'[x] = task[x] /\ dispatch'[x] = dispatch[x],
           task'[Mine] = "failed" => executor'.pc = "rest" /\ executor'.task = executor.task
    PROVE  Dropped'
<1> SUFFICES ASSUME NEW y \in Tasks, task'[y] = "failed", y # Mine
             PROVE  \/ y[1] \in interrupted
                    \/ dispatch[y] \in Confirmed /\ finalizer[y] \in {"none", "rest"}
                    \/ \A x \in Tasks : x[1] = y[1] => task'[x] \notin Unsent
    BY DEF Dropped, NoneLeft, Mine
<1>1. task[y] = "failed"
      OBVIOUS
<1>2. y[1] # Mine[1]
  <2>1. ~(y[2] < Mine[2] /\ y[1] = Mine[1])
        BY <1>1 DEF Ordered
  <2>2. ~(y[2] > Mine[2] /\ y[1] = Mine[1])
        BY <1>1 DEF Ordered, Begun
  <2>3. y[2] \in Nat /\ Mine[2] \in Nat /\ (y[1] = Mine[1] => y[2] # Mine[2])
        BY TasksAreNumbered
  <2> QED BY <2>1, <2>2, <2>3
<1> QED BY <1>1, <1>2 DEF Dropped, NoneLeft

(* Every step keeps that the steps after a failed one are dropped. *)
LEMMA NextDropped == SInv /\ Next => Dropped'
<1> SUFFICES ASSUME SInv, Next PROVE Dropped'
    OBVIOUS
<1>0. /\ TypeOK /\ Held /\ Executed /\ Ordered /\ Claimed /\ Dropped
      /\ executor.pc # "idle" => Mine \in Tasks
      BY Busy DEF SInv, IInv, TypeOK
<1>1. CASE CustomerWrites
      BY <1>0, <1>1, DroppedKept DEF CustomerWrites, service
<1>2. CASE Ingress
      BY <1>0, <1>2, DroppedKept, CancelKeeps DEF Ingress, service, TypeOK, Unsent
<1>3. CASE EndWithoutReply
      BY <1>0, <1>3, DroppedKept, CancelKeeps DEF EndWithoutReply, service, TypeOK, Unsent
<1>4. CASE Scan
      BY <1>0, <1>4, DroppedKept DEF Scan, service
<1>5. CASE Refresh
      BY <1>0, <1>5, DroppedKept DEF Refresh, service
<1>6. CASE Generate
  <2>1. UNCHANGED <<executor, interrupted, dispatch, finalizer>>
        BY <1>6 DEF Generate, service
  <2>2. CASE plan' = plan /\ task' = task
        BY <1>0, <2>1, <2>2, DroppedKept
  <2>3. CASE ~(plan' = plan /\ task' = task)
    <3>1. PICK p \in Plans :
             /\ plan[p].status = "none"
             /\ \A x \in Tasks : task'[x] = (IF x[1] = p THEN "pending" ELSE task[x])
          BY <1>0, <1>6, <2>3, GenerateMakes
    <3>2. ASSUME NEW y \in Tasks, task'[y] = "failed"
          PROVE  /\ task[y] = "failed"
                 /\ \A x \in Tasks : x[1] = y[1] => task'[x] = task[x]
          BY <3>1, <3>2
    <3>3. \A y \in Tasks : task[y] = "failed" /\ (\A x \in Tasks : x[1] = y[1] => task'[x] = task[x])
             => (NoneLeft(y[1]) => \A x \in Tasks : x[1] = y[1] => task'[x] \notin Unsent)
          BY DEF NoneLeft
    <3>4. Mine' = Mine
          BY <2>1 DEF Mine
    <3> QED BY <1>0, <2>1, <3>2, <3>3, <3>4 DEF Dropped, NoneLeft
  <2> QED BY <2>2, <2>3
<1>7. CASE Approve
      BY <1>0, <1>7, DroppedKept DEF Approve, service
<1>8. CASE List
      BY <1>0, <1>8, DroppedKept DEF List, service
<1>9. CASE Claim
  <2>1. AtWork /\ executor.pc # "rest" /\ Mine \in Tasks
        BY <1>0, <1>9 DEF Claim, AtWork
  <2>2. CASE UNCHANGED <<task, dispatch>>
        BY <1>0, <1>9, <2>1, <2>2, DroppedKept DEF Claim, service
  <2>3. CASE ~UNCHANGED <<task, dispatch>>
    <3>1. \A x \in Tasks : x # Mine => task'[x] = task[x] /\ dispatch'[x] = dispatch[x]
          BY <1>0, <1>9, <2>3 DEF Claim, service, TypeOK
    <3>2. UNCHANGED <<interrupted, finalizer>>
          BY <1>9 DEF Claim
    <3>3. task'[Mine] = "failed" => executor'.pc = "rest" /\ executor'.task = executor.task
          BY <1>0, <1>9, <2>1, <2>3, Busy, GoKeeps DEF Claim, service, TypeOK
    <3> QED BY <1>0, <2>1, <3>1, <3>2, <3>3, DroppedByMine
  <2> QED BY <2>2, <2>3
<1>10. CASE Check
  <2>1. AtWork /\ executor.pc # "rest" /\ Mine \in Tasks
        BY <1>0, <1>10 DEF Check, AtWork
  <2>2. CASE UNCHANGED <<task, dispatch>>
        BY <1>0, <1>10, <2>1, <2>2, DroppedKept DEF Check, service
  <2>3. CASE ~UNCHANGED <<task, dispatch>>
    <3>1. \A x \in Tasks : x # Mine => task'[x] = task[x] /\ dispatch'[x] = dispatch[x]
          BY <1>0, <1>10, <2>3 DEF Check, GiveUp, service, TypeOK
    <3>2. UNCHANGED <<interrupted, finalizer>>
          BY <1>10 DEF Check
    <3>3. task'[Mine] = "failed" => executor'.pc = "rest" /\ executor'.task = executor.task
          BY <1>0, <1>10, <2>1, <2>3, Busy, GoKeeps DEF Check, GiveUp, service, TypeOK
    <3> QED BY <1>0, <2>1, <3>1, <3>2, <3>3, DroppedByMine
  <2> QED BY <2>2, <2>3
<1>11. CASE Prepare
  <2>1. AtWork /\ executor.pc # "rest" /\ Mine \in Tasks
        BY <1>0, <1>11 DEF Prepare, AtWork
  <2>2. CASE UNCHANGED <<task, dispatch>>
        BY <1>0, <1>11, <2>1, <2>2, DroppedKept DEF Prepare, service
  <2>3. CASE ~UNCHANGED <<task, dispatch>>
    <3>1. \A x \in Tasks : x # Mine => task'[x] = task[x] /\ dispatch'[x] = dispatch[x]
          BY <1>0, <1>11, <2>3 DEF Prepare, GiveUp, service, TypeOK
    <3>2. UNCHANGED <<interrupted, finalizer>>
          BY <1>11 DEF Prepare
    <3>3. task'[Mine] = "failed" => executor'.pc = "rest" /\ executor'.task = executor.task
          BY <1>0, <1>11, <2>1, <2>3, Busy, GoKeeps DEF Prepare, GiveUp, service, TypeOK
    <3> QED BY <1>0, <2>1, <3>1, <3>2, <3>3, DroppedByMine
  <2> QED BY <2>2, <2>3
<1>12. CASE Submit
  <2>1. AtWork /\ executor.pc # "rest" /\ Mine \in Tasks
        BY <1>0, <1>12 DEF Submit, AtWork
  <2>2. CASE UNCHANGED <<task, dispatch>>
        BY <1>0, <1>12, <2>1, <2>2, DroppedKept DEF Submit, service
  <2>3. CASE ~UNCHANGED <<task, dispatch>>
    <3>1. \A x \in Tasks : x # Mine => task'[x] = task[x] /\ dispatch'[x] = dispatch[x]
          BY <1>0, <1>12, <2>3 DEF Submit, service, TypeOK
    <3>2. UNCHANGED <<interrupted, finalizer>>
          BY <1>12 DEF Submit
    <3>3. task'[Mine] = "failed" => executor'.pc = "rest" /\ executor'.task = executor.task
          BY <1>0, <1>12, <2>1, <2>3, Busy, GoKeeps DEF Submit, service, TypeOK
    <3> QED BY <1>0, <2>1, <3>1, <3>2, <3>3, DroppedByMine
  <2> QED BY <2>2, <2>3
<1>13. CASE Arrive
      BY <1>0, <1>13, DroppedKept DEF Arrive
<1>14. CASE Fail
  <2>1. AtWork /\ executor.pc # "rest" /\ Mine \in Tasks
        BY <1>0, <1>14 DEF Fail, AtWork
  <2>2. CASE UNCHANGED <<task, dispatch>>
        BY <1>0, <1>14, <2>1, <2>2, DroppedKept DEF Fail, service
  <2>3. CASE ~UNCHANGED <<task, dispatch>>
    <3>1. \A x \in Tasks : x # Mine => task'[x] = task[x] /\ dispatch'[x] = dispatch[x]
          BY <1>0, <1>14, <2>3 DEF Fail, service, TypeOK
    <3>2. UNCHANGED <<interrupted, finalizer>>
          BY <1>14 DEF Fail
    <3>3. task'[Mine] = "failed" => executor'.pc = "rest" /\ executor'.task = executor.task
          BY <1>0, <1>14, <2>1, <2>3, Busy, GoKeeps DEF Fail, service, TypeOK
    <3> QED BY <1>0, <2>1, <3>1, <3>2, <3>3, DroppedByMine
  <2> QED BY <2>2, <2>3
<1>15. CASE Finalize
  <2>1. AtWork /\ executor.pc # "rest" /\ Mine \in Tasks
        BY <1>0, <1>15 DEF Finalize, AtWork
  <2>2. CASE UNCHANGED <<task, dispatch>>
        BY <1>0, <1>15, <2>1, <2>2, DroppedKept DEF Finalize, service
  <2>3. CASE ~UNCHANGED <<task, dispatch>>
    <3>1. \A x \in Tasks : x # Mine => task'[x] = task[x] /\ dispatch'[x] = dispatch[x]
          BY <1>0, <1>15, <2>3 DEF Finalize, service, TypeOK
    <3>2. UNCHANGED <<interrupted, finalizer>>
          BY <1>15 DEF Finalize
    <3>3. task'[Mine] = "failed" => executor'.pc = "rest" /\ executor'.task = executor.task
          BY <1>0, <1>15, <2>1, <2>3, Busy, GoKeeps DEF Finalize, service, TypeOK
    <3> QED BY <1>0, <2>1, <3>1, <3>2, <3>3, DroppedByMine
  <2> QED BY <2>2, <2>3
<1>16. CASE SettleExecuted
  <2>1. PICK next \in Settling \cup {"end"} :
           /\ Settle(Mine, executor.pc, next)
           /\ IF next = "end" THEN executor' = Idle ELSE Go(next)
        BY <1>16 DEF SettleExecuted
  <2>2. UNCHANGED <<interrupted, dispatch, finalizer>>
        BY <1>16 DEF SettleExecuted, service
  <2>3. \A x \in Tasks : task'[x] = task[x] \/ (task[x] \in Unsent /\ task'[x] = "skipped")
        BY <1>0, <1>16, SettleExecutedKeeps
  <2>4. executor.pc = "rest" => \A x \in Tasks : x[1] = Mine[1] => task'[x] \notin Unsent
        BY <1>0, <2>1 DEF Settle, SkipRemaining, Of, Claimed, Unsent
  <2> QED BY <1>0, <2>2, <2>3, <2>4, DroppedKept DEF Unsent
<1>17. ASSUME NEW x \in Tasks, Receipt(x) PROVE Dropped'
      BY <1>0, <1>17, DroppedKept DEF Receipt, service
<1>18. ASSUME NEW x \in Tasks, FinalizeReceipt(x) PROVE Dropped'
  <2>1. /\ UNCHANGED <<executor, dispatch, interrupted>>
        /\ dispatch[x] \in Confirmed /\ finalizer[x] = "none"
        /\ IF dispatch[x] = "succeeded" THEN task'[x] = "sent" /\ finalizer'[x] = "count"
                                        ELSE task'[x] = "failed" /\ finalizer'[x] = "rest"
        /\ \A y \in Tasks : y # x => task'[y] = task[y] /\ finalizer'[y] = finalizer[y]
        BY <1>0, <1>18 DEF FinalizeReceipt, service, TypeOK
  <2> QED BY <1>0, <2>1, DroppedKept DEF Unsent
<1>19. ASSUME NEW x \in Tasks, SettleReceipt(x) PROVE Dropped'
  <2>1. PICK next \in Settling \cup {"end"} :
           /\ Settle(x, finalizer[x], next)
           /\ finalizer' = [finalizer EXCEPT ![x] = IF next = "end" THEN "written" ELSE next]
        BY <1>19 DEF SettleReceipt
  <2>2. UNCHANGED <<executor, interrupted, dispatch>>
        BY <1>19 DEF SettleReceipt, service
  <2>3. \A y \in Tasks : task'[y] = task[y] \/ (task[y] \in Unsent /\ task'[y] = "skipped")
        BY <1>0, <2>1, SettleKeeps DEF TypeOK
  <2>4. \A y \in Tasks : y # x => finalizer'[y] = finalizer[y]
        BY <1>0, <2>1 DEF TypeOK
  <2>5. finalizer[x] # "none"
        BY <2>1 DEF Settle
  <2>6. ASSUME dispatch[x] \in Confirmed, finalizer[x] = "rest", NEW y \in Tasks, y[1] = x[1]
        PROVE  task'[y] \notin Unsent
    <3>1. task[x] \notin Unsent
          BY <1>0, <2>6, PostedHasBegun DEF Held, Unsent
    <3>2. SkipRemaining(x[1], x)
          BY <2>1, <2>6 DEF Settle
    <3> QED BY <2>6, <3>1, <3>2 DEF SkipRemaining, Of, Unsent
  <2> QED BY <1>0, <2>2, <2>3, <2>4, <2>5, <2>6, DroppedKept DEF Unsent
<1>20. ASSUME NEW x \in Tasks, MarkFinalized(x) PROVE Dropped'
  <2>1. /\ UNCHANGED <<task, executor, interrupted, dispatch>>
        /\ finalizer[x] = "written"
        /\ \A y \in Tasks : y # x => finalizer'[y] = finalizer[y]
        BY <1>0, <1>20 DEF MarkFinalized, service, TypeOK
  <2> QED BY <1>0, <2>1, DroppedKept
<1>21. CASE WorkerCrash
  <2>1. Mine \in Tasks => Mine[1] # 0
        BY TasksAreNumbered
  <2> QED BY <1>0, <1>21, <2>1, DroppedKept DEF WorkerCrash, service
<1>22. CASE CallbackCrash
      BY <1>0, <1>22, DroppedKept DEF CallbackCrash, service, TypeOK
<1> QED BY <1>1, <1>2, <1>3, <1>4, <1>5, <1>6, <1>7, <1>8, <1>9, <1>10, <1>11, <1>12, <1>13, <1>14, <1>15, <1>16, <1>17, <1>18, <1>19, <1>20, <1>21, <1>22
        DEF Next, Conversing, Monitoring, Execute, Finalizing

(* A plan that runs can go on, for any plans, messages and faults: its first
   step that waits is due, or one before it is in somebody's hands, waits for
   its receipt or was skipped alone. *)
THEOREM PlansGoOn == Spec => []NoPlanIsStuck
<1>1. Init => Made /\ Ordered /\ Claimed /\ Dropped
      BY TaskFacts DEF Init, Made, Ordered, Claimed, Dropped, Begun, AtWork, Confirmed, Settling,
                       NoPlan, Asleep, Idle
<1>2. ASSUME SInv, IInv', [Next]_vars PROVE SInv'
  <2>1. CASE Next
        BY <1>2, <2>1, NextMade, NextOrdered, NextClaimed, NextDropped DEF SInv
  <2>2. CASE UNCHANGED vars
        BY <1>2, <2>2 DEF SInv, Made, Ordered, Claimed, Dropped, AtWork, NoneLeft, Mine, vars, service
  <2> QED BY <1>2, <2>1, <2>2
<1>3. ASSUME SInv PROVE NoPlanIsStuck
  <2> SUFFICES ASSUME NEW p \in Plans, Running(p), p \notin interrupted, ~Unconfirmed(p),
                      ~Stranded(p), ~Moving(p)
               PROVE  FALSE
      BY DEF NoPlanIsStuck
  <2>1. \A x \in Of(p) : x \in Tasks /\ x[1] = p /\ x[2] \in Nat
        BY TaskFacts DEF Of
  <2>2. \A x \in Of(p) : task[x] # "checking"
        BY <1>3, <2>1 DEF SInv, Claimed, Moving
  <2>3. \A x \in Of(p) : task[x] # "sending"
        BY DEF Unconfirmed
  <2> DEFINE S == {x[2] : x \in {y \in Of(p) : task[y] = "pending"}}
  <2>4. S # {} /\ S \in SUBSET Nat
        BY <2>1, <2>2, <2>3 DEF Running, HasRemaining, Live, Unsent
  <2>5. PICK n \in S : \A m \in S : n <= m
        BY <2>4, FirstStep
  <2>6. PICK x \in Of(p) : task[x] = "pending" /\ x[2] = n
        BY <2>5
  <2>7. PICK y \in Of(p) : y[2] < x[2] /\ task[y] # "sent"
        BY <2>1, <2>6 DEF Moving, Due, Running
  <2>8. task[y] # "pending"
    <3>1. task[y] = "pending" => n <= y[2]
          BY <2>5
    <3> QED BY <2>1, <2>4, <2>6, <2>7, <3>1
  <2>9. task[y] # "none"
        BY <1>3, <2>1 DEF SInv, Made, Running
  <2>10. task[y] # "skipped"
        BY <2>6, <2>7 DEF Stranded
  <2>11. task[y] # "failed"
    <3>1. ~NoneLeft(p)
          BY <2>1, <2>6 DEF NoneLeft, Unsent
    <3> QED BY <1>3, <2>1, <3>1 DEF SInv, Dropped, Moving
  <2>12. task[y] \in TaskStatuses
        BY <1>3, <2>1 DEF SInv, IInv, TypeOK
  <2> QED BY <2>2, <2>3, <2>7, <2>8, <2>9, <2>10, <2>11, <2>12 DEF TaskStatuses
<1> QED BY <1>1, <1>2, <1>3, Invariance, PTL DEF Spec, SInv
=============================================================================
