------------------------- MODULE RunDocumentProofs -------------------------
(***************************************************************************)
(* RecoveryRequestIsKept for every number of calls, workers, attempts and  *)
(* faults, and AnswerIsKept for a message that one call asks for.  With    *)
(* two calls it is false: the timing write of the one restores the text it *)
(* read before the save of the other.                                      *)
(***************************************************************************)
EXTENDS RunDocument, TLAPS

OneCall == \A c, d \in Calls : c = d

\* Somebody who waits for nothing, or works without a text.
Textless == {"idle", "work", "finish", "error"}

\* Whoever is about to write has a text.
Copies == \A x \in Writers : pc[x] \notin Textless => copy[x] \in Docs

Held(x) == copy[x] # None

\* The run may still be answered, given to recovery or generated by it.
MayRecover == row.status = "generating" \/ (Open /\ ~row.dispatch)

\* Its request is in the document and in every text that will replace it.
Requested == MayRecover => doc.request /\ \A x \in Writers : Held(x) => copy[x].request

RInv == TypeOK /\ Copies /\ Requested

\* What a document says of an answer: one that was saved is in it, and there is
\* a job only for an answer.
SaysAll(d) ==
    /\ row.snap # None => d.answer
    /\ d.job # "none" \/ d.payload => row.snap # None

\* Nobody who holds a text from before the answer is left when it is saved.
Answered ==
    /\ SaysAll(doc)
    /\ row.status = "generating" => row.snap = None
    /\ \A x \in Writers : Held(x) => SaysAll(copy[x])
    /\ \A x \in RecoveryWriters : Held(x) => row.status # "generating"
    /\ \A f \in Finalizers : Held(f) \/ pc[f] # "idle" => row.snap # None
    /\ \A c \in Calls : Held(c) => c \in responded

AInv == TypeOK /\ Copies /\ Answered

-----------------------------------------------------------------------------
(* The run row *)

\* What the steps of this module may do to it.
Unsaved ==
    \/ UNCHANGED row
    \/ Escalate \/ Claim \/ Retry \/ ManualReview \/ Cancel \/ Stage \/ ReapStale \/ DeadlinePasses
    \/ \E read, receipt : Settle(read, receipt)
    \/ \E c \in Calls : LeaseExpired /\ Reclaim(c)

RowStep ==
    \/ Unsaved
    \/ \E c \in Calls, kind \in Kinds : Owns(c) /\ SavePrimary([by |-> c, kind |-> kind], enabled)

LEMMA SavedRow ==
    ASSUME row \in Rows, NEW c \in Calls, NEW kind \in Kinds,
           SavePrimary([by |-> c, kind |-> kind], enabled)
    PROVE  /\ row' \in Rows /\ row'.snap # None
           /\ row'.status = SavedStatus(kind, enabled)
           /\ row'.status \in {"fallback_pending", "completed"} /\ row'.dispatch = row.dispatch
<1> DEFINE p == [by |-> c, kind |-> kind]
<1>1. p \in Payloads /\ p.kind = kind /\ p # None
      BY NoneIsFresh DEF Payloads, Kinds
<1>2. SavedStatus(p.kind, enabled) \in {"fallback_pending", "completed"}
      BY DEF SavedStatus
<1>3. row' = [row EXCEPT !.status = SavedStatus(p.kind, enabled), !.owner = None, !.due = FALSE,
                         !.snap = p]
      BY DEF SavePrimary
<1> HIDE DEF p
<1> QED BY <1>1, <1>2, <1>3 DEF Rows, Statuses

LEMMA RowTyped ==
    ASSUME row \in Rows, RowStep
    PROVE  row' \in Rows
<1> USE DEF Rows, Statuses
<1>1. CASE Escalate
      BY <1>1 DEF Escalate, ToReview
<1>6. CASE Stage
      BY <1>6 DEF Stage
<1>7. CASE Retry
  <2>1. CASE ToReview
        BY <2>1 DEF ToReview
  <2>2. CASE ~ToReview
        BY <1>7, <2>2 DEF Retry
  <2> QED BY <2>1, <2>2
<1>8. CASE Cancel \/ ManualReview
      BY <1>8 DEF Cancel, ManualReview, ToReview
<1>2. CASE Claim
  <2>1. row.attempts + 1 \in 0 .. MaxAttempts
        BY <1>2, MaxAttemptsPositive DEF Claim, Claimable, Exhausted
  <2> QED BY <1>2, <2>1 DEF Claim
<1>3. CASE ReapStale \/ DeadlinePasses \/ \E c \in Calls : Reclaim(c)
      BY <1>3 DEF ReapStale, DeadlinePasses, Reclaim
<1>4. CASE \E read, receipt : Settle(read, receipt)
      BY <1>4 DEF Settle, Settled
<1>5. ASSUME NEW c \in Calls, NEW kind \in Kinds, SavePrimary([by |-> c, kind |-> kind], enabled)
      PROVE  row' \in Rows
      BY <1>5, SavedRow
<1> QED BY <1>1, <1>2, <1>3, <1>4, <1>5, <1>6, <1>7, <1>8 DEF RowStep, Unsaved

(* A run does not become recoverable again; an answer stays. *)
LEMMA RowMovesOn ==
    ASSUME row \in Rows, RowStep
    PROVE  /\ MayRecover' => MayRecover
           /\ row'.status = "generating" => row.status = "generating" /\ row'.snap = row.snap
           /\ row.snap # None => row'.snap # None
           /\ row'.snap # None => row.snap # None \/ row.status = "generating"
<1> USE DEF Rows, Statuses, MayRecover, Open, Claimed
<1>1. CASE UNCHANGED row
      BY <1>1
<1>2. CASE Escalate \/ Claim \/ Retry \/ Cancel \/ ManualReview \/ Stage
      BY <1>2 DEF Escalate, MustEscalate, Claim, Claimable, Retry, Cancel, ManualReview, Stage,
                  ToReview
<1>3. CASE ReapStale \/ DeadlinePasses \/ \E c \in Calls : LeaseExpired /\ Reclaim(c)
      BY <1>3 DEF ReapStale, DeadlinePasses, LeaseExpired, Reclaim
<1>4. CASE \E read, receipt : Settle(read, receipt)
      BY <1>4 DEF Settle, Settled
<1>5. ASSUME NEW c \in Calls, NEW kind \in Kinds, Owns(c),
             SavePrimary([by |-> c, kind |-> kind], enabled)
      PROVE  /\ MayRecover' => MayRecover
             /\ row'.status = "generating" => row.status = "generating" /\ row'.snap = row.snap
             /\ row.snap # None => row'.snap # None
             /\ row'.snap # None => row.snap # None \/ row.status = "generating"
      BY <1>5, SavedRow DEF Owns
<1> QED BY <1>1, <1>2, <1>3, <1>4, <1>5 DEF RowStep, Unsaved

LEMMA UnsavedKeepsSnapshot ==
    ASSUME row \in Rows, Unsaved
    PROVE  row'.snap = row.snap
<1> USE DEF Rows, Statuses
<1>1. CASE Escalate \/ Claim \/ Retry \/ Cancel \/ ManualReview \/ Stage
      BY <1>1 DEF Escalate, Claim, Retry, Cancel, ManualReview, Stage, ToReview
<1>2. CASE \/ UNCHANGED row \/ ReapStale \/ DeadlinePasses
           \/ \E c \in Calls : Reclaim(c)
           \/ \E read, receipt : Settle(read, receipt)
      BY <1>2 DEF ReapStale, DeadlinePasses, Reclaim, Settle
<1> QED BY <1>1, <1>2 DEF Unsaved

LEMMA StepOnTheRow ==
    ASSUME [Next]_vars
    PROVE  RowStep /\ (Unsaved \/ \E c \in Calls : Save(c))
<1>1. ASSUME NEW c \in Calls, Save(c) PROVE RowStep
      BY <1>1 DEF Save, RowStep
<1>2. CASE TakeOver \/ RecoverySide
      BY <1>2 DEF TakeOver, RecoverySide, RowStep, Unsaved
<1>3. CASE StageWrite \/ Expire
      BY <1>3 DEF StageWrite, Expire, RowStep, Unsaved
<1>4. ASSUME NEW x, SettleWrite(x) PROVE RowStep /\ Unsaved
      BY <1>4 DEF SettleWrite, RowStep, Unsaved
<1>5. CASE \/ \E c \in Calls : TimingRead(c) \/ TimingWrite(c)
           \/ Ripen \/ Send \/ StageRead
           \/ \E f \in Finalizers : FinalizerStep(f)
           \/ \E x \in RecoveryWriters : SettleRead(x)
           \/ \E x \in Writers : Crash(x)
           \/ UNCHANGED vars
  <2>1. row' = row
        BY <1>5 DEF TimingRead, TimingWrite, Ripen, FinalizerStep, ClaimRead, ClaimWrite, SaveRun,
                    WorkRaises, FinishRead, FinishWrite, Send, StageRead, SettleRead, Crash, vars
  <2> QED BY <2>1 DEF RowStep, Unsaved
<1> QED BY <1>1, <1>2, <1>3, <1>4, <1>5 DEF Next, Step

-----------------------------------------------------------------------------
(* Types *)

WriterPcs == Finalizable \cup {"idle", "read", "claiming", "work", "finish",
                               "error", "finishing", "failing"}

Texts == /\ doc \in Docs
         /\ pc \in [Writers -> WriterPcs]
         /\ copy \in [Writers -> Docs \cup {None}]
         /\ fresh \subseteq Finalizers
         /\ Copies

LEMMA ReadTyped ==
    ASSUME Texts, NEW x \in Writers, NEW where \in WriterPcs \ Textless, Read(x, where)
    PROVE  /\ Texts' /\ doc' = doc
           /\ pc' = [pc EXCEPT ![x] = where] /\ copy' = [copy EXCEPT ![x] = doc]
  BY DEF Texts, Read, Copies

LEMMA MoveTyped ==
    ASSUME Texts, NEW x \in Writers, NEW where \in Textless, Move(x, where),
           doc' \in Docs, fresh' \subseteq Finalizers
    PROVE  Texts'
<1>1. Textless \subseteq WriterPcs
      BY DEF Textless, WriterPcs
<1> QED BY <1>1 DEF Texts, Move, Copies

LEMMA WritersTyped ==
    /\ Calls \subseteq Writers /\ Finalizers \subseteq Writers
    /\ "worker" \in Writers /\ "handler" \in Writers /\ RecoveryWriters \subseteq Writers
  BY DEF Writers, RecoveryWriters

LEMMA NewDocTyped == \A c \in Calls : NewDoc(c) \in Docs
  BY FailAfterPositive DEF NewDoc, Docs

LEMMA SavedDocTyped ==
    ASSUME NEW c \in Calls, NEW request \in BOOLEAN
    PROVE  [NewDoc(c) EXCEPT !.answer = TRUE, !.job = "pending", !.ripe = TRUE, !.payload = TRUE,
                             !.request = request] \in Docs
<1> DEFINE d == NewDoc(c)
<1>1. d \in Docs
      BY NewDocTyped
<1> HIDE DEF d
<1>2. [d EXCEPT !.answer = TRUE, !.job = "pending", !.ripe = TRUE, !.payload = TRUE,
                !.request = request] \in Docs
      BY <1>1 DEF Docs, OpenJob
<1> QED BY <1>2 DEF d

LEMMA JobTyped ==
    ASSUME NEW d \in Docs
    PROVE  /\ Completed(d) \in Docs /\ Failed(d) \in Docs
           /\ [d EXCEPT !.job = "processing", !.ripe = FALSE] \in Docs
           /\ [d EXCEPT !.ripe = TRUE] \in Docs /\ [d EXCEPT !.request = FALSE] \in Docs
<1>1. Tried(d) \in 0 .. FailAfter
      BY FailAfterPositive DEF Tried, Docs
<1> QED BY <1>1 DEF Completed, Failed, Docs, OpenJob

(* Every step keeps the texts; what a step reads, it reads to write it back. *)
LEMMA NextTexts ==
    ASSUME TypeOK, Copies, [Next]_vars
    PROVE  Texts'
<1>a. Texts
      BY DEF TypeOK, Texts, WriterPcs
<1>b. ASSUME UNCHANGED <<pc, copy>>, doc' \in Docs, fresh' \subseteq Finalizers PROVE Texts'
      BY <1>a, <1>b DEF Texts, Copies
<1>c. ASSUME NEW d \in Docs, Store(d) PROVE doc' \in Docs /\ fresh' \subseteq Finalizers
      BY <1>c DEF Store
<1>d. ASSUME NoStore PROVE doc' \in Docs /\ fresh' \subseteq Finalizers
      BY <1>a, <1>d DEF NoStore, Texts
<1>e. \A x \in Writers : pc[x] \notin Textless => copy[x] \in Docs
      BY DEF Copies
<1>1. ASSUME NEW c \in Calls, Save(c) PROVE Texts'
  <2>1. PICK kind \in Kinds, ingress \in {doc.ingress, c} :
           Store([NewDoc(ingress) EXCEPT
                    !.answer = TRUE, !.job = "pending", !.ripe = TRUE, !.payload = TRUE,
                    !.request = doc.request /\ SavedStatus(kind, enabled) = "fallback_pending"])
        BY <1>1 DEF Save
  <2>2. ingress \in Calls
        BY <1>a DEF Texts, Docs
  <2>3. (doc.request /\ SavedStatus(kind, enabled) = "fallback_pending") \in BOOLEAN
        OBVIOUS
  <2>4. doc' \in Docs /\ fresh' \subseteq Finalizers
        BY <2>1, <2>2, <2>3, <1>c, SavedDocTyped
  <2> QED BY <1>1, <1>b, <2>4 DEF Save
<1>2. CASE TakeOver \/ Expire \/ Send \/ UNCHANGED vars
      BY <1>2, <1>a, <1>b DEF TakeOver, Expire, Send, vars, Texts
<1>3. ASSUME NEW c \in Calls, TimingRead(c) PROVE Texts'
      BY <1>3, <1>a, <1>b, ReadTyped, WritersTyped DEF TimingRead, WriterPcs, Textless, Texts
<1>4. ASSUME NEW c \in Calls, TimingWrite(c) PROVE Texts'
      BY <1>4, <1>a, <1>c, <1>e, MoveTyped, WritersTyped DEF TimingWrite, Textless
<1>5. CASE Ripen
      BY <1>5, <1>a, <1>b, JobTyped DEF Ripen, Texts
<1>6. ASSUME NEW f \in Finalizers, FinalizerStep(f) PROVE Texts'
  <2> f \in Writers /\ doc \in Docs
      BY <1>a, WritersTyped DEF Texts
  <2>1. CASE ClaimRead(f) \/ FinishRead(f)
        BY <2>1, <1>a, ReadTyped DEF ClaimRead, FinishRead, WriterPcs, Textless
  <2>2. CASE ClaimWrite(f)
        BY <2>2, <1>a, <1>c, <1>d, JobTyped, MoveTyped DEF ClaimWrite, Textless
  <2>3. CASE SaveRun(f) \/ WorkRaises(f)
        BY <2>3, <1>a, <1>c, <1>d, MoveTyped DEF SaveRun, WorkRaises, Textless
  <2>4. CASE FinishWrite(f)
        BY <2>4, <1>a, <1>c, <1>e, JobTyped, MoveTyped DEF FinishWrite, Textless
  <2> QED BY <1>6, <2>1, <2>2, <2>3, <2>4 DEF FinalizerStep
<1>7. CASE RecoverySide
      BY <1>7, <1>a, <1>b, <1>c, <1>d, JobTyped DEF RecoverySide, ClearOnLeave, Texts
<1>8. CASE StageRead
      BY <1>8, <1>a, ReadTyped, WritersTyped DEF StageRead, WriterPcs, Textless
<1>9. CASE StageWrite
      BY <1>9, <1>a, <1>c, <1>d, <1>e, MoveTyped, WritersTyped DEF StageWrite, Textless
<1>10. ASSUME NEW x \in RecoveryWriters, SettleRead(x) PROVE Texts'
  <2>1. row.status \in WriterPcs \ Textless
        BY <1>10 DEF SettleRead, Claimed, Finalizable, WriterPcs, Textless
  <2> QED BY <1>10, <1>a, <2>1, ReadTyped, WritersTyped DEF SettleRead
<1>11. ASSUME NEW x \in RecoveryWriters, SettleWrite(x) PROVE Texts'
  <2>1. copy[x] \in Docs /\ x \in Writers
        BY <1>11, <1>e, WritersTyped DEF SettleWrite, Finalizable, Textless
  <2> QED BY <1>11, <1>a, <1>c, <1>d, <2>1, JobTyped, MoveTyped DEF SettleWrite, Textless
<1>12. ASSUME NEW x \in Writers, Crash(x) PROVE Texts'
       BY <1>12, <1>a, <1>d, MoveTyped DEF Crash, Textless
<1> QED BY <1>1, <1>2, <1>3, <1>4, <1>5, <1>6, <1>7, <1>8, <1>9, <1>10, <1>11, <1>12 DEF Next, Step

LEMMA NextTypeOK ==
    ASSUME TypeOK, Copies, [Next]_vars
    PROVE  TypeOK' /\ Copies'
<1>1. row' \in Rows
      BY StepOnTheRow, RowTyped DEF TypeOK
<1>2. Texts'
      BY NextTexts
<1>3. enabled' = enabled
      BY DEF Next, vars
<1>4. responded' \subseteq Calls
  <2>1. responded' = responded \/ \E c \in Calls : responded' = responded \cup {c}
        BY DEF Next, Step, Save, TimingRead, TimingWrite, TakeOver, Expire, Ripen, FinalizerStep,
               ClaimRead, ClaimWrite, SaveRun, WorkRaises, FinishRead, FinishWrite, RecoverySide,
               Send, StageRead, StageWrite, SettleRead, SettleWrite, Crash, vars
  <2> QED BY <2>1 DEF TypeOK
<1>5. outcome' \in Receipts \cup {"none"} /\ reported' \in BOOLEAN
  <2>1. outcome' = outcome \/ outcome' \in Receipts
        BY DEF Next, Step, Save, TimingRead, TimingWrite, TakeOver, Expire, Ripen, FinalizerStep,
               ClaimRead, ClaimWrite, SaveRun, WorkRaises, FinishRead, FinishWrite, RecoverySide,
               Send, StageRead, StageWrite, SettleRead, SettleWrite, Crash, vars, recovery
  <2>2. reported' = reported \/ \E x : reported' = (reported \/ x = "handler")
        BY DEF Next, Step, Save, TimingRead, TimingWrite, TakeOver, Expire, Ripen, FinalizerStep,
               ClaimRead, ClaimWrite, SaveRun, WorkRaises, FinishRead, FinishWrite, RecoverySide,
               Send, StageRead, StageWrite, SettleRead, SettleWrite, Crash, vars, recovery
  <2> QED BY <2>1, <2>2 DEF TypeOK
<1>6. faults' \in 0 .. MaxFaults
  <2>1. faults' = faults \/ (faults < MaxFaults /\ faults' = faults + 1)
        BY DEF Next, Step, Save, TimingRead, TimingWrite, TakeOver, Expire, Ripen, FinalizerStep,
               ClaimRead, ClaimWrite, SaveRun, WorkRaises, FinishRead, FinishWrite, RecoverySide,
               Send, StageRead, StageWrite, SettleRead, SettleWrite, Crash, vars
  <2> QED BY <2>1, FaultBound DEF TypeOK
<1>7. enabled' \in BOOLEAN
      BY <1>3 DEF TypeOK
<1>8. /\ doc' \in Docs /\ pc' \in [Writers -> WriterPcs]
      /\ copy' \in [Writers -> Docs \cup {None}] /\ fresh' \subseteq Finalizers /\ Copies'
      BY <1>2 DEF Texts
<1> QED BY <1>1, <1>4, <1>5, <1>6, <1>7, <1>8 DEF TypeOK, WriterPcs

-----------------------------------------------------------------------------
(* Which text replaces the document *)

\* Nobody's text changes, except that x lets its own go.
LetGo(x) == copy' = [copy EXCEPT ![x] = None]

(* A step either keeps what the document says, or writes back a text that was
   held, changed in the keys of its writer alone. *)
LEMMA StepOnTheTexts ==
    ASSUME TypeOK, Copies, [Next]_vars
    PROVE  \/ \E c \in Calls : Save(c)
           \/ /\ copy' = copy \/ \E x \in Writers : LetGo(x)
              /\ \/ doc' = doc
                 \/ doc' = [doc EXCEPT !.ripe = TRUE]
                 \/ RecoverySide /\ ClearOnLeave
                 \/ \E f \in Finalizers : pc[f] = "claiming" /\ doc' = [doc EXCEPT !.job = "processing", !.ripe = FALSE]
                 \/ \E f \in Finalizers :
                       /\ copy[f] \in Docs /\ pc[f] \in {"finishing", "failing"}
                       /\ doc' = Completed(copy[f]) \/ doc' = Failed(copy[f])
                 \/ \E c \in Calls : copy[c] \in Docs /\ doc' = copy[c]
                 \/ Stage /\ copy["worker"] \in Docs /\ Open /\ doc' = copy["worker"]
                 \/ \E x \in RecoveryWriters : \E read, receipt :
                       /\ Settle(read, receipt) /\ copy[x] \in Docs
                       /\ doc' = [copy[x] EXCEPT !.request = FALSE]
           \/ \E x \in Writers :
                 /\ copy' = [copy EXCEPT ![x] = doc] /\ doc' = doc /\ row' = row
                 /\ \/ x \in Calls /\ x \in responded'
                    \/ x \in Finalizers /\ (doc.job # "none" \/ pc[x] # "idle")
                    \/ x \in RecoveryWriters /\ row.status # "generating"
<1>e. \A x \in Writers : pc[x] \notin Textless => copy[x] \in Docs
      BY DEF Copies
<1> USE WritersTyped
<1>1. ASSUME NEW c \in Calls, TimingRead(c), doc.ingress = c
      PROVE  copy' = [copy EXCEPT ![c] = doc] /\ doc' = doc /\ row' = row /\ c \in responded'
      BY <1>1 DEF TimingRead, Read
<1>2. ASSUME NEW c \in Calls, TimingRead(c), doc.ingress # c
      PROVE  copy' = copy /\ doc' = doc
      BY <1>2 DEF TimingRead
<1>3. ASSUME NEW c \in Calls, TimingWrite(c)
      PROVE  LetGo(c) /\ copy[c] \in Docs /\ doc' = copy[c]
      BY <1>3, <1>e DEF TimingWrite, Store, Move, Textless, LetGo
<1>4. CASE TakeOver \/ Expire \/ Send \/ UNCHANGED vars
      BY <1>4 DEF TakeOver, Expire, Send, vars
<1>5. CASE Ripen
      BY <1>5 DEF Ripen
<1>6. ASSUME NEW f \in Finalizers, ClaimRead(f) \/ FinishRead(f)
      PROVE  /\ copy' = [copy EXCEPT ![f] = doc] /\ doc' = doc /\ row' = row
             /\ doc.job # "none" \/ pc[f] # "idle"
      BY <1>6 DEF ClaimRead, FinishRead, Read, OpenJob
<1>7. ASSUME NEW f \in Finalizers, ClaimWrite(f)
      PROVE  /\ LetGo(f)
             /\ doc' = doc \/ (pc[f] = "claiming" /\ doc' = [doc EXCEPT !.job = "processing", !.ripe = FALSE])
      BY <1>7 DEF ClaimWrite, Store, NoStore, Move, LetGo
<1>8. ASSUME NEW f \in Finalizers, SaveRun(f) \/ WorkRaises(f)
      PROVE  LetGo(f) /\ doc' = doc
      BY <1>8 DEF SaveRun, WorkRaises, Store, NoStore, Move, LetGo
<1>9. ASSUME NEW f \in Finalizers, FinishWrite(f)
      PROVE  /\ LetGo(f) /\ copy[f] \in Docs /\ pc[f] \in {"finishing", "failing"}
             /\ doc' = Completed(copy[f]) \/ doc' = Failed(copy[f])
      BY <1>9, <1>e DEF FinishWrite, Store, Move, Textless, LetGo
<1>10. CASE RecoverySide
       BY <1>10 DEF RecoverySide
<1>11. CASE StageRead
  <2>1. copy' = [copy EXCEPT !["worker"] = doc] /\ doc' = doc /\ row' = row /\ row.status # "generating"
        BY <1>11 DEF StageRead, Read, Open
  <2> QED BY <2>1 DEF RecoveryWriters
<1>12. CASE StageWrite
  <2>1. LetGo("worker") /\ Stage /\ (doc' = doc \/ (Open /\ doc' = copy["worker"]))
        BY <1>12 DEF StageWrite, Store, NoStore, Move, LetGo
  <2>2. copy["worker"] \in Docs
        BY <1>12, <1>e DEF StageWrite, Textless
  <2> QED BY <2>1, <2>2
<1>13. ASSUME NEW x \in RecoveryWriters, SettleRead(x)
       PROVE  /\ copy' = [copy EXCEPT ![x] = doc] /\ doc' = doc /\ row' = row
              /\ row.status # "generating"
       BY <1>13 DEF SettleRead, Read, Claimed, Finalizable
<1>14. ASSUME NEW x \in RecoveryWriters, SettleWrite(x)
       PROVE  /\ LetGo(x) /\ copy[x] \in Docs
              /\ \/ doc' = doc
                 \/ Settle(pc[x], outcome) /\ doc' = [copy[x] EXCEPT !.request = FALSE]
       BY <1>14, <1>e DEF SettleWrite, Store, NoStore, Move, Finalizable, Textless, LetGo
<1>15. ASSUME NEW x \in Writers, Crash(x)
       PROVE  LetGo(x) /\ doc' = doc
       BY <1>15 DEF Crash, NoStore, Move, LetGo
<1> QED BY <1>1, <1>2, <1>3, <1>4, <1>5, <1>6, <1>7, <1>8, <1>9, <1>10, <1>11, <1>12, <1>13,
           <1>14, <1>15 DEF Next, Step, FinalizerStep

-----------------------------------------------------------------------------
(* The request *)

LEMMA NextRequested ==
    ASSUME RInv, [Next]_vars
    PROVE  Requested'
<1> SUFFICES ASSUME MayRecover'
             PROVE  doc'.request /\ \A x \in Writers : copy'[x] # None => copy'[x].request
    BY DEF Requested, Held
<1>a. TypeOK /\ Copies /\ row \in Rows /\ doc \in Docs /\ copy \in [Writers -> Docs \cup {None}]
      BY DEF RInv, TypeOK
<1>b. MayRecover /\ doc.request /\ \A x \in Writers : copy[x] # None => copy[x].request
      BY <1>a, StepOnTheRow, RowMovesOn DEF RInv, Requested, Held
<1>c. ASSUME copy' = copy \/ \E x \in Writers : LetGo(x)
      PROVE  \A x \in Writers : copy'[x] # None => copy'[x].request
      BY <1>a, <1>b, <1>c DEF LetGo
<1>d. \A x \in Writers : copy[x] \in Docs => copy[x].request
      BY <1>b, NoneIsNoDoc
<1>1. ASSUME NEW c \in Calls, Save(c)
      PROVE  doc'.request /\ copy' = copy
  <2>1. PICK kind \in Kinds, ingress \in {doc.ingress, c} :
           /\ SavePrimary([by |-> c, kind |-> kind], enabled)
           /\ Store([NewDoc(ingress) EXCEPT
                       !.answer = TRUE, !.job = "pending", !.ripe = TRUE, !.payload = TRUE,
                       !.request = doc.request /\ SavedStatus(kind, enabled) = "fallback_pending"])
        BY <1>1 DEF Save
  <2>2. SavedStatus(kind, enabled) = "fallback_pending"
        BY <1>a, <2>1, SavedRow DEF MayRecover, Open
  <2>3. doc'.request <=> (doc.request /\ SavedStatus(kind, enabled) = "fallback_pending")
        BY <2>1 DEF Store, NewDoc
  <2> QED BY <1>1, <1>b, <2>2, <2>3 DEF Save
<1>2. ASSUME RecoverySide, ClearOnLeave PROVE doc' = doc
      BY <1>2 DEF ClearOnLeave, NoStore, Store, MayRecover, Open
<1>3. ASSUME NEW read_, NEW receipt, Settle(read_, receipt) PROVE FALSE
      BY <1>3, <1>a DEF Settle, Settled, MayRecover, Open, Rows
<1>4. ~(Stage /\ Open)
      BY <1>a DEF Stage, MayRecover, Open, Rows
<1>5. ASSUME NEW x \in Writers, copy[x] \in Docs, copy[x].request,
             doc' = Completed(copy[x]) \/ doc' = Failed(copy[x]) \/ doc' = copy[x]
      PROVE  doc'.request
      BY <1>5 DEF Completed, Failed, Docs
<1>6. ASSUME \/ doc' = doc
             \/ doc' = [doc EXCEPT !.ripe = TRUE]
             \/ doc' = [doc EXCEPT !.job = "processing", !.ripe = FALSE]
      PROVE  doc'.request
      BY <1>6, <1>a, <1>b DEF Docs
<1>7. CASE \E c \in Calls : Save(c)
      BY <1>b, <1>1, <1>7
<1>8. CASE \E x \in Writers : copy' = [copy EXCEPT ![x] = doc] /\ doc' = doc
      BY <1>a, <1>b, <1>8
<1>9. CASE /\ copy' = copy \/ \E x \in Writers : LetGo(x)
           /\ \/ doc' = doc
              \/ doc' = [doc EXCEPT !.ripe = TRUE]
              \/ doc' = [doc EXCEPT !.job = "processing", !.ripe = FALSE]
              \/ \E x \in Writers : /\ copy[x] \in Docs
                                    /\ \/ doc' = Completed(copy[x])
                                       \/ doc' = Failed(copy[x])
                                       \/ doc' = copy[x]
      BY <1>c, <1>d, <1>5, <1>6, <1>9
<1> QED BY <1>a, <1>2, <1>3, <1>4, <1>7, <1>8, <1>9, WritersTyped, StepOnTheTexts

-----------------------------------------------------------------------------
(* The answer *)

(* A finalizer starts on a job, and calls do not come back. *)
LEMMA WhoStarts ==
    ASSUME TypeOK, [Next]_vars
    PROVE  /\ \A f \in Finalizers : pc'[f] # "idle" => pc[f] # "idle" \/ doc.job # "none"
           /\ responded \subseteq responded'
<1>1. responded \subseteq responded'
      BY DEF Next, Step, Save, TimingRead, TimingWrite, TakeOver, Expire, Ripen, FinalizerStep,
             ClaimRead, ClaimWrite, SaveRun, WorkRaises, FinishRead, FinishWrite, RecoverySide,
             Send, StageRead, StageWrite, SettleRead, SettleWrite, Crash, vars
<1>2. ASSUME NEW f \in Finalizers, pc'[f] # "idle", pc[f] = "idle" PROVE doc.job # "none"
  <2>1. \A x \in Writers : \A where : pc' = [pc EXCEPT ![x] = where] => x = f
        BY <1>2 DEF TypeOK
  <2>2. f \notin Calls /\ f \notin RecoveryWriters /\ f \in Writers /\ pc' # pc
        BY <1>2, WritersDiffer DEF Writers
  <2>3. \A c \in Calls : ~TimingRead(c) /\ ~TimingWrite(c)
        BY <2>1, <2>2, WritersTyped DEF TimingRead, TimingWrite, Read, Move
  <2>4. /\ ~StageRead /\ ~StageWrite
        /\ \A x \in RecoveryWriters : ~SettleRead(x) /\ ~SettleWrite(x)
        BY <2>1, <2>2, WritersTyped
        DEF StageRead, StageWrite, SettleRead, SettleWrite, Read, Move, RecoveryWriters
  <2>5. \A x \in Writers : ~Crash(x)
        BY <1>2, <2>1 DEF Crash, Move, TypeOK
  <2>6. PICK g \in Finalizers : FinalizerStep(g)
        BY <2>2, <2>3, <2>4, <2>5
        DEF Next, Step, Save, TakeOver, Expire, Ripen, RecoverySide, Send, vars
  <2>7. g = f
        BY <2>1, <2>6, WritersTyped DEF FinalizerStep, ClaimRead, ClaimWrite, SaveRun, WorkRaises,
                                       FinishRead, FinishWrite, Read, Move
  <2> QED BY <1>2, <2>6, <2>7 DEF FinalizerStep, ClaimRead, ClaimWrite, SaveRun, WorkRaises,
                                  FinishRead, FinishWrite, OpenJob
<1> QED BY <1>1, <1>2

LEMMA NextAnswered ==
    ASSUME OneCall, AInv, [Next]_vars
    PROVE  Answered'
<1> USE WritersTyped
<1>a. TypeOK /\ Copies /\ row \in Rows /\ doc \in Docs /\ copy \in [Writers -> Docs \cup {None}]
      BY DEF AInv, TypeOK
<1>b. Answered
      BY DEF AInv
<1>1. ASSUME NEW c \in Calls, Save(c) PROVE Answered'
  <2>1. PICK kind \in Kinds, ingress \in {doc.ingress, c} :
           /\ SavePrimary([by |-> c, kind |-> kind], enabled)
           /\ Store([NewDoc(ingress) EXCEPT
                       !.answer = TRUE, !.job = "pending", !.ripe = TRUE, !.payload = TRUE,
                       !.request = doc.request /\ SavedStatus(kind, enabled) = "fallback_pending"])
        BY <1>1 DEF Save
  <2>2. row'.snap # None /\ row'.status # "generating"
        BY <1>a, <2>1, SavedRow
  <2>3. row.status = "generating" /\ row.snap = None /\ c \notin responded
        BY <1>1, <1>b DEF Save, Owns, Answered
  <2>4. \A x \in Writers : copy[x] = None
    <3>1. \A d \in Calls : copy[d] = None
          BY <1>b, <2>3 DEF OneCall, Answered, Held
    <3>2. \A x \in RecoveryWriters \cup Finalizers : copy[x] = None
          BY <1>b, <2>3 DEF Answered, Held
    <3> QED BY <3>1, <3>2 DEF Writers
  <2>5. doc'.answer
        BY <2>1 DEF Store, NewDoc
  <2>6. UNCHANGED <<pc, copy, responded>>
        BY <1>1 DEF Save
  <2> QED BY <2>2, <2>4, <2>5, <2>6 DEF Answered, SaysAll, Held
<1>2. CASE Unsaved /\ ~\E c \in Calls : Save(c)
  <2>1. /\ row'.snap = row.snap
        /\ row'.status = "generating" => row.status = "generating"
        BY <1>a, <1>2, UnsavedKeepsSnapshot, RowMovesOn DEF RowStep
  <2>2. \A d : (row'.snap # None => d.answer) /\ (d.job # "none" \/ d.payload => row'.snap # None)
               <=> SaysAll(d)
        BY <2>1 DEF SaysAll
  <2>3. \A f \in Finalizers : pc'[f] # "idle" => row'.snap # None
        BY <1>a, <1>b, <2>1, WhoStarts DEF Answered, SaysAll
  <2>4. responded \subseteq responded'
        BY <1>a, WhoStarts
  <2>5. \A x \in Writers : copy[x] \in Docs => SaysAll(copy[x])
        BY <1>b, NoneIsNoDoc DEF Answered, Held
  <2>6. ASSUME \/ doc' = doc
               \/ doc' = [doc EXCEPT !.ripe = TRUE]
               \/ RecoverySide /\ ClearOnLeave
        PROVE  SaysAll(doc')
        BY <1>a, <1>b, <2>6 DEF Answered, SaysAll, ClearOnLeave, Store, NoStore, Docs
  <2>7. ASSUME NEW f \in Finalizers, pc[f] = "claiming",
               doc' = [doc EXCEPT !.job = "processing", !.ripe = FALSE]
        PROVE  SaysAll(doc')
        BY <1>a, <1>b, <2>7 DEF Answered, SaysAll, Docs
  <2>8. ASSUME NEW f \in Finalizers, copy[f] \in Docs, pc[f] \in {"finishing", "failing"},
               doc' = Completed(copy[f]) \/ doc' = Failed(copy[f])
        PROVE  SaysAll(doc')
    <3>1. row.snap # None /\ copy[f].answer
          BY <1>b, <2>5, <2>8 DEF Answered, SaysAll
    <3> QED BY <2>8, <3>1 DEF SaysAll, Completed, Failed, Docs
  <2>9. ASSUME NEW x \in Writers, copy[x] \in Docs,
               doc' = copy[x] \/ doc' = [copy[x] EXCEPT !.request = FALSE]
        PROVE  SaysAll(doc')
        BY <2>5, <2>9 DEF SaysAll, Docs
  <2>10. CASE copy' = copy \/ \E x \in Writers : LetGo(x)
    <3>1. \A x \in Writers : copy'[x] # None => copy[x] # None /\ copy'[x] = copy[x]
          BY <1>a, <2>10 DEF LetGo
    <3>2. \A x \in Writers : copy'[x] # None => SaysAll(copy'[x])
          BY <1>b, <3>1 DEF Answered, Held
    <3>3. \/ SaysAll(doc')
          \/ \E x \in Writers : copy' = [copy EXCEPT ![x] = doc] /\ doc' = doc
          BY <1>a, <1>2, <2>6, <2>7, <2>8, <2>9, StepOnTheTexts
    <3>4. SaysAll(doc')
          BY <2>6, <3>3
    <3>5. /\ \A x \in RecoveryWriters : copy'[x] # None => row'.status # "generating"
          /\ \A f \in Finalizers : copy'[f] # None => row'.snap # None
          /\ \A c \in Calls : copy'[c] # None => c \in responded'
          BY <1>b, <2>1, <2>4, <3>1 DEF Answered, Held
    <3> QED BY <1>b, <2>1, <2>3, <2>2, <3>2, <3>4, <3>5 DEF Answered, SaysAll, Held
  <2>11. ASSUME NEW x \in Writers,
                copy' = [copy EXCEPT ![x] = doc], doc' = doc, row' = row,
                \/ x \in Calls /\ x \in responded'
                \/ x \in Finalizers /\ (doc.job # "none" \/ pc[x] # "idle")
                \/ x \in RecoveryWriters /\ row.status # "generating"
         PROVE  Answered'
    <3>1. \A y \in Writers : copy'[y] = (IF y = x THEN doc ELSE copy[y])
          BY <1>a, <2>11
    <3>2. \A y \in Writers : copy'[y] # None => SaysAll(copy'[y])
          BY <1>b, <3>1 DEF Answered, Held
    <3>3. \A y \in RecoveryWriters : copy'[y] # None => row'.status # "generating"
          BY <1>b, <2>11, <3>1, WritersDiffer DEF Answered, Held
    <3>4. \A f \in Finalizers : copy'[f] # None => row'.snap # None
          BY <1>b, <2>11, <3>1, WritersDiffer DEF Answered, SaysAll, Held
    <3>5. \A c \in Calls : copy'[c] # None => c \in responded'
          BY <1>b, <2>4, <2>11, <3>1, WritersDiffer DEF Answered, Held
    <3> QED BY <1>b, <2>1, <2>3, <2>2, <2>11, <3>2, <3>3, <3>4, <3>5 DEF Answered, SaysAll, Held
  <2> QED BY <1>a, <1>2, <2>10, <2>11, StepOnTheTexts
<1> QED BY <1>1, <1>2, StepOnTheRow

-----------------------------------------------------------------------------
(* The job of a run whose recovery is off *)

OneFinalizer == \A f, g \in Finalizers : f = g

\* With recovery off the run only waits for its answer, and none of the writers
\* of the recovery has anything to do.
RecoveryIsOff ==
    /\ row.status \in {"generating", "completed"}
    /\ outcome = "none"
    /\ \A x \in RecoveryWriters : pc[x] = "idle"

IsOpen(d) == d.job \in OpenJob

\* The finalizer works on an open job, also when the timing of the call puts an
\* older text back: a text in which the job is over is read only after the
\* finalizer ended it.
Jobs ==
    /\ IsOpen(doc) => doc.payload
    /\ \A x \in Writers : Held(x) /\ IsOpen(copy[x]) => copy[x].payload
    /\ \A f \in Finalizers :
          /\ pc[f] \notin {"idle", "claiming"} => IsOpen(doc)
          /\ pc[f] = "claiming" /\ f \in fresh => IsOpen(doc)
          /\ Held(f) => IsOpen(copy[f])
    /\ \A c \in Calls : Held(c) /\ ~IsOpen(copy[c]) => ~IsOpen(doc)

JInv == AInv /\ (~enabled => RecoveryIsOff /\ Jobs)

(* With recovery off, a job that is not over has its payload, so that it can *)
(* be claimed again after every failure and crash.                           *)
OpenJobHasPayload == ~enabled /\ doc.job \in OpenJob => doc.payload

LEMMA NextOff ==
    ASSUME TypeOK, ~enabled, RecoveryIsOff, [Next]_vars
    PROVE  ~enabled' /\ RecoveryIsOff'
<1> USE WritersTyped
<1>a. /\ row \in Rows /\ row.status \in {"generating", "completed"} /\ outcome = "none"
      /\ pc["worker"] = "idle" /\ pc["handler"] = "idle"
      BY DEF TypeOK, RecoveryIsOff, RecoveryWriters
<1>b. enabled' = enabled
      BY DEF Next, vars
<1> SUFFICES RecoveryIsOff'
    BY <1>b
<1>c. ~Open /\ ~Claimed
      BY <1>a DEF Open, Claimed
<1>1. /\ ~RecoverySide /\ ~Send /\ ~StageRead /\ ~StageWrite
      /\ \A x \in RecoveryWriters : ~SettleRead(x) /\ ~SettleWrite(x)
      BY <1>a, <1>c DEF RecoverySide, Send, StageRead, StageWrite, SettleRead, SettleWrite,
                        RecoveryWriters, Finalizable
<1>2. ASSUME NEW c \in Calls, Save(c) PROVE RecoveryIsOff'
  <2>1. PICK kind \in Kinds : SavePrimary([by |-> c, kind |-> kind], enabled)
        BY <1>2 DEF Save
  <2>2. row'.status = "completed"
        BY <1>a, <2>1 DEF SavePrimary, SavedStatus, Rows
  <2> QED BY <1>2, <1>a, <2>2 DEF Save, recovery, RecoveryIsOff
<1>3. CASE TakeOver \/ Expire
  <2>1. \A c : Reclaim(c) \/ DeadlinePasses => row'.status = row.status
        BY <1>a DEF Reclaim, DeadlinePasses, Rows
  <2>2. row'.status = row.status
        BY <1>3, <2>1 DEF TakeOver, Expire
  <2> QED BY <1>3, <1>a, <2>2 DEF TakeOver, Expire, recovery, RecoveryIsOff
<1>4. ASSUME UNCHANGED <<row, recovery>>, NEW x \in Writers, NEW where,
             where = "idle" \/ x \notin RecoveryWriters,
             pc' = pc \/ pc' = [pc EXCEPT ![x] = where]
      PROVE  RecoveryIsOff'
      BY <1>4, <1>a DEF TypeOK, recovery, RecoveryIsOff, RecoveryWriters
<1>5. ASSUME NEW c \in Calls, TimingRead(c) \/ TimingWrite(c) PROVE RecoveryIsOff'
  <2>1. c \notin RecoveryWriters
        BY WritersDiffer
  <2> QED BY <1>4, <1>5, <2>1 DEF TimingRead, TimingWrite, Read, Move
<1>6. ASSUME NEW f \in Finalizers, FinalizerStep(f) PROVE RecoveryIsOff'
  <2>1. f \notin RecoveryWriters
        BY WritersDiffer
  <2> QED BY <1>4, <1>6, <2>1 DEF FinalizerStep, ClaimRead, ClaimWrite, SaveRun, WorkRaises,
                                  FinishRead, FinishWrite, Read, Move
<1>7. CASE Ripen \/ UNCHANGED vars
  <2>1. UNCHANGED <<row, recovery, pc>>
        BY <1>7 DEF Ripen, vars
  <2> QED BY <1>a, <2>1 DEF recovery, RecoveryIsOff, RecoveryWriters
<1>8. ASSUME NEW x \in Writers, Crash(x) PROVE RecoveryIsOff'
      BY <1>4, <1>8 DEF Crash, Move
<1> QED BY <1>1, <1>2, <1>3, <1>5, <1>6, <1>7, <1>8 DEF Next, Step

\* What the last write of a finalizer does to its job.
LEMMA JobEnds ==
    ASSUME NEW d \in Docs
    PROVE  /\ ~IsOpen(Completed(d))
           /\ Failed(d).payload = d.payload
           /\ IsOpen([d EXCEPT !.job = "processing", !.ripe = FALSE])
           /\ [d EXCEPT !.job = "processing", !.ripe = FALSE].payload = d.payload
           /\ IsOpen([d EXCEPT !.ripe = TRUE]) <=> IsOpen(d)
           /\ [d EXCEPT !.ripe = TRUE].payload = d.payload
  BY DEF IsOpen, OpenJob, Completed, Failed, Docs

LEMMA NextJobs ==
    ASSUME OneCall, OneFinalizer, AInv, ~enabled, RecoveryIsOff, Jobs, [Next]_vars
    PROVE  Jobs'
<1> USE WritersTyped
<1>a. /\ TypeOK /\ doc \in Docs /\ pc \in [Writers -> WriterPcs]
      /\ copy \in [Writers -> Docs \cup {None}] /\ fresh \subseteq Finalizers
      BY DEF AInv, TypeOK, WriterPcs
<1>b. /\ \A x \in Writers : pc[x] \notin Textless => copy[x] \in Docs
      /\ \A c \in Calls : copy[c] # None => c \in responded
      /\ \A f \in Finalizers : copy[f] # None \/ pc[f] # "idle" => row.snap # None
      /\ row.status = "generating" => row.snap = None
      BY DEF AInv, Copies, Answered, Held
<1>c. /\ IsOpen(doc) => doc.payload
      /\ \A x \in Writers : copy[x] # None /\ IsOpen(copy[x]) => copy[x].payload
      /\ \A f \in Finalizers : /\ pc[f] \notin {"idle", "claiming"} => IsOpen(doc)
                               /\ pc[f] = "claiming" /\ f \in fresh => IsOpen(doc)
                               /\ copy[f] # None => IsOpen(copy[f])
      /\ \A c \in Calls : copy[c] # None /\ ~IsOpen(copy[c]) => ~IsOpen(doc)
      BY DEF Jobs, Held
<1>d. Calls \cap Finalizers = {}
      BY WritersDiffer
<1>1. ASSUME NEW c \in Calls, Save(c) PROVE Jobs'
  <2>1. /\ doc'.job = "pending" /\ doc'.payload /\ fresh' = {} /\ UNCHANGED <<pc, copy>>
        /\ c \notin responded /\ row.status = "generating"
        BY <1>1 DEF Save, Store, NewDoc, Owns
  <2>2. \A d \in Calls : copy[d] = None
        BY <1>b, <2>1 DEF OneCall
  <2>3. \A f \in Finalizers : copy[f] = None /\ pc[f] = "idle"
        BY <1>b, <2>1
  <2> QED BY <1>c, <2>1, <2>2, <2>3 DEF Jobs, Held, IsOpen, OpenJob
<1>2. CASE TakeOver \/ Expire \/ UNCHANGED vars
      BY <1>2, <1>c DEF TakeOver, Expire, vars, Jobs, Held, IsOpen
<1>3. ASSUME NEW c \in Calls, TimingRead(c), doc.ingress = c PROVE Jobs'
  <2>1. /\ doc' = doc /\ fresh' = fresh
        /\ pc' = [pc EXCEPT ![c] = "read"] /\ copy' = [copy EXCEPT ![c] = doc]
        BY <1>3, <1>d DEF TimingRead, Read
  <2>2. \A y \in Writers : /\ copy'[y] = (IF y = c THEN doc ELSE copy[y])
                           /\ y # c => pc'[y] = pc[y]
        BY <1>a, <2>1
  <2> QED BY <1>c, <1>d, <2>1, <2>2 DEF Jobs, Held, IsOpen
<1>4. ASSUME NEW c \in Calls, TimingRead(c), doc.ingress # c PROVE Jobs'
      BY <1>4, <1>c DEF TimingRead, Jobs, Held, IsOpen
<1>5. ASSUME NEW c \in Calls, TimingWrite(c) PROVE Jobs'
  <2>1. /\ copy[c] \in Docs /\ doc' = copy[c] /\ fresh' = {}
        /\ pc' = [pc EXCEPT ![c] = "idle"] /\ copy' = [copy EXCEPT ![c] = None]
        BY <1>5, <1>b DEF TimingWrite, Store, Move, Textless
  <2>2. copy[c] # None
        BY <2>1, NoneIsNoDoc
  <2>3. \A y \in Writers : /\ copy'[y] = (IF y = c THEN None ELSE copy[y])
                           /\ y # c => pc'[y] = pc[y]
        BY <1>a, <2>1
  <2>4. \A d \in Calls : copy'[d] = None
        BY <2>3 DEF OneCall
  <2>5. IsOpen(doc) => IsOpen(doc')
        BY <1>c, <2>1, <2>2
  <2> QED BY <1>c, <1>d, <2>1, <2>2, <2>3, <2>4, <2>5 DEF Jobs, Held, IsOpen
<1>6. ASSUME NEW f \in Finalizers, FinalizerStep(f) PROVE Jobs'
  <2>a. ASSUME NEW where,
               pc' = [pc EXCEPT ![f] = where] 
        PROVE  /\ pc'[f] = where /\ \A y \in Writers : y # f => pc'[y] = pc[y]
        BY <1>a, <2>a
  <2>b. \A g \in Finalizers : g = f
        BY DEF OneFinalizer
  <2>c. \A c \in Calls : c # f
        BY <1>d
  <2>1. ASSUME NEW where, pc' = [pc EXCEPT ![f] = where], copy' = [copy EXCEPT ![f] = doc],
               doc' = doc, IsOpen(doc)
        PROVE  Jobs'
    <3>1. \A y \in Writers : copy'[y] = (IF y = f THEN doc ELSE copy[y])
          BY <1>a, <2>1
    <3> QED BY <1>c, <2>a, <2>b, <2>c, <2>1, <3>1 DEF Jobs, Held, IsOpen
  <2>2. ASSUME NEW where, pc' = [pc EXCEPT ![f] = where], copy' = [copy EXCEPT ![f] = None],
               where # "claiming", where # "idle" => IsOpen(doc'),
               IsOpen(doc') => doc'.payload, IsOpen(doc') => IsOpen(doc)
        PROVE  Jobs'
    <3>1. \A y \in Writers : copy'[y] = (IF y = f THEN None ELSE copy[y])
          BY <1>a, <2>2
    <3>2. \A y \in Writers : copy'[y] # None /\ IsOpen(copy'[y]) => copy'[y].payload
          BY <1>c, <3>1
    <3>3. \A c \in Calls : copy'[c] # None /\ ~IsOpen(copy'[c]) => ~IsOpen(doc')
          BY <1>c, <2>c, <2>2, <3>1
    <3>4. /\ pc'[f] # "claiming" /\ copy'[f] = None
          /\ pc'[f] # "idle" => IsOpen(doc')
          BY <2>a, <2>2, <3>1
    <3> QED BY <2>b, <2>2, <3>2, <3>3, <3>4 DEF Jobs, Held, IsOpen
  <2>3. CASE ClaimRead(f) \/ FinishRead(f)
        BY <1>c, <2>1, <2>3 DEF ClaimRead, FinishRead, Read, IsOpen
  <2>4. CASE ClaimWrite(f)
    <3>1. CASE f \in fresh
      <4>1. /\ IsOpen(doc) /\ doc.payload
            /\ doc' = [doc EXCEPT !.job = "processing", !.ripe = FALSE]
            /\ Move(f, "work")
            BY <1>c, <2>4, <3>1 DEF ClaimWrite, Store
      <4>2. IsOpen(doc') /\ doc'.payload
            BY <1>a, <4>1, JobEnds
      <4> QED BY <2>2, <4>1, <4>2 DEF Move
    <3>2. CASE f \notin fresh
          BY <1>c, <2>2, <2>4, <3>2 DEF ClaimWrite, NoStore, Move
    <3> QED BY <3>1, <3>2
  <2>5. CASE SaveRun(f) \/ WorkRaises(f)
    <3>1. doc' = doc /\ pc[f] \in {"work", "finish"}
          BY <2>5 DEF SaveRun, WorkRaises, Store, NoStore
    <3> QED BY <1>c, <2>2, <2>5, <3>1 DEF SaveRun, WorkRaises, Move
  <2>6. CASE FinishWrite(f)
    <3>1. pc[f] \in {"finishing", "failing"} /\ copy[f] \in Docs /\ copy[f] # None
          BY <1>b, <2>6, NoneIsNoDoc DEF FinishWrite, Textless
    <3>2. IsOpen(doc) /\ copy[f].payload
          BY <1>c, <3>1
    <3>3. doc' = Completed(copy[f]) \/ doc' = Failed(copy[f])
          BY <2>6 DEF FinishWrite, Store
    <3>4. IsOpen(doc') => doc'.payload
      <4>1. CASE doc' = Completed(copy[f])
            BY <3>1, <4>1, JobEnds
      <4>2. CASE doc' = Failed(copy[f])
            BY <3>1, <3>2, <4>2, JobEnds
      <4> QED BY <3>3, <4>1, <4>2
    <3> QED BY <2>2, <2>6, <3>2, <3>4 DEF FinishWrite, Move
  <2> QED BY <1>6, <2>3, <2>4, <2>5, <2>6 DEF FinalizerStep
<1>7. CASE Ripen
  <2>1. (IsOpen(doc') <=> IsOpen(doc)) /\ doc'.payload = doc.payload /\ UNCHANGED <<pc, copy, fresh>>
        BY <1>7, <1>a, JobEnds DEF Ripen
  <2> QED BY <1>c, <2>1 DEF Jobs, Held, IsOpen
<1>8. ASSUME NEW x \in Writers, Crash(x) PROVE Jobs'
  <2>1. /\ doc' = doc /\ fresh' = fresh
        /\ pc' = [pc EXCEPT ![x] = "idle"] /\ copy' = [copy EXCEPT ![x] = None]
        BY <1>8 DEF Crash, NoStore, Move
  <2>2. \A y \in Writers : /\ copy'[y] = (IF y = x THEN None ELSE copy[y])
                           /\ pc'[y] = (IF y = x THEN "idle" ELSE pc[y])
        BY <1>a, <2>1
  <2> QED BY <1>c, <2>1, <2>2 DEF Jobs, Held, IsOpen
<1>9. /\ ~RecoverySide /\ ~Send /\ ~StageRead /\ ~StageWrite
      /\ \A x \in RecoveryWriters : ~SettleRead(x) /\ ~SettleWrite(x)
      BY DEF RecoveryIsOff, Open, Claimed, RecoverySide, Send, StageRead, StageWrite, SettleRead,
             SettleWrite, RecoveryWriters, Finalizable
<1> QED BY <1>1, <1>2, <1>3, <1>4, <1>5, <1>6, <1>7, <1>8, <1>9 DEF Next, Step

-----------------------------------------------------------------------------
(* The theorems *)

LEMMA InitTyped == Init => TypeOK /\ Copies
<1> SUFFICES ASSUME Init PROVE TypeOK /\ Copies
    OBVIOUS
<1>1. PICK c \in Calls : /\ row = [NoRow EXCEPT !.status = "generating", !.owner = c]
                         /\ doc = NewDoc(c)
      BY DEF Init
<1>2. NoRow \in Rows
      BY MaxAttemptsPositive DEF NoRow, Rows, Statuses
<1>3. row \in Rows /\ doc \in Docs
      BY <1>1, <1>2, NewDocTyped DEF Rows, Statuses
<1>4. /\ pc \in [Writers -> WriterPcs] /\ copy \in [Writers -> Docs \cup {None}]
      /\ \A x \in Writers : pc[x] = "idle"
      BY DEF Init, WriterPcs
<1>5. /\ enabled \in BOOLEAN /\ fresh \subseteq Finalizers /\ responded \subseteq Calls
      /\ outcome \in Receipts \cup {"none"} /\ reported \in BOOLEAN
      BY DEF Init
<1>6. faults \in 0 .. MaxFaults
  <2>1. faults = 0
        BY DEF Init
  <2> QED BY <2>1, FaultBound
<1>7. TypeOK
      BY <1>3, <1>4, <1>5, <1>6 DEF TypeOK, WriterPcs
<1> QED BY <1>4, <1>7 DEF Copies, Textless

LEMMA InitDocument ==
    ASSUME Init
    PROVE  /\ doc.request /\ doc.job = "none" /\ ~doc.payload
           /\ row.status = "generating" /\ row.snap = None
           /\ \A x \in Writers : pc[x] = "idle" /\ copy[x] = None
<1>1. PICK c \in Calls : /\ row = [NoRow EXCEPT !.status = "generating", !.owner = c]
                         /\ doc = NewDoc(c)
      BY DEF Init
<1>2. row.status = "generating" /\ row.snap = None
      BY <1>1 DEF NoRow
<1>3. doc.request /\ doc.job = "none" /\ ~doc.payload
      BY <1>1 DEF NewDoc
<1>4. \A x \in Writers : pc[x] = "idle" /\ copy[x] = None
      BY DEF Init
<1> QED BY <1>2, <1>3, <1>4

(* The types, the texts that are about to be written back included. *)
THEOREM TypeCorrect == Spec => []TypeOK
<1>1. TypeOK /\ Copies /\ [Next]_vars => (TypeOK /\ Copies)'
      BY NextTypeOK
<1> QED BY <1>1, InitTyped, PTL DEF Spec

(* As long as the recovery may generate, the document has the request. *)
THEOREM RequestStays == Spec => []RecoveryRequestIsKept
<1>1. Init => RInv
      BY InitTyped, InitDocument DEF RInv, Requested, Held
<1>2. RInv /\ [Next]_vars => RInv'
      BY NextTypeOK, NextRequested DEF RInv
<1>3. RInv => RecoveryRequestIsKept
      BY DEF RInv, Requested, MayRecover, RecoveryRequestIsKept
<1> QED BY <1>1, <1>2, <1>3, PTL DEF Spec

(* The answer of a message that one call asks for stays in the document. *)
THEOREM AnswerStays ==
    ASSUME OneCall
    PROVE  Spec => []AnswerIsKept
<1>1. ASSUME Init PROVE AInv
  <2>1. SaysAll(doc) /\ \A x \in Writers : ~Held(x) /\ pc[x] = "idle"
        BY <1>1, InitDocument DEF SaysAll, Held
  <2> QED BY <1>1, <2>1, InitTyped, InitDocument, WritersTyped DEF AInv, Answered
<1>2. AInv /\ [Next]_vars => AInv'
      BY NextTypeOK, NextAnswered DEF AInv
<1>3. AInv => AnswerIsKept
      BY DEF AInv, Answered, SaysAll, AnswerIsKept
<1> QED BY <1>1, <1>2, <1>3, PTL DEF Spec

(* With recovery off, one finalization worker and a message that one call   *)
(* asks for, a job that is not over can be claimed again: it has its        *)
(* payload, whatever the timing of the call writes back meanwhile.  Without *)
(* this FinalizationSettles would be lost for good.                         *)
THEOREM OpenJobCanBeClaimed ==
    ASSUME OneCall, OneFinalizer
    PROVE  Spec => []OpenJobHasPayload
<1>1. ASSUME Init PROVE JInv
  <2>1. SaysAll(doc) /\ \A x \in Writers : ~Held(x) /\ pc[x] = "idle"
        BY <1>1, InitDocument DEF SaysAll, Held
  <2>2. AInv
        BY <1>1, <2>1, InitTyped, InitDocument, WritersTyped DEF AInv, Answered
  <2>3. RecoveryIsOff
        BY <1>1, <2>1, InitDocument, WritersTyped DEF Init, RecoveryIsOff
  <2>4. Jobs
        BY <1>1, <2>1, InitDocument, WritersTyped DEF Jobs, IsOpen, OpenJob
  <2> QED BY <2>2, <2>3, <2>4 DEF JInv
<1>2. JInv /\ [Next]_vars => JInv'
  <2>1. AInv /\ [Next]_vars => AInv'
        BY NextTypeOK, NextAnswered DEF AInv
  <2>2. AInv => TypeOK
        BY DEF AInv
  <2>3. [Next]_vars => enabled' = enabled
        BY DEF Next, vars
  <2> QED BY <2>1, <2>2, <2>3, NextOff, NextJobs DEF JInv
<1>3. JInv => OpenJobHasPayload
      BY DEF JInv, Jobs, IsOpen, OpenJobHasPayload
<1> QED BY <1>1, <1>2, <1>3, PTL DEF Spec
=============================================================================
