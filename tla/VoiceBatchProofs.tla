-------------------------- MODULE VoiceBatchProofs --------------------------
(***************************************************************************)
(* Voice batches change what a call asks and when it comes, and nothing    *)
(* else the coordinator relies on: VoiceSpec implements the coordinator's  *)
(* own specification, and with it everything proved of that holds of the   *)
(* two together.  What is true of the two together only, because a batch   *)
(* opens once and is asked whole (AnsweredTwiceOnlyIfSuperseded,           *)
(* NoMessageIsForgotten), has invariants of its own.                       *)
(***************************************************************************)
EXTENDS VoiceBatch, ReplyCoordinatorProofs

VoiceTyped ==
    /\ voice \in [Calls -> Tickets \cup {None}]
    /\ open \in [Processes -> Calls \cup {None}]
    /\ ready \subseteq Calls

(* None is not a ticket: tickets are records of a call and a process. *)
LEMMA TicketFacts ==
    ASSUME VoiceTyped, NEW c \in Calls, voice[c] # None
    PROVE  /\ voice[c] \in Tickets /\ voice[c].msg \in Voices
           /\ voice[c].at \in Processes /\ voice[c].batch \in Calls
  BY DEF VoiceTyped, Tickets

(* Every step keeps the types of tickets and batches. *)
LEMMA VoiceTypeStep == VoiceTyped /\ [VoiceNext]_allVars => VoiceTyped'
<1> SUFFICES ASSUME VoiceTyped, [VoiceNext]_allVars PROVE VoiceTyped'
    OBVIOUS
<1> USE DEF VoiceTyped
<1>1. ASSUME NEW c \in Calls, Register(c) PROVE VoiceTyped'
      BY <1>1 DEF Register, Tickets
<1>2. ASSUME NEW c \in Calls, NEW how \in {"joined", "lost"}, Waiting(c), Leave(c, how)
      PROVE  voice' \in [Calls -> Tickets \cup {None}]
  <2>1. voice[c] \in Tickets
        BY <1>2, TicketFacts DEF Waiting
  <2>2. [voice[c] EXCEPT !.left = how] \in Tickets
        BY <2>1 DEF Tickets
  <2> QED BY <1>2, <2>2 DEF Leave
<1>3. ASSUME NEW c \in Calls, Proceed(c) PROVE VoiceTyped'
      BY <1>2, <1>3 DEF Proceed
<1>4. ASSUME NEW c \in Calls, Cancel(c) PROVE VoiceTyped'
      BY <1>2, <1>4 DEF Cancel
<1>5. ASSUME NEW b \in Calls, Resolve(b) PROVE VoiceTyped'
      BY <1>5 DEF Resolve
<1>6. ASSUME NEW p \in Processes, Close(p) PROVE VoiceTyped'
      BY <1>6 DEF Close
<1>7. ASSUME NEW p \in Processes, VoiceCrash(p) PROVE VoiceTyped'
  <2>1. ASSUME NEW c \in Calls, Waiting(c)
        PROVE  [voice[c] EXCEPT !.left = "lost"] \in Tickets
        BY <2>1, TicketFacts DEF Waiting, Tickets
  <2> QED BY <1>7, <2>1 DEF VoiceCrash
<1>8. CASE UNCHANGED voiceVars
      BY <1>8 DEF voiceVars
<1> QED BY <1>1, <1>3, <1>4, <1>5, <1>6, <1>7, <1>8 DEF VoiceNext, Text, allVars

(* Every step of the composition is a step of the coordinator or stutters:  *)
(* what a batch does to a request is what Arrive allows of it.              *)
LEMMA StepImplements == VoiceTyped /\ [VoiceNext]_allVars => [Next]_vars
<1> SUFFICES ASSUME VoiceTyped, [VoiceNext]_allVars PROVE [Next]_vars
    OBVIOUS
<1>1. ASSUME NEW c \in Calls, Text(c) PROVE Next
  <2>1. PICK m \in Messages, p \in Processes : Reserve(c, m, p, {m})
        BY <1>1 DEF Text
  <2>2. Arrive(c)
        BY <2>1 DEF Arrive
  <2> QED BY <2>2 DEF Next
<1>2. ASSUME NEW c \in Calls, Waiting(c), Reserve(c, voice[c].msg, voice[c].at, Asks(c))
      PROVE  Next
  <2> DEFINE v == voice[c]
  <2>1. v.msg \in Messages /\ v.at \in Processes /\ v.batch \in Calls
        BY <1>2, TicketFacts, VoicesAreMessages DEF Waiting
  <2>2. Items(v.batch) \subseteq Messages
        BY TicketFacts, VoicesAreMessages DEF Items, InBatch
  <2>3. v.msg \in Items(v.batch)
        BY <1>2 DEF Items, InBatch, Waiting
  <2>4. Asks(c) \in SUBSET Messages /\ (Asks(c) = {} \/ v.msg \in Asks(c))
        BY <2>2, <2>3 DEF Asks
  <2>5. Arrive(c)
        BY <1>2, <2>1, <2>4 DEF Arrive
  <2> QED BY <2>5 DEF Next
<1>3. ASSUME NEW c \in Calls, Proceed(c) PROVE [Next]_vars
      BY <1>2, <1>3 DEF Proceed
<1>4. ASSUME NEW c \in Calls, Cancel(c) PROVE [Next]_vars
      BY <1>4 DEF Cancel
<1>5. ASSUME NEW c \in Calls, (CallStep(c) \/ Raise(c)) PROVE [Next]_vars
      BY <1>5 DEF Next
<1>6. ASSUME NEW p \in Processes, Forget(p) \/ Crash(p) PROVE [Next]_vars
      BY <1>6 DEF Next
<1>7. ASSUME NEW c \in Calls, Register(c) \/ Resolve(c) PROVE UNCHANGED vars
      BY <1>7 DEF Register, Resolve
<1>8. ASSUME NEW p \in Processes, Close(p) PROVE UNCHANGED vars
      BY <1>8 DEF Close
<1>9. ASSUME NEW p \in Processes, VoiceCrash(p) PROVE [Next]_vars
      BY <1>6, <1>9 DEF VoiceCrash
<1>10. CASE UNCHANGED allVars
      BY <1>10 DEF allVars
<1> QED BY <1>1, <1>3, <1>4, <1>5, <1>6, <1>7, <1>8, <1>9, <1>10 DEF VoiceNext

(* The tickets, batches and results are of their types in every state. *)
THEOREM VoiceTypes == VoiceSpec => []VoiceTyped
<1>1. VoiceInit => VoiceTyped
      BY DEF VoiceInit, VoiceTyped
<1>2. VoiceTyped /\ [VoiceNext]_allVars => VoiceTyped'
      BY VoiceTypeStep
<1> QED BY <1>1, <1>2, PTL DEF VoiceSpec

(* Behind its voice batches the coordinator still behaves as the module     *)
(* ReplyCoordinator says: _register, _finalize_when_settled and the empty   *)
(* answers of the calls that do not own their batch change none of its      *)
(* rules.                                                                   *)
THEOREM Composition == VoiceSpec => Spec
<1>1. VoiceInit => Init
      BY DEF VoiceInit
<1>2. VoiceTyped /\ [VoiceNext]_allVars => [Next]_vars
      BY StepImplements
<1> QED BY <1>1, <1>2, VoiceTypes, PTL DEF VoiceSpec, Spec

(* Type correctness of the two together. *)
THEOREM BatchTypes == VoiceSpec => []BatchesOK
<1>1. TypeOK /\ VoiceTyped => BatchesOK
      BY DEF BatchesOK, VoiceTyped
<1> QED BY <1>1, Composition, CoordinatorTypes, VoiceTypes, PTL

(* With voice batches in front, begin still finds the one call that may     *)
(* answer, for any number of calls, messages, voices and processes.         *)
THEOREM NewestIsFindableBehindBatches == VoiceSpec => []RunningIsFindable
  BY Composition, NewestIsFindable, PTL

(* With voice batches in front, what a silenced call was asked - a whole    *)
(* batch of transcripts - is still in the input of another call.            *)
THEOREM NoBatchIsDropped == VoiceSpec => []SilencedIsCarried
  BY Composition, NoMessageIsDropped, PTL

-----------------------------------------------------------------------------
(* Who answers for a message *)

\* What a call carries into the reply; one that comes to nothing carries nothing.
Carries(c) == IF pc[c] = "guard" THEN asked[c] ELSE merged[c]

\* A batch is named after a call that is in it, and one that has a result is
\* not joined any more.
Frozen ==
    /\ \A c \in Calls : voice[c] # None => voice[voice[c].batch] # None
    /\ \A p \in Processes : open[p] # None => voice[open[p]] # None
    /\ \A b \in ready : voice[b] # None /\ \A p \in Processes : open[p] # b

\* What a call was asked is its own text, or the whole of the batch it owns.
Asked ==
    \A c \in Calls : pc[c] # "new" =>
        IF voice[c] = None THEN msg[c] \notin Voices /\ asked[c] = {msg[c]}
        ELSE \/ asked[c] = {}
             \/ \E b \in ready : /\ b = voice[c].batch
                               /\ msg[c] = Owner(b) /\ asked[c] = Items(b)

\* Whatever a call carries it was asked itself, or a call it superseded was.
Sourced ==
    /\ \A c \in Calls : pc[c] \in {"new", "guard"} => merged[c] = {}
    /\ \A c \in Calls : \A m \in Carries(c) :
          \E e \in superseded \cup {c} : pc[e] # "new" /\ m \in asked[e]

\* The failed calls that were asked for m.
FailedOver(m) == {e \in Calls : outcome[e] = "failed" /\ m \in asked[e]}

\* Two calls that nobody has superseded carry the same message only if a call
\* that was asked for it failed: one of the two, or one that was superseded.
Apart ==
    \A c, d \in Calls \ superseded : c # d =>
        \A m \in (Carries(c) \cap Carries(d)) \ Rebatched :
            FailedOver(m) \cap (superseded \cup {c, d}) # {}

\* The record a process keeps is of one of its calls that nobody superseded.
Kept ==
    \A p \in Processes : inflight[p] # None => /\ at[inflight[p]] = p
                                              /\ inflight[p] \notin superseded

VInv == IInv /\ VoiceTyped /\ Frozen /\ Asked /\ Kept /\ Sourced /\ Apart

\* The step that makes a call of its message m, with what its request carries.
Comes(c, m, asks) ==
    /\ \E p \in Processes : Reserve(c, m, p, asks)
    /\ UNCHANGED voiceVars
    /\ \/ voice[c] = None /\ m \in Messages \ Voices /\ asks = {m}
       \/ Waiting(c) /\ voice[c].batch \in ready /\ m = voice[c].msg /\ asks = Asks(c)

\* A step that makes no call and no record.
Calm ==
    /\ UNCHANGED <<msg, asked, merged, superseded>>
    /\ \A c \in Calls : pc'[c] = pc[c] \/ (pc[c] # "new" /\ pc'[c] \notin {"new", "guard"})
    /\ \A c \in Calls : outcome[c] = "failed" => outcome'[c] = "failed"

\* What a step does to the calls and their records.
Shaped ==
    \/ \E c \in Calls, m \in Messages, asks \in SUBSET Messages : Comes(c, m, asks)
    \/ \E c \in Calls : Begin(c) /\ UNCHANGED voiceVars
    \/ Calm

(* Every step makes a call, or begins one, or is calm. *)
LEMMA StepShape == VInv /\ [VoiceNext]_allVars => Shaped
<1> SUFFICES ASSUME VInv, [VoiceNext]_allVars PROVE Shaped
    OBVIOUS
<1> USE DEF Shaped
<1>1. ASSUME NEW c \in Calls, Text(c) PROVE Shaped
      BY <1>1 DEF Text, Comes
<1>2. ASSUME NEW c \in Calls, Proceed(c) PROVE Shaped
  <2>1. CASE ~Free(voice[c].msg)
        BY <1>2, <2>1 DEF Proceed, Calm, vars, Reserve
  <2>2. CASE Free(voice[c].msg)
    <3>1. /\ Waiting(c) /\ voice[c].batch \in ready /\ UNCHANGED voiceVars
          /\ Reserve(c, voice[c].msg, voice[c].at, Asks(c))
          BY <1>2, <2>2 DEF Proceed, voiceVars
    <3>2. voice[c].msg \in Messages /\ voice[c].at \in Processes
          BY <3>1, TicketFacts, VoicesAreMessages DEF Waiting, VInv
    <3>3. Asks(c) \subseteq Messages
          BY TicketFacts, VoicesAreMessages DEF Asks, Items, InBatch, VInv
    <3>4. Comes(c, voice[c].msg, Asks(c))
          BY <3>1, <3>2 DEF Comes
    <3> QED BY <3>2, <3>3, <3>4
  <2> QED BY <2>1, <2>2
<1>3. ASSUME NEW c \in Calls, CallStep(c), UNCHANGED voiceVars PROVE Shaped
  <2> USE DEF VInv, IInv, TypeOK, Fates, Calm
  <2>1. CASE Begin(c)       BY <1>3, <2>1
  <2>2. CASE StayQuiet(c) \/ Cede(c) \/ Drop(c)
        BY <2>2 DEF StayQuiet, Cede, Drop, End, Goto
  <2>3. CASE FinalCheck(c) \/ Complete(c)
        BY <2>3 DEF FinalCheck, Complete, Goto
  <2>4. CASE Save(c)        BY <2>4 DEF Save, Goto
  <2> QED BY <1>3, <2>1, <2>2, <2>3, <2>4 DEF CallStep
<1>4. ASSUME NEW c \in Calls, Raise(c) PROVE Shaped
      BY <1>4 DEF Raise, End, Goto, Calm, VInv, IInv, TypeOK
<1>5. ASSUME NEW p \in Processes, Crash(p) PROVE Shaped
      BY <1>5, NoneIsNoCall DEF Crash, Calm, VInv, IInv, Begun
<1>6. ASSUME UNCHANGED <<msg, asked, merged, superseded, pc, outcome>> PROVE Shaped
      BY <1>6 DEF Calm
<1>7. ASSUME NEW c \in Calls, Register(c) \/ Cancel(c) \/ Resolve(c) PROVE Shaped
      BY <1>6, <1>7 DEF Register, Cancel, Resolve, vars
<1>8. ASSUME NEW p \in Processes, Close(p) \/ Forget(p) PROVE Shaped
      BY <1>6, <1>8 DEF Close, Forget, vars
<1>9. CASE UNCHANGED allVars
      BY <1>6, <1>9 DEF allVars, vars
<1> HIDE DEF Shaped
<1>10. ASSUME NEW c \in Calls,
              \/ Register(c) \/ Proceed(c) \/ Cancel(c) \/ Text(c) \/ Resolve(c)
              \/ (CallStep(c) \/ Raise(c)) /\ UNCHANGED voiceVars
       PROVE  Shaped
      BY <1>1, <1>2, <1>3, <1>4, <1>7, <1>10
<1>11. ASSUME NEW p \in Processes, Close(p) \/ (Forget(p) /\ UNCHANGED voiceVars) \/ VoiceCrash(p)
       PROVE  Shaped
      BY <1>5, <1>8, <1>11 DEF VoiceCrash
<1> QED BY <1>9, <1>10, <1>11 DEF VoiceNext

(* A ticket keeps its message and its batch, and only a call that has not   *)
(* come to the reply gets one.                                              *)
LEMMA TicketsStay ==
    ASSUME VoiceTyped, [VoiceNext]_allVars, NEW c \in Calls
    PROVE  /\ voice[c] # None => /\ voice'[c] # None /\ voice'[c].msg = voice[c].msg
                                 /\ voice'[c].batch = voice[c].batch
           /\ voice[c] = None /\ voice'[c] # None => pc[c] = "new" /\ pc'[c] = "new"
<1>1. ASSUME NEW d \in Calls, NEW how \in {"joined", "lost"}, voice[d] # None
      PROVE  /\ [voice[d] EXCEPT !.left = how] # None
             /\ [voice[d] EXCEPT !.left = how].msg = voice[d].msg
             /\ [voice[d] EXCEPT !.left = how].batch = voice[d].batch
  <2>1. voice[d] \in Tickets
        BY <1>1, TicketFacts
  <2>2. [voice[d] EXCEPT !.left = how] \in Tickets
        BY <2>1 DEF Tickets
  <2> QED BY <2>1, <2>2, NoneIsNoTicket DEF Tickets
<1>2. ASSUME NEW d \in Calls, NEW how \in {"joined", "lost"}, Waiting(d), Leave(d, how)
      PROVE  IF c = d THEN voice[c] # None /\ voice'[c] = [voice[c] EXCEPT !.left = how]
             ELSE voice'[c] = voice[c]
      BY <1>2 DEF Leave, Waiting, VoiceTyped
<1>3. ASSUME NEW d \in Calls, Register(d)
      PROVE  IF c = d THEN voice[c] = None /\ pc[c] = "new" /\ pc'[c] = "new"
             ELSE voice'[c] = voice[c]
      BY <1>3 DEF Register, VoiceTyped, vars
<1>4. ASSUME NEW p \in Processes, VoiceCrash(p)
      PROVE  IF Waiting(c) /\ voice[c].at = p
             THEN voice[c] # None /\ voice'[c] = [voice[c] EXCEPT !.left = "lost"]
             ELSE voice'[c] = voice[c]
      BY <1>4 DEF VoiceCrash, Waiting
<1>5. \/ voice'[c] = voice[c]
      \/ voice[c] = None /\ pc[c] = "new" /\ pc'[c] = "new"
      \/ /\ voice[c] # None
         /\ \E how \in {"joined", "lost"} : voice'[c] = [voice[c] EXCEPT !.left = how]
      BY <1>2, <1>3, <1>4
         DEF VoiceNext, Text, Proceed, Cancel, Resolve, Close, voiceVars, allVars
<1> QED BY <1>1, <1>5

(* A batch that has a result keeps its items, and so its owner.             *)
LEMMA ItemsStay ==
    ASSUME VoiceTyped, Frozen, [VoiceNext]_allVars, NEW b \in ready
    PROVE  Items(b)' = Items(b)
<1>1. ASSUME NEW c \in Calls, voice[c] = None, voice'[c] # None PROVE voice'[c].batch # b
  <2>1. CASE Register(c)
    <3>1. PICK m \in Voices, p \in Processes, d \in Calls :
             /\ MayJoin(d, p) \/ d = c
             /\ voice' = [voice EXCEPT ![c] = [msg |-> m, at |-> p, batch |-> d, left |-> "no"]]
          BY <2>1 DEF Register
    <3>2. d # b
          BY <1>1, <3>1 DEF MayJoin, Frozen
    <3> QED BY <3>1, <3>2 DEF VoiceTyped
  <2>2. CASE ~Register(c)
    <3>1. ASSUME NEW d \in Calls, Register(d) \/ (Waiting(d) /\ \E how : Leave(d, how))
          PROVE  FALSE
          BY <1>1, <2>2, <3>1 DEF Register, Waiting, Leave, VoiceTyped
    <3>2. ASSUME NEW p \in Processes, VoiceCrash(p) PROVE FALSE
          BY <1>1, <3>2 DEF VoiceCrash, Waiting
    <3> QED BY <1>1, <3>1, <3>2
            DEF VoiceNext, Text, Proceed, Cancel, Resolve, Close, voiceVars, allVars
  <2> QED BY <2>1, <2>2
<1>2. InBatch(b)' = InBatch(b)
      BY <1>1, TicketsStay DEF InBatch
<1> QED BY <1>2, TicketsStay DEF Items, InBatch

(* Every step keeps batches that have a result closed.                      *)
LEMMA NextFrozen == VoiceTyped /\ Frozen /\ [VoiceNext]_allVars => Frozen'
<1> SUFFICES ASSUME VoiceTyped, Frozen, [VoiceNext]_allVars PROVE Frozen'
    OBVIOUS
<1>1. ASSUME NEW c \in Calls, Register(c) PROVE Frozen'
  <2>1. PICK m \in Voices, p \in Processes, b \in Calls :
           /\ MayJoin(b, p) \/ b = c
           /\ voice' = [voice EXCEPT ![c] = [msg |-> m, at |-> p, batch |-> b, left |-> "no"]]
           /\ open' = [open EXCEPT ![p] = b]
        BY <1>1 DEF Register
  <2>2. ready' = ready /\ voice[c] = None
        BY <1>1 DEF Register
  <2>3. voice'[c] # None /\ voice'[c].batch = b
    <3>1. [msg |-> m, at |-> p, batch |-> b, left |-> "no"] \in Tickets
          BY DEF Tickets
    <3> QED BY <2>1, <3>1, NoneIsNoTicket DEF VoiceTyped
  <2>4. \A d \in Calls \ {c} : voice'[d] = voice[d]
        BY <2>1 DEF VoiceTyped
  <2>5. voice'[b] # None
        BY <2>1, <2>2, <2>3, <2>4, NoneIsNoCall DEF MayJoin, Frozen
  <2>6. \A d \in Calls : voice'[d] # None => voice'[voice'[d].batch] # None
        BY <2>3, <2>4, <2>5, TicketFacts DEF Frozen
  <2>7. \A q \in Processes : open'[q] # None => voice'[open'[q]] # None
        BY <2>1, <2>3, <2>4, <2>5 DEF Frozen, VoiceTyped
  <2>8. b \notin ready
        BY <2>1, <2>2 DEF MayJoin, Frozen
  <2>9. \A d \in ready : voice'[d] # None /\ \A q \in Processes : open'[q] # d
        BY <2>1, <2>3, <2>4, <2>8 DEF Frozen, VoiceTyped
  <2> QED BY <2>2, <2>6, <2>7, <2>9 DEF Frozen
<1>2. ASSUME \A c \in Calls : /\ voice[c] = None <=> voice'[c] = None
                              /\ voice[c] # None => voice'[c].batch = voice[c].batch,
             \A p \in Processes : open'[p] \in {open[p], None},
             ready' = ready \/ \E b \in Calls : Resolve(b)
      PROVE  Frozen'
  <2>1. \A c \in Calls : voice'[c] # None => voice'[voice'[c].batch] # None
        BY <1>2, TicketFacts DEF Frozen
  <2>2. \A p \in Processes : open'[p] # None => voice'[open'[p]] # None
        BY <1>2 DEF Frozen, VoiceTyped
  <2>3. ASSUME NEW b \in ready' \ ready
        PROVE  voice[b] # None /\ b \in Calls /\ \A p \in Processes : open[p] # b
        BY <1>2, <2>3 DEF Resolve, InBatch, Frozen
  <2>4. \A b \in ready' : voice'[b] # None /\ \A p \in Processes : open'[p] # b
    <3> SUFFICES ASSUME NEW b \in ready' PROVE voice'[b] # None /\ \A p \in Processes : open'[p] # b
        OBVIOUS
    <3>1. voice[b] # None /\ b \in Calls /\ \A p \in Processes : open[p] # b
          BY <2>3 DEF Frozen, VoiceTyped
    <3>2. voice'[b] # None
          BY <1>2, <3>1
    <3> QED BY <1>2, <3>1, <3>2, NoneIsNoCall
  <2> QED BY <2>1, <2>2, <2>4 DEF Frozen
<1>3. ASSUME ~\E c \in Calls : Register(c)
      PROVE  /\ \A c \in Calls : /\ voice[c] = None <=> voice'[c] = None
                                 /\ voice[c] # None => voice'[c].batch = voice[c].batch
             /\ \A p \in Processes : open'[p] \in {open[p], None}
             /\ ready' = ready \/ \E b \in Calls : Resolve(b)
  <2>1. ASSUME NEW c \in Calls, voice[c] = None PROVE voice'[c] = None
    <3>1. ASSUME NEW d \in Calls, Waiting(d) /\ \E how : Leave(d, how) PROVE voice'[c] = voice[c]
          BY <2>1, <3>1 DEF Waiting, Leave, VoiceTyped
    <3>2. ASSUME NEW p \in Processes, VoiceCrash(p) PROVE voice'[c] = voice[c]
          BY <2>1, <3>2 DEF VoiceCrash, Waiting
    <3> QED BY <1>3, <2>1, <3>1, <3>2
            DEF VoiceNext, Text, Proceed, Cancel, Resolve, Close, voiceVars, allVars
  <2>2. \A p \in Processes : open'[p] \in {open[p], None}
        BY <1>3 DEF VoiceNext, Text, Proceed, Cancel, Resolve, Close, VoiceCrash, voiceVars, allVars,
                    VoiceTyped
  <2>3. ready' = ready \/ \E b \in Calls : Resolve(b)
        BY <1>3 DEF VoiceNext, Text, Proceed, Cancel, Close, VoiceCrash, voiceVars, allVars
  <2> QED BY <2>1, <2>2, <2>3, TicketsStay
<1> QED BY <1>1, <1>2, <1>3

(* What has been asked, what has failed, what was superseded and what was   *)
(* in two batches stays so.                                                 *)
LEMMA Lasting ==
    ASSUME VInv, [VoiceNext]_allVars
    PROVE  /\ \A c \in Calls : pc[c] # "new" =>
                 /\ pc'[c] # "new" /\ asked'[c] = asked[c] /\ msg'[c] = msg[c]
                 /\ outcome[c] = "failed" => outcome'[c] = "failed"
           /\ superseded \subseteq superseded'
           /\ Rebatched \subseteq Rebatched'
<1>1. Shaped
      BY StepShape
<1>2. Rebatched \subseteq Rebatched'
      BY TicketsStay DEF VInv, Rebatched
<1>3. ASSUME NEW c \in Calls, NEW m, NEW asks, Comes(c, m, asks)
      PROVE  /\ \A d \in Calls \ {c} : pc'[d] = pc[d] /\ asked'[d] = asked[d] /\ msg'[d] = msg[d]
             /\ pc[c] = "new" /\ outcome' = outcome /\ superseded' = superseded
      BY <1>3 DEF Comes, Reserve, Goto, VInv, IInv, TypeOK
<1>4. ASSUME NEW c \in Calls, Begin(c)
      PROVE  /\ \A d \in Calls : pc[d] # "new" => pc'[d] # "new"
             /\ UNCHANGED <<asked, msg, outcome>> /\ superseded \subseteq superseded'
      BY <1>4 DEF Begin, Goto, VInv, IInv, TypeOK
<1>5. ASSUME Calm
      PROVE  /\ \A d \in Calls : pc[d] # "new" => pc'[d] # "new"
             /\ \A d \in Calls : outcome[d] = "failed" => outcome'[d] = "failed"
             /\ UNCHANGED <<asked, msg, superseded>>
      BY <1>5 DEF Calm
<1> QED BY <1>1, <1>2, <1>3, <1>4, <1>5 DEF Shaped

(* A request is a call's own text or the whole batch it owns, after any step. *)
LEMMA NextAsked == VInv /\ [VoiceNext]_allVars => Asked'
<1> SUFFICES ASSUME VInv, [VoiceNext]_allVars, NEW c \in Calls, pc'[c] # "new"
             PROVE  IF voice'[c] = None THEN msg'[c] \notin Voices /\ asked'[c] = {msg'[c]}
                    ELSE \/ asked'[c] = {}
                         \/ \E b \in ready' : /\ b = voice'[c].batch
                                            /\ msg'[c] = Owner(b)' /\ asked'[c] = Items(b)'
    BY DEF Asked
<1>1. \A b \in ready : b \in ready' /\ Items(b)' = Items(b) /\ Owner(b)' = Owner(b)
  <2>1. \A b \in ready : Items(b)' = Items(b)
        BY ItemsStay DEF VInv
  <2>2. ready \subseteq ready'
        BY DEF VoiceNext, Register, Proceed, Cancel, Text, Resolve, Close, VoiceCrash, voiceVars,
               allVars
  <2> QED BY <2>1, <2>2 DEF Owner
<1>2. CASE pc[c] # "new"
  <2>1. /\ asked'[c] = asked[c] /\ msg'[c] = msg[c]
        /\ voice'[c] = None <=> voice[c] = None
        /\ voice[c] # None => voice'[c].batch = voice[c].batch
        BY <1>2, Lasting, TicketsStay DEF VInv
  <2> QED BY <1>1, <1>2, <2>1 DEF VInv, Asked
<1>3. CASE pc[c] = "new"
  <2>1. PICK m \in Messages, asks \in SUBSET Messages : Comes(c, m, asks)
    <3>1. ASSUME NEW d \in Calls, Begin(d) PROVE FALSE
          BY <1>3, <3>1 DEF Begin, Goto, VInv, IInv, TypeOK
    <3>2. ASSUME NEW d \in Calls, NEW m \in Messages, NEW asks \in SUBSET Messages, Comes(d, m, asks)
          PROVE  d = c
          BY <1>3, <3>2 DEF Comes, Reserve, Goto, VInv, IInv, TypeOK
    <3> QED BY <1>3, <3>1, <3>2, StepShape DEF Shaped, Calm
  <2>2. voice' = voice /\ msg'[c] = m /\ asked'[c] = asks
        BY <2>1 DEF Comes, Reserve, voiceVars, VInv, IInv, TypeOK
  <2>3. CASE voice[c] = None
        BY <2>1, <2>2, <2>3 DEF Comes, Waiting
  <2>4. CASE voice[c] # None
        BY <1>1, <2>1, <2>2, <2>4 DEF Comes, Asks
  <2> QED BY <2>3, <2>4
<1> QED BY <1>2, <1>3

(* A call that comes with a message another was asked for, other than by    *)
(* way of a second batch, is of the same message.                           *)
LEMMA SameOwner ==
    ASSUME VInv, NEW c \in Calls, NEW m \in Messages, NEW asks \in SUBSET Messages, Comes(c, m, asks),
           NEW e \in Calls, pc[e] # "new", NEW x \in (asks \cap asked[e]) \ Rebatched
    PROVE  msg[e] = m
<1> USE DEF VInv
<1>1. \A b : Items(b) \subseteq Voices
      BY TicketFacts DEF Items, InBatch
<1>2. CASE voice[c] = None
      BY <1>1, <1>2 DEF Comes, Waiting, Asked
<1>3. CASE voice[c] # None
  <2>1. /\ m = voice[c].msg /\ m = Owner(voice[c].batch)
        /\ asks = Items(voice[c].batch)
        BY <1>3 DEF Comes, Asks
  <2>2. /\ voice[e] # None /\ msg[e] = Owner(voice[e].batch)
        /\ asked[e] = Items(voice[e].batch)
        BY <1>1, <2>1 DEF Asked
  <2>3. PICK f \in Calls : voice[f] # None /\ voice[f].batch = voice[c].batch /\ voice[f].msg = x
        BY <2>1 DEF Items, InBatch
  <2>4. PICK g \in Calls : voice[g] # None /\ voice[g].batch = voice[e].batch /\ voice[g].msg = x
        BY <2>2 DEF Items, InBatch
  <2>5. x \in Voices
        BY <1>1, <2>1
  <2>6. voice[f].batch = voice[g].batch
        BY <2>3, <2>4, <2>5 DEF Rebatched
  <2> QED BY <2>1, <2>2, <2>3, <2>4, <2>6
<1> QED BY <1>2, <1>3

(* A calm step adds nothing to what a call carries, a coming call carries   *)
(* its request, and one that begins carries the record before it as well.   *)
LEMMA CarriesNext ==
    ASSUME VInv
    PROVE  /\ Calm => \A d \in Calls : Carries(d)' \subseteq Carries(d)
           /\ \A c \in Calls, m \in Messages, asks \in SUBSET Messages : Comes(c, m, asks) =>
                 /\ Carries(c)' = asks /\ asked'[c] = asks /\ pc'[c] # "new"
                 /\ superseded' = superseded /\ c \notin superseded
                 /\ \A d \in Calls \ {c} : Carries(d)' = Carries(d)
           /\ \A c \in Calls : Begin(c) =>
                 /\ pc[c] # "new" /\ superseded \subseteq superseded'
                 /\ c \notin superseded
                 /\ Carries(c) = asked[c]
                 /\ \A d \in Calls \ {c} : Carries(d)' = Carries(d)
                 /\ \A x \in Carries(c)' : \/ x \in Carries(c)
                                           \/ \E d \in superseded' \ superseded : d # c /\ x \in Carries(d)
<1> USE DEF VInv, IInv, TypeOK
<1>1. ASSUME Calm, NEW d \in Calls PROVE Carries(d)' \subseteq Carries(d)
      BY <1>1 DEF Calm, Carries, Sourced
<1>2. ASSUME NEW c \in Calls, NEW m \in Messages, NEW asks \in SUBSET Messages, Comes(c, m, asks)
      PROVE  /\ Carries(c)' = asks /\ asked'[c] = asks /\ pc'[c] # "new"
             /\ superseded' = superseded /\ c \notin superseded
             /\ \A d \in Calls \ {c} : Carries(d)' = Carries(d)
      BY <1>2 DEF Comes, Reserve, Goto, Carries, Begun
<1>3. ASSUME NEW c \in Calls, Begin(c)
      PROVE  /\ pc[c] # "new" /\ superseded \subseteq superseded' /\ c \notin superseded
             /\ Carries(c) = asked[c]
             /\ \A d \in Calls \ {c} : Carries(d)' = Carries(d)
             /\ \A x \in Carries(c)' : \/ x \in Carries(c)
                                       \/ \E d \in superseded' \ superseded : d # c /\ x \in Carries(d)
  <2> DEFINE previous == {inflight[at[c]]} \ {None}
  <2>1. /\ pc[c] = "guard" /\ at[c] \in Processes
        /\ pc' = [pc EXCEPT ![c] = "graph"] /\ asked' = asked
        /\ merged' = [merged EXCEPT ![c] = asked[c] \cup UNION {merged[d] : d \in previous}]
        /\ superseded' = superseded \cup previous
        BY <1>3 DEF Begin, Goto, Begun
  <2>2. \A d \in previous : d \in Calls \ superseded /\ d # c /\ Carries(d) = merged[d]
        BY <2>1 DEF Begun, Carries, Kept
  <2>3. Carries(c) = asked[c] /\ Carries(c)' = asked[c] \cup UNION {merged[d] : d \in previous}
        BY <2>1 DEF Carries
  <2>4. \A d \in Calls \ {c} : Carries(d)' = Carries(d)
        BY <2>1 DEF Carries
  <2>5. c \notin superseded
        BY <2>1 DEF Begun
  <2> HIDE DEF previous
  <2> QED BY <2>1, <2>2, <2>3, <2>4, <2>5
<1> QED BY <1>1, <1>2, <1>3

(* Every step keeps the kept records unsuperseded, and of their process.    *)
LEMMA NextKept == IInv /\ Kept /\ [Next]_vars => Kept'
<1> SUFFICES ASSUME IInv, Kept, [Next]_vars PROVE Kept'
    OBVIOUS
<1> USE NoneIsNoCall DEF IInv, TypeOK, Begun, Kept
<1>1. ASSUME NEW c \in Calls, Arrive(c) PROVE Kept'
      BY <1>1 DEF Arrive, Reserve, Goto
<1>2. ASSUME NEW c \in Calls, Begin(c) PROVE Kept'
  <2>1. /\ pc[c] = "guard" /\ at[c] \in Processes /\ at' = at /\ c \notin superseded
        /\ superseded' = superseded \cup ({inflight[at[c]]} \ {None})
        /\ inflight' = [inflight EXCEPT ![at[c]] = c]
        BY <1>2 DEF Begin
  <2> QED BY <2>1
<1>3. ASSUME NEW c \in Calls, FinalCheck(c) \/ Complete(c) PROVE Kept'
      BY <1>3 DEF FinalCheck, Complete, Popped
<1>4. ASSUME NEW p \in Processes, Forget(p) \/ Crash(p) PROVE Kept'
      BY <1>4 DEF Forget, Crash
<1>5. ASSUME UNCHANGED <<at, inflight, superseded>> PROVE Kept'
      BY <1>5
<1>6. ASSUME NEW c \in Calls, StayQuiet(c) \/ Cede(c) \/ Drop(c) \/ Save(c) \/ Raise(c) PROVE Kept'
      BY <1>5, <1>6 DEF StayQuiet, Cede, Drop, Save, Raise
<1>7. CASE UNCHANGED vars
      BY <1>5, <1>7 DEF vars
<1> QED BY <1>1, <1>2, <1>3, <1>4, <1>6, <1>7 DEF Next, CallStep

(* Every step keeps what calls carry asked for.                             *)
LEMMA NextSourced == VInv /\ [VoiceNext]_allVars => Sourced'
<1> SUFFICES ASSUME VInv, [VoiceNext]_allVars PROVE Sourced'
    OBVIOUS
<1>1. \A c \in Calls : pc'[c] \in {"new", "guard"} => merged'[c] = {}
  <2>1. ASSUME NEW c \in Calls, NEW m, NEW asks, Comes(c, m, asks)
        PROVE  \A d \in Calls : pc'[d] \in {"new", "guard"} => merged'[d] = {}
        BY <2>1 DEF Comes, Reserve, Goto, VInv, IInv, TypeOK, Sourced
  <2>2. ASSUME NEW c \in Calls, Begin(c)
        PROVE  \A d \in Calls : pc'[d] \in {"new", "guard"} => merged'[d] = {}
        BY <2>2 DEF Begin, Goto, VInv, IInv, TypeOK, Sourced
  <2>3. ASSUME Calm
        PROVE  \A d \in Calls : pc'[d] \in {"new", "guard"} => merged'[d] = {}
        BY <2>3 DEF Calm, VInv, Sourced
  <2> QED BY <2>1, <2>2, <2>3, StepShape DEF Shaped
<1>2. ASSUME NEW c \in Calls, NEW x \in Carries(c)'
      PROVE  \E e \in superseded' \cup {c} : pc'[e] # "new" /\ x \in asked'[e]
  <2>1. superseded \subseteq Calls /\ superseded \subseteq superseded'
        BY Lasting DEF VInv, IInv, TypeOK
  <2>2. ASSUME NEW d \in superseded' \cup {c}, d \in Calls, x \in Carries(d)
        PROVE  \E e \in superseded' \cup {c} : pc'[e] # "new" /\ x \in asked'[e]
    <3>1. PICK e \in superseded \cup {d} : pc[e] # "new" /\ x \in asked[e]
          BY <2>2 DEF VInv, Sourced
    <3> QED BY <2>1, <2>2, <3>1, Lasting
  <2>3. CASE x \in Carries(c)
        BY <2>2, <2>3
  <2>4. CASE x \notin Carries(c)
    <3>1. ~Calm
          BY <2>4, CarriesNext
    <3>2. ASSUME NEW d \in Calls, Begin(d)
          PROVE  \E e \in superseded' : e \in Calls /\ x \in Carries(e)
      <4>1. d = c
            BY <2>4, <3>2, CarriesNext
      <4>2. superseded' \subseteq Calls
            BY <3>2 DEF Begin, VInv, IInv, TypeOK, Begun
      <4> QED BY <2>4, <3>2, <4>1, <4>2, CarriesNext
    <3>3. ASSUME NEW d \in Calls, NEW m \in Messages, NEW asks \in SUBSET Messages, Comes(d, m, asks)
          PROVE  pc'[c] # "new" /\ x \in asked'[c]
          BY <2>4, <3>3, CarriesNext
    <3> QED BY <2>2, <3>1, <3>2, <3>3, StepShape DEF Shaped
  <2> QED BY <2>3, <2>4
<1> QED BY <1>1, <1>2 DEF Sourced

(* Every step keeps the calls that nobody superseded apart.                 *)
LEMMA NextApart == VInv /\ [VoiceNext]_allVars => Apart'
<1> SUFFICES ASSUME VInv, [VoiceNext]_allVars,
                    NEW c \in Calls \ superseded', NEW d \in Calls \ superseded', c # d,
                    NEW x \in (Carries(c)' \cap Carries(d)') \ Rebatched'
             PROVE  FailedOver(x)' \cap (superseded' \cup {c, d}) # {}
    BY DEF Apart
<1> DEFINE Over(S) == \E e \in S : e \in Calls /\ outcome[e] = "failed" /\ x \in asked[e]
<1>1. /\ c \notin superseded /\ d \notin superseded
      /\ superseded \subseteq superseded' /\ superseded \subseteq Calls /\ x \notin Rebatched
      BY Lasting DEF VInv, IInv, TypeOK
<1>2. ASSUME NEW S \in SUBSET (superseded' \cup {c, d}), Over(S)
      PROVE  FailedOver(x)' \cap (superseded' \cup {c, d}) # {}
  <2>1. PICK e \in S : e \in Calls /\ outcome[e] = "failed" /\ x \in asked[e]
        BY <1>2
  <2>2. pc[e] # "new"
        BY <2>1 DEF VInv, IInv, Fates
  <2>3. e \in FailedOver(x)'
        BY <2>1, <2>2, Lasting DEF FailedOver
  <2> QED BY <2>3
<1>3. ASSUME NEW a \in Calls \ superseded, NEW b \in Calls \ superseded, a # b,
             x \in Carries(a) \cap Carries(b)
      PROVE  Over(superseded \cup {a, b})
      BY <1>1, <1>3 DEF VInv, Apart, FailedOver
<1>4. CASE x \in Carries(c) /\ x \in Carries(d)
  <2>1. Over(superseded \cup {c, d})
        BY <1>1, <1>3, <1>4
  <2> QED BY <1>1, <1>2, <2>1
<1>5. ASSUME NEW a \in {c, d}, NEW b \in {c, d}, a # b, x \notin Carries(a)
      PROVE  FailedOver(x)' \cap (superseded' \cup {c, d}) # {}
  <2>1. ~Calm
        BY <1>5, CarriesNext
  <2>2. ASSUME NEW f \in Calls, Begin(f)
        PROVE  FailedOver(x)' \cap (superseded' \cup {c, d}) # {}
    <3>1. f = a
          BY <1>5, <2>2, CarriesNext
    <3>2. x \in Carries(b)
          BY <1>5, <2>2, <3>1, CarriesNext
    <3>3. superseded' \subseteq Calls
          BY <2>2 DEF Begin, VInv, IInv, TypeOK, Begun
    <3>4. PICK g \in superseded' \ superseded : g # a /\ g \in Calls /\ x \in Carries(g)
          BY <1>5, <2>2, <3>1, <3>3, CarriesNext
    <3>5. g # b
          BY <1>5
    <3>6. Over(superseded \cup {g, b})
          BY <1>1, <1>3, <1>5, <3>2, <3>4, <3>5
    <3> QED BY <1>1, <1>2, <1>5, <3>4, <3>6
  <2>3. ASSUME NEW f \in Calls, NEW m \in Messages, NEW asks \in SUBSET Messages, Comes(f, m, asks)
        PROVE  FailedOver(x)' \cap (superseded' \cup {c, d}) # {}
    <3>1. f = a /\ x \in asks
          BY <1>5, <2>3, CarriesNext
    <3>2. x \in Carries(b)
          BY <1>5, <2>3, <3>1, CarriesNext
    <3>3. PICK e \in superseded \cup {b} : pc[e] # "new" /\ x \in asked[e]
          BY <1>5, <3>2 DEF VInv, Sourced
    <3>4. e \in Calls /\ msg[e] = m
          BY <1>1, <1>5, <2>3, <3>1, <3>3, SameOwner
    <3>5. outcome[e] = "failed"
          BY <2>3, <3>4 DEF Comes, Reserve, Free
    <3>6. Over(superseded \cup {b})
          BY <3>3, <3>4, <3>5
    <3> QED BY <1>1, <1>2, <1>5, <3>6
  <2> QED BY <2>1, <2>2, <2>3, StepShape DEF Shaped
<1> QED BY <1>4, <1>5

(* The invariant of the two together. *)
THEOREM BatchInvariance == VoiceSpec => []VInv
<1>1. VoiceInit => VInv
  <2>1. VoiceInit => IInv /\ VoiceTyped
        BY InitIInv DEF VoiceInit, VoiceTyped
  <2>2. VoiceInit => Frozen /\ Asked /\ Kept /\ Sourced /\ Apart
        BY DEF VoiceInit, Init, Frozen, Asked, Kept, Sourced, Apart, Carries
  <2> QED BY <2>1, <2>2 DEF VInv
<1>2. VInv /\ [VoiceNext]_allVars => VInv'
  <2> SUFFICES ASSUME VInv, [VoiceNext]_allVars PROVE VInv'
      OBVIOUS
  <2>1. [Next]_vars
        BY StepImplements DEF VInv
  <2>2. IInv'
        BY <2>1, StepIInv DEF VInv
  <2>3. VoiceTyped' /\ Frozen' /\ Kept'
        BY <2>1, VoiceTypeStep, NextFrozen, NextKept DEF VInv
  <2> QED BY <2>2, <2>3, NextAsked, NextSourced, NextApart DEF VInv
<1> QED BY <1>1, <1>2, PTL DEF VoiceSpec

(* A message is answered twice only after a call that was asked for it was  *)
(* superseded and failed (its message is then retried, and with it its      *)
(* whole batch), or when it was delivered to two batches: for any number of *)
(* calls, messages, processes and batches, through the reservation, _register, *)
(* begin and complete.                                                      *)
THEOREM SecondAnswers == VoiceSpec => []AnsweredTwiceOnlyIfSuperseded
<1>1. VInv => AnsweredTwiceOnlyIfSuperseded
  <2> DEFINE Retried == UNION {asked[e] : e \in {x \in superseded : outcome[x] = "failed"}}
  <2> SUFFICES ASSUME VInv, NEW c \in Answered \ superseded, NEW d \in Answered \ superseded, c # d
               PROVE  merged[c] \cap merged[d] \subseteq Rebatched \cup Retried
      BY DEF AnsweredTwiceOnlyIfSuperseded
  <2>1. \A e \in Answered : e \in Calls /\ outcome[e] = "answered" /\ Carries(e) = merged[e]
        BY DEF VInv, IInv, Fates, Carries, Answered
  <2>2. ASSUME NEW m \in merged[c] \cap merged[d], m \notin Rebatched
        PROVE  m \in Retried
    <3>1. PICK e \in FailedOver(m) : e \in superseded \cup {c, d}
          BY <2>1, <2>2 DEF VInv, Apart
    <3> QED BY <2>1, <3>1 DEF FailedOver
  <2> QED BY <2>2
<1> QED BY <1>1, BatchInvariance, PTL

-----------------------------------------------------------------------------
(***************************************************************************)
(* Nobody is forgotten.                                                    *)
(***************************************************************************)

\* A call that is over has a fate; one that has begun was asked something, and
\* its record holds it; one that ceded was asked nothing.
Settled ==
    \A c \in Calls :
        /\ pc[c] = "new" => msg[c] = None
        /\ pc[c] = "done" => outcome[c] # "none"
        /\ \/ pc[c] \in {"graph", "saving", "dropping", "completing"}
           \/ outcome[c] \in {"answered", "silenced"}
           => asked[c] # {} /\ asked[c] \subseteq merged[c]
        /\ outcome[c] = "ceded" => asked[c] = {}

\* A call that comes through its batch is of its ticket's message, and is asked
\* what the result of the batch says.
Exact ==
    \A c \in Calls : voice[c] # None /\ pc[c] # "new" =>
        \E b \in ready : /\ b = voice[c].batch /\ msg[c] = voice[c].msg
                         /\ asked[c] = IF msg[c] = Owner(b) THEN Items(b) ELSE {}

\* Every batch has a latest message, so that it has an owner.
Led == \A b \in Calls : Items(b) # {} => \E m \in Items(b) : \A n \in Items(b) : n <= m

\* A call joins only the call that has its message.
Joined ==
    \A c \in Calls : voice[c] # None /\ voice[c].left = "joined" =>
        \E d \in Calls : pc[d] # "new" /\ msg[d] = voice[c].msg

WInv == VInv /\ Settled /\ Exact /\ Led /\ Joined

(* Every step of the coordinator keeps what it says of its calls' fates.    *)
LEMMA NextSettled == IInv /\ Settled /\ [Next]_vars => Settled'
<1> SUFFICES ASSUME IInv, Settled, [Next]_vars PROVE Settled'
    OBVIOUS
<1> USE DEF IInv, TypeOK, Settled, Fates
<1>1. ASSUME NEW c \in Calls, Arrive(c) PROVE Settled'
      BY <1>1 DEF Arrive, Reserve, Goto
<1>2. ASSUME NEW c \in Calls, Begin(c) PROVE Settled'
  <2>1. /\ asked[c] # {} /\ pc[c] = "guard" /\ outcome[c] = "none"
        /\ asked' = asked /\ outcome' = outcome /\ msg' = msg /\ pc' = [pc EXCEPT ![c] = "graph"]
        BY <1>2 DEF Begin, Goto
  <2>2. asked[c] \subseteq merged'[c] /\ \A d \in Calls \ {c} : merged'[d] = merged[d]
        BY <1>2 DEF Begin
  <2> QED BY <2>1, <2>2
<1>3. ASSUME NEW c \in Calls, StayQuiet(c) \/ Cede(c) \/ Drop(c) PROVE Settled'
      BY <1>3 DEF StayQuiet, Cede, Drop, End, Goto
<1>4. ASSUME NEW c \in Calls, FinalCheck(c) \/ Complete(c) PROVE Settled'
      BY <1>4 DEF FinalCheck, Complete, Goto
<1>5. ASSUME NEW c \in Calls, Save(c) PROVE Settled'
      BY <1>5 DEF Save, Goto
<1>6. ASSUME NEW c \in Calls, Raise(c) PROVE Settled'
      BY <1>6 DEF Raise, End, Goto
<1>7. ASSUME NEW p \in Processes, Crash(p) PROVE Settled'
  <2>1. /\ UNCHANGED <<msg, asked, merged>>
        /\ \A c \in Calls : \/ pc'[c] = pc[c] /\ outcome'[c] = outcome[c]
                            \/ /\ pc[c] # "new" /\ pc'[c] = "done"
                               /\ outcome'[c] = IF outcome[c] = "none" THEN "failed" ELSE outcome[c]
        BY <1>7, NoneIsNoCall DEF Crash, Begun
  <2> QED BY <2>1
<1>8. ASSUME UNCHANGED <<msg, pc, outcome, asked, merged>> PROVE Settled'
      BY <1>8
<1>9. ASSUME NEW p \in Processes, Forget(p) PROVE Settled'
      BY <1>8, <1>9 DEF Forget
<1>10. CASE UNCHANGED vars
      BY <1>8, <1>10 DEF vars
<1> QED BY <1>1, <1>2, <1>3, <1>4, <1>5, <1>6, <1>7, <1>9, <1>10 DEF Next, CallStep

(* A result stays.                                                          *)
LEMMA ReadyStays == [VoiceNext]_allVars => ready \subseteq ready'
  BY DEF VoiceNext, Register, Proceed, Cancel, Text, Resolve, Close, VoiceCrash, voiceVars, allVars

(* A call that comes to the reply comes with its own text or from a batch   *)
(* that has a result.                                                       *)
LEMMA WhoComes ==
    ASSUME VInv, [VoiceNext]_allVars, NEW c \in Calls, pc[c] = "new", pc'[c] # "new"
    PROVE  \E m \in Messages, asks \in SUBSET Messages : Comes(c, m, asks)
<1>1. ASSUME NEW d \in Calls, Begin(d) PROVE FALSE
      BY <1>1 DEF Begin, Goto, VInv, IInv, TypeOK
<1>2. ASSUME NEW d \in Calls, NEW m \in Messages, NEW asks \in SUBSET Messages, Comes(d, m, asks)
      PROVE  d = c
      BY <1>2 DEF Comes, Reserve, Goto, VInv, IInv, TypeOK
<1> QED BY <1>1, <1>2, StepShape DEF Shaped, Calm

(* A call that came through its batch keeps to its ticket.                  *)
LEMMA NextExact == VInv /\ Exact /\ [VoiceNext]_allVars => Exact'
<1> SUFFICES ASSUME VInv, Exact, [VoiceNext]_allVars,
                    NEW c \in Calls, voice'[c] # None, pc'[c] # "new"
             PROVE  \E b \in ready' : /\ b = voice'[c].batch /\ msg'[c] = voice'[c].msg
                                      /\ asked'[c] = IF msg'[c] = Owner(b)' THEN Items(b)' ELSE {}
    BY DEF Exact
<1>1. \A b \in ready : b \in ready' /\ Items(b)' = Items(b) /\ Owner(b)' = Owner(b)
  <2>1. \A b \in ready : Items(b)' = Items(b)
        BY ItemsStay DEF VInv
  <2> QED BY <2>1, ReadyStays DEF Owner
<1>2. CASE pc[c] # "new"
  <2>1. voice[c] # None /\ voice'[c].batch = voice[c].batch /\ voice'[c].msg = voice[c].msg
        BY <1>2, TicketsStay DEF VInv
  <2>2. asked'[c] = asked[c] /\ msg'[c] = msg[c]
        BY <1>2, Lasting
  <2>3. PICK b \in ready : /\ b = voice[c].batch /\ msg[c] = voice[c].msg
                           /\ asked[c] = IF msg[c] = Owner(b) THEN Items(b) ELSE {}
        BY <1>2, <2>1 DEF Exact
  <2> QED BY <1>1, <2>1, <2>2, <2>3
<1>3. CASE pc[c] = "new"
  <2>1. PICK m \in Messages, asks \in SUBSET Messages : Comes(c, m, asks)
        BY <1>3, WhoComes
  <2>2. voice' = voice /\ msg'[c] = m /\ asked'[c] = asks
        BY <2>1 DEF Comes, Reserve, voiceVars, VInv, IInv, TypeOK
  <2>3. PICK b \in ready : /\ b = voice[c].batch /\ m = voice[c].msg
                           /\ asks = IF m = Owner(b) THEN Items(b) ELSE {}
        BY <2>1, <2>2 DEF Comes, Asks
  <2> QED BY <1>1, <2>2, <2>3
<1> QED BY <1>2, <1>3

(* Only _register gives out tickets.                                        *)
LEMMA NewTicket ==
    ASSUME VoiceTyped, [VoiceNext]_allVars, NEW c \in Calls, voice[c] = None, voice'[c] # None
    PROVE  Register(c)
<1>1. ASSUME NEW d \in Calls, Register(d), d # c PROVE FALSE
      BY <1>1 DEF Register, VoiceTyped
<1>2. ASSUME NEW d \in Calls, Waiting(d), \E how : Leave(d, how) PROVE FALSE
      BY <1>2 DEF Waiting, Leave, VoiceTyped
<1>3. ASSUME NEW p \in Processes, VoiceCrash(p) PROVE FALSE
      BY <1>3 DEF VoiceCrash, Waiting
<1> QED BY <1>1, <1>2, <1>3
        DEF VoiceNext, Text, Proceed, Cancel, Resolve, Close, voiceVars, allVars

(* A batch keeps its items, and gets at most one more at a time.            *)
LEMMA ItemsGrow ==
    ASSUME VoiceTyped, [VoiceNext]_allVars, NEW b \in Calls
    PROVE  Items(b)' = Items(b) \/ \E m \in Voices : Items(b)' = Items(b) \cup {m}
<1>1. \A c \in Calls : voice[c] # None => /\ voice'[c] # None /\ voice'[c].msg = voice[c].msg
                                          /\ voice'[c].batch = voice[c].batch
      BY TicketsStay
<1>2. CASE \E c \in Calls : voice[c] = None /\ voice'[c] # None
  <2>1. PICK c \in Calls : voice[c] = None /\ voice'[c] # None
        BY <1>2
  <2>2. Register(c)
        BY <2>1, NewTicket
  <2>3. \A d \in Calls \ {c} : voice'[d] = voice[d]
        BY <2>2 DEF Register, VoiceTyped
  <2>4. voice'[c].msg \in Voices
        BY <2>1, VoiceTypeStep DEF VoiceTyped, Tickets
  <2>5. Items(b)' = Items(b) \cup (IF voice'[c].batch = b THEN {voice'[c].msg} ELSE {})
        BY <2>1, <2>3 DEF Items, InBatch
  <2> QED BY <2>4, <2>5
<1>3. CASE ~\E c \in Calls : voice[c] = None /\ voice'[c] # None
  <2>1. InBatch(b)' = InBatch(b)
        BY <1>1, <1>3 DEF InBatch
  <2> QED BY <1>1, <2>1 DEF Items, InBatch
<1> QED BY <1>2, <1>3

(* Every step keeps every batch with a latest message.                      *)
LEMMA NextLed == VoiceTyped /\ Led /\ [VoiceNext]_allVars => Led'
<1> SUFFICES ASSUME VoiceTyped, Led, [VoiceNext]_allVars, NEW b \in Calls, Items(b)' # {}
             PROVE  \E m \in Items(b)' : \A n \in Items(b)' : n <= m
    BY DEF Led
<1>1. Items(b) \subseteq Nat /\ Voices \subseteq Nat
      BY TicketFacts, VoicesAreMessages, MessagesAreInOrder DEF Items, InBatch
<1>2. CASE Items(b)' = Items(b)
      BY <1>2 DEF Led
<1>3. ASSUME NEW k \in Voices, Items(b)' = Items(b) \cup {k}
      PROVE  \E m \in Items(b)' : \A n \in Items(b)' : n <= m
  <2>1. CASE Items(b) = {}
        BY <1>1, <1>3, <2>1
  <2>2. CASE Items(b) # {}
    <3>1. PICK m \in Items(b) : \A n \in Items(b) : n <= m
          BY <2>2 DEF Led
    <3>2. CASE k <= m
          BY <1>3, <3>1, <3>2
    <3>3. CASE ~(k <= m)
      <4>1. m \in Nat /\ k \in Nat
            BY <1>1, <3>1
      <4>2. k <= k /\ \A n \in Items(b) : n <= k
            BY <1>1, <3>1, <3>3, <4>1
      <4> QED BY <1>3, <4>2
    <3> QED BY <3>2, <3>3
  <2> QED BY <2>1, <2>2
<1> QED BY <1>2, <1>3, ItemsGrow

(* Every step keeps a joined call with the call it joined.                  *)
LEMMA NextJoined == VInv /\ Settled /\ Joined /\ [VoiceNext]_allVars => Joined'
<1> SUFFICES ASSUME VInv, Settled, Joined, [VoiceNext]_allVars,
                    NEW c \in Calls, voice'[c] # None, voice'[c].left = "joined"
             PROVE  \E d \in Calls : pc'[d] # "new" /\ msg'[d] = voice'[c].msg
    BY DEF Joined
<1>1. ASSUME voice[c] # None, NEW d \in Calls, pc[d] # "new", msg[d] = voice[c].msg
      PROVE  pc'[d] # "new" /\ msg'[d] = voice'[c].msg
  <2>1. voice'[c].msg = voice[c].msg
        BY <1>1, TicketsStay DEF VInv
  <2> QED BY <1>1, <2>1, Lasting
<1>2. CASE voice'[c] = voice[c]
      BY <1>1, <1>2 DEF Joined
<1>3. CASE voice'[c] # voice[c]
  <2>1. ASSUME NEW d \in Calls, Register(d) PROVE FALSE
    <3>1. PICK m \in Voices, p \in Processes, b \in Calls :
             voice' = [voice EXCEPT ![d] = [msg |-> m, at |-> p, batch |-> b, left |-> "no"]]
          BY <2>1 DEF Register
    <3> QED BY <1>3, <3>1 DEF VInv, VoiceTyped
  <2>2. ASSUME NEW d \in Calls, Cancel(d) PROVE FALSE
    <3>1. voice[d] \in Tickets /\ voice' = [voice EXCEPT ![d] = [voice[d] EXCEPT !.left = "lost"]]
          BY <2>2, TicketFacts DEF Cancel, Leave, Waiting, VInv
    <3>2. [voice[d] EXCEPT !.left = "lost"].left = "lost"
          BY <3>1 DEF Tickets
    <3> QED BY <1>3, <3>1, <3>2 DEF VInv, VoiceTyped
  <2>3. ASSUME NEW p \in Processes, VoiceCrash(p) PROVE FALSE
    <3>1. Waiting(c) /\ voice'[c] = [voice[c] EXCEPT !.left = "lost"]
          BY <1>3, <2>3 DEF VoiceCrash
    <3>2. voice[c] \in Tickets
          BY <3>1, TicketFacts DEF Waiting, VInv
    <3>3. [voice[c] EXCEPT !.left = "lost"].left = "lost"
          BY <3>2 DEF Tickets
    <3> QED BY <3>1, <3>3
  <2>4. PICK d \in Calls : Proceed(d)
        BY <1>3, <2>1, <2>2, <2>3 DEF VoiceNext, Text, Resolve, Close, voiceVars, allVars
  <2>5. Waiting(d) /\ Leave(d, "joined") /\ ~Free(voice[d].msg)
        BY <1>3, <2>4 DEF Proceed
  <2>6. d = c
        BY <1>3, <2>5 DEF Leave, Waiting, VInv, VoiceTyped
  <2>7. PICK e \in Calls : msg[e] = voice[c].msg
        BY <2>5, <2>6 DEF Free
  <2>8. voice[c] # None /\ voice[c].msg \in Messages
        BY <2>5, <2>6, TicketFacts, VoicesAreMessages DEF Waiting, VInv
  <2>9. pc[e] # "new"
        BY <2>7, <2>8, NoneIsNoMessage DEF Settled
  <2> QED BY <1>1, <2>7, <2>8, <2>9
<1> QED BY <1>2, <1>3

(* What a call was asked is dealt with, or in its or a later call's hand.   *)
LEMMA AskedIsInHand ==
    ASSUME WInv, NEW c \in Calls, pc[c] # "new", NEW x \in asked[c]
    PROVE  DealtWith(x) \/ InHand(x)
<1> USE DEF WInv, VInv, IInv, Settled
<1>1. CASE pc[c] # "done"
      BY <1>1 DEF InHand
<1>2. CASE pc[c] = "done" /\ outcome[c] # "silenced"
  <2>1. outcome[c] \in {"answered", "quiet", "failed"}
        BY <1>2 DEF TypeOK, Outcomes
  <2> QED BY <2>1 DEF DealtWith, Answered
<1>3. CASE outcome[c] = "silenced"
  <2>1. c \in superseded /\ x \in merged[c]
        BY <1>3 DEF Fates
  <2>2. PICK d \in Calls : Carrier(d) /\ x \in merged[d]
        BY <2>1 DEF Carried
  <2> QED BY <2>2 DEF Carrier, DealtWith, InHand, Answered
<1> QED BY <1>1, <1>2, <1>3

(* So is whatever is in a batch.                                            *)
LEMMA BatchIsInHand ==
    ASSUME WInv, NEW b \in Calls, NEW x \in Items(b)
    PROVE  DealtWith(x) \/ InHand(x)
<1> USE DEF WInv, VInv
<1> DEFINE o == Owner(b)
<1>1. o \in Items(b)
      BY DEF Led, Owner
<1>2. PICK w \in Calls : voice[w] # None /\ voice[w].batch = b /\ voice[w].msg = o
      BY <1>1 DEF Items, InBatch
<1>3. o \in Voices /\ voice[w].left \in {"no", "joined", "lost"}
      BY <1>2, TicketFacts DEF Tickets
<1>4. ASSUME NEW d \in Calls, voice[d] # None, voice[d].batch = b, pc[d] # "new", msg[d] = o
      PROVE  DealtWith(x) \/ InHand(x)
  <2>1. asked[d] = Items(b)
        BY <1>4 DEF Exact, Asks
  <2> QED BY <1>4, <2>1, AskedIsInHand
<1> HIDE DEF o
<1>5. CASE voice[w].left = "lost"
      BY <1>2, <1>5 DEF DealtWith
<1>6. CASE voice[w].left = "no"
  <2>1. CASE pc[w] = "new"
        BY <1>2, <1>6, <2>1 DEF InHand, Waiting
  <2>2. CASE pc[w] # "new"
        BY <1>2, <1>4, <2>2 DEF Exact
  <2> QED BY <2>1, <2>2
<1>7. CASE voice[w].left = "joined"
  <2>1. PICK d \in Calls : pc[d] # "new" /\ msg[d] = o
        BY <1>2, <1>7 DEF Joined
  <2>2. voice[d] # None
        BY <1>3, <2>1 DEF Asked
  <2>3. CASE voice[d].batch = b
        BY <1>4, <2>1, <2>2, <2>3
  <2>4. CASE voice[d].batch # b
        BY <2>1, <2>4 DEF DealtWith, TakenElsewhere, o
  <2> QED BY <2>3, <2>4
<1> QED BY <1>3, <1>5, <1>6, <1>7

(* However calls join batches, cede, join one another, supersede one        *)
(* another, fail and come again: a message that came to the service is dealt *)
(* with, or some call has it in hand.  Calls come to an end, so this is what *)
(* EveryMessageIsAnswered asks beyond their termination.                    *)
THEOREM NobodyIsForgotten == VoiceSpec => []NoMessageIsForgotten
<1>1. ASSUME VoiceInit PROVE Settled /\ Exact /\ Led /\ Joined
  <2>1. \A c \in Calls : pc[c] = "new" /\ msg[c] = None /\ outcome[c] = "none" /\ voice[c] = None
        BY <1>1 DEF VoiceInit, Init
  <2> QED BY <2>1 DEF Settled, Exact, Led, Joined, Items, InBatch
<1>2. ASSUME WInv, VInv', [VoiceNext]_allVars PROVE WInv'
  <2>1. [Next]_vars
        BY <1>2, StepImplements DEF WInv, VInv
  <2>2. Settled'
        BY <1>2, <2>1, NextSettled DEF WInv, VInv
  <2>3. Exact' /\ Joined'
        BY <1>2, NextExact, NextJoined DEF WInv
  <2>4. Led'
        BY <1>2, NextLed DEF WInv, VInv
  <2> QED BY <1>2, <2>2, <2>3, <2>4 DEF WInv
<1>3. ASSUME WInv PROVE NoMessageIsForgotten
  <2> SUFFICES ASSUME NEW m \in Messages, TakenUp(m) PROVE DealtWith(m) \/ InHand(m)
      BY DEF NoMessageIsForgotten
  <2>1. ASSUME NEW c \in Calls, voice[c] # None, voice[c].msg = m
        PROVE  DealtWith(m) \/ InHand(m)
    <3>1. voice[c].batch \in Calls /\ m \in Items(voice[c].batch)
          BY <1>3, <2>1, TicketFacts DEF WInv, VInv, Items, InBatch
    <3> QED BY <1>3, <3>1, BatchIsInHand
  <2>2. ASSUME NEW c \in Calls, pc[c] # "new", msg[c] = m PROVE DealtWith(m) \/ InHand(m)
    <3>1. CASE voice[c] = None
      <4>1. m \in asked[c]
            BY <1>3, <2>2, <3>1 DEF WInv, VInv, Asked
      <4> QED BY <1>3, <2>2, <4>1, AskedIsInHand
    <3>2. CASE voice[c] # None
          BY <1>3, <2>1, <2>2, <3>2 DEF WInv, Exact
    <3> QED BY <3>1, <3>2
  <2> QED BY <2>1, <2>2 DEF TakenUp
<1> QED BY <1>1, <1>2, <1>3, BatchInvariance, PTL DEF VoiceSpec, WInv
=============================================================================
