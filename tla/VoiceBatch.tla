----------------------------- MODULE VoiceBatch -----------------------------
(***************************************************************************)
(* PlatformVoiceBatchCoordinator in front of the reply coordinator.  The   *)
(* calls of a customer's voice messages wait in a batch of their process   *)
(* until it is settled and transcribed; then the call of the latest        *)
(* message carries all of them into the reply, and the others cede.        *)
(*                                                                         *)
(* Batches live in the memory of a process and know nothing of the runs: a *)
(* platform retry that misses its batch opens another one, and the first   *)
(* of the two calls to come through reserves the message.                  *)
(*                                                                         *)
(* A batch is named after the call that opened it.  Time is not counted:   *)
(* a window may end and a transcription may return, fail or time out at    *)
(* any moment, and whether the text is there makes no difference to who    *)
(* answers for it.                                                         *)
(***************************************************************************)
EXTENDS ReplyCoordinator

CONSTANTS
    Voices,    \* the messages that are voice messages
    MaxItems   \* platform_voice_batch_max_items

ASSUME MessagesAreInOrder == Messages \subseteq Nat   \* of their msgtime
ASSUME VoicesAreMessages == Voices \subseteq Messages
ASSUME SomeItems == MaxItems \in Nat \ {0}

VARIABLES
    voice,   \* of each call: the batch it waits in, and how it left
    open,    \* of each process: the batch that may be joined
    ready    \* the batches that have a result

voiceVars == <<voice, open, ready>>
allVars == <<vars, voiceVars>>

Tickets == [msg : Voices, at : Processes, batch : Calls, left : {"no", "joined", "lost"}]

ASSUME NoneIsNoTicket == None \notin Tickets

BatchesOK ==
    /\ TypeOK
    /\ voice \in [Calls -> Tickets \cup {None}]
    /\ open \in [Processes -> Calls \cup {None}]
    /\ ready \subseteq Calls

VoiceInit ==
    /\ Init
    /\ voice = [c \in Calls |-> None]
    /\ open = [p \in Processes |-> None]
    /\ ready = {}

InBatch(b) == {c \in Calls : voice[c] # None /\ voice[c].batch = b}

Items(b) == {voice[c].msg : c \in InBatch(b)}

Waiting(c) == voice[c] # None /\ voice[c].left = "no" /\ pc[c] = "new"

\* _build_batch_result: the latest message of the batch answers for all.
Owner(b) == CHOOSE m \in Items(b) : \A n \in Items(b) : n <= m

\* Mutant of Asks: the owner's request keeps its own transcript.
AsksAlone(c) == IF voice[c].msg = Owner(voice[c].batch) THEN {voice[c].msg} ELSE {}

\* What the call of a batch carries into the reply.
Asks(c) == IF voice[c].msg = Owner(voice[c].batch) THEN Items(voice[c].batch) ELSE {}

----------------------------------------------------------------------------
\* _register: the open batch takes the item unless it is full; a message that
\* is in it already is the same item.
MayJoin(b, p) == open[p] = b /\ Cardinality(Items(b)) < MaxItems

\* _register.  A batch whose hard window has passed is replaced as well.
Register(c) ==
    /\ pc[c] = "new" /\ voice[c] = None
    /\ \E m \in Voices, p \in Processes, b \in Calls :
          /\ MayJoin(b, p) \/ b = c
          /\ voice' = [voice EXCEPT ![c] = [msg |-> m, at |-> p, batch |-> b, left |-> "no"]]
          /\ open' = [open EXCEPT ![p] = b]
    /\ UNCHANGED <<vars, ready>>

\* _finalize_when_settled: quiet and transcribed, full, or at its hard window.
Close(p) ==
    /\ open[p] # None
    /\ open' = [open EXCEPT ![p] = None]
    /\ UNCHANGED <<vars, voice, ready>>

\* Its last part: the transcriptions are there, or their time is up.
Resolve(b) ==
    /\ b \notin ready
    /\ \A p \in Processes : open[p] # b
    /\ \E c \in InBatch(b) : Waiting(c)
    /\ ready' = ready \cup {b}
    /\ UNCHANGED <<vars, voice, open>>

Leave(c, how) == voice' = [voice EXCEPT ![c].left = how]

\* prepare returns: the call goes on to the reply, where it reserves its
\* message or joins the call that did.
Proceed(c) ==
    /\ Waiting(c) /\ voice[c].batch \in ready
    /\ \/ Reserve(c, voice[c].msg, voice[c].at, Asks(c)) /\ UNCHANGED voice
       \/ ~Free(voice[c].msg) /\ Leave(c, "joined") /\ UNCHANGED vars
    /\ UNCHANGED <<open, ready>>

\* The call is cancelled while it waits; its item stays in the batch.
Cancel(c) ==
    /\ Waiting(c)
    /\ Leave(c, "lost")
    /\ UNCHANGED <<vars, open, ready>>

\* A text message goes straight to the reply.
Text(c) ==
    /\ voice[c] = None
    /\ \E m \in Messages \ Voices, p \in Processes : Reserve(c, m, p, {m})
    /\ UNCHANGED voiceVars

VoiceCrash(p) ==
    /\ Crash(p)
    /\ voice' = [c \in Calls |-> IF Waiting(c) /\ voice[c].at = p
                                 THEN [voice[c] EXCEPT !.left = "lost"] ELSE voice[c]]
    /\ open' = [open EXCEPT ![p] = None]
    /\ UNCHANGED ready

VoiceNext ==
    \/ \E c \in Calls : \/ Register(c) \/ Proceed(c) \/ Cancel(c) \/ Text(c) \/ Resolve(c)
                        \/ (CallStep(c) \/ Raise(c)) /\ UNCHANGED voiceVars
    \/ \E p \in Processes : Close(p) \/ (Forget(p) /\ UNCHANGED voiceVars) \/ VoiceCrash(p)

VoiceSpec == VoiceInit /\ [][VoiceNext]_allVars

\* The tasks of a process are scheduled, windows end, and a transcription has
\* a time limit; nothing makes the customer write.
FairVoiceSpec ==
    /\ VoiceSpec
    /\ \A c \in Calls : /\ WF_allVars(CallStep(c) /\ UNCHANGED voiceVars)
                        /\ WF_allVars(Proceed(c)) /\ WF_allVars(Resolve(c))
    /\ \A p \in Processes : WF_allVars(Close(p))

----------------------------------------------------------------------------
(* Properties *)

\* Messages that were in two batches: of two processes, or of a call and its
\* retry.
Rebatched == {m \in Voices : \E c, d \in Calls : /\ voice[c] # None /\ voice[c].msg = m
                                                /\ voice[d] # None /\ voice[d].msg = m
                                                /\ voice[c].batch # voice[d].batch}

(* A message is answered twice only by way of a call that was asked for it  *)
(* and superseded (after its last look at its record, or before a failure   *)
(* that left its silence unsaved, so that its message is retried), or of a  *)
(* voice message that was delivered to two batches.  With its message a     *)
(* voice call retries its whole batch.                                      *)
AnsweredTwiceOnlyIfSuperseded ==
    \A c, d \in Answered \ superseded :
        c # d => merged[c] \cap merged[d] \subseteq
                     Rebatched \cup UNION {asked[e] : e \in {x \in superseded : outcome[x] = "failed"}}

\* The call that was to answer for m found its message reserved by a call of
\* another batch.
TakenElsewhere(m) ==
    \E b, d \in Calls : /\ m \in Items(b) /\ msg[d] = Owner(b)
                        /\ voice[d].batch # b

\* Messages that have come to a call, or into a batch.
TakenUp(m) ==
    \E c \in Calls : \/ pc[c] # "new" /\ msg[c] = m
                     \/ voice[c] # None /\ voice[c].msg = m

\* A message is in the input of a call that has answered, unless a call that
\* carried it was told to stay quiet, has failed or died in its batch, or the
\* owner of its batch was answered by way of another batch.
DealtWith(m) ==
    \/ \E c \in Answered : m \in merged[c]
    \/ \E c \in Calls : /\ m \in merged[c] \cup asked[c] \cup {msg[c]}
                        /\ outcome[c] \in {"quiet", "failed"}
    \/ \E c \in Calls : /\ voice[c] # None /\ voice[c].left = "lost"
                        /\ m \in Items(voice[c].batch)
    \/ TakenElsewhere(m)

\* A call is at work on it, or waits for the result of its batch.
InHand(m) ==
    \E c \in Calls : \/ pc[c] \notin {"new", "done"} /\ m \in merged[c] \cup asked[c] \cup {msg[c]}
                     \/ Waiting(c) /\ m \in Items(voice[c].batch)

(* No message is forgotten: however calls join batches, cede, join one      *)
(* another, supersede one another, fail and come again, a message that was  *)
(* taken up is dealt with, or a call is left that has it in hand.           *)
NoMessageIsForgotten == \A m \in Messages : TakenUp(m) => DealtWith(m) \/ InHand(m)

(* Every message is dealt with in the end.                                  *)
EveryMessageIsAnswered == \A m \in Messages : TakenUp(m) ~> DealtWith(m)
=============================================================================
