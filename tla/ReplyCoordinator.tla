-------------------------- MODULE ReplyCoordinator --------------------------
(***************************************************************************)
(* PlatformReplyCoordinator and the calls that use it: consecutive         *)
(* messages of one customer.  A call that begins while another is still    *)
(* generating takes its messages over and cancels it; the cancelled call   *)
(* answers nothing.  Records live in the memory of a reply process.        *)
(*                                                                         *)
(* A call begins after its message is reserved (V3Generation) and the      *)
(* takeover guard has answered, so calls begin in any order.  Between its  *)
(* last look at its record (chat_runtime.py:601) and complete (:637) a     *)
(* call commits and saves: a message that arrives there merges a message   *)
(* that is being answered.                                                 *)
(***************************************************************************)
EXTENDS Naturals, FiniteSets

CONSTANTS
    Calls,      \* HTTP calls that own the generation of their message
    Messages,   \* messages of one customer
    Processes,  \* reply processes
    None,
    MaxFaults   \* bound: failed saves, exceptions and crashes

ASSUME NoneIsNoCall == None \notin Calls \cup Processes
ASSUME NoneIsNoMessage == None \notin Messages
ASSUME FaultBound == MaxFaults \in Nat

VARIABLES
    msg, at,     \* of each call: its message and its process
    asked,       \* of each call: the messages its request carries; a voice batch
                 \* puts several into one request, and none into the others
    pc,          \* of each call: where it is
    outcome,     \* of each call: what the row of its message became
    inflight,    \* of each process: the call whose record is kept
    merged,      \* of each record: merged_customer_messages, as a set
    superseded,  \* the calls whose record has the status "superseded"
    faults

vars == <<msg, at, asked, pc, outcome, inflight, merged, superseded, faults>>

Outcomes == {"none", "answered", "silenced", "ceded", "quiet", "failed"}

TypeOK ==
    /\ msg \in [Calls -> Messages \cup {None}]
    /\ at \in [Calls -> Processes \cup {None}]
    /\ asked \in [Calls -> SUBSET Messages]
    /\ pc \in [Calls -> {"new", "guard", "graph", "saving", "dropping", "completing", "done"}]
    /\ outcome \in [Calls -> Outcomes]
    /\ inflight \in [Processes -> Calls \cup {None}]
    /\ merged \in [Calls -> SUBSET Messages]
    /\ superseded \subseteq Calls
    /\ faults \in 0 .. MaxFaults

Init ==
    /\ msg = [c \in Calls |-> None] /\ at = [c \in Calls |-> None]
    /\ asked = [c \in Calls |-> {}]
    /\ pc = [c \in Calls |-> "new"]
    /\ outcome = [c \in Calls |-> "none"]
    /\ inflight = [p \in Processes |-> None]
    /\ merged = [c \in Calls |-> {}]
    /\ superseded = {}
    /\ faults = 0

Goto(c, where) == pc' = [pc EXCEPT ![c] = where]

End(c, what) == Goto(c, "done") /\ outcome' = [outcome EXCEPT ![c] = what]

Fault == faults < MaxFaults /\ faults' = faults + 1

Running(c) == pc[c] \in {"graph", "saving", "completing"}

Answered == {c \in Calls : outcome[c] = "answered"}

\* A message is reserved once; again only when its call has failed.
Free(m) == \A d \in Calls : msg[d] = m => outcome[d] = "failed"

\* A call for message m, whose request carries the messages in asks.
Reserve(c, m, p, asks) ==
    /\ pc[c] = "new"
    /\ Free(m)
    /\ msg' = [msg EXCEPT ![c] = m]
    /\ at' = [at EXCEPT ![c] = p]
    /\ asked' = [asked EXCEPT ![c] = asks]
    /\ Goto(c, "guard")
    /\ UNCHANGED <<outcome, inflight, merged, superseded, faults>>

Arrive(c) ==
    \E m \in Messages, p \in Processes, asks \in SUBSET Messages :
        (asks = {} \/ m \in asks) /\ Reserve(c, m, p, asks)

\* Human takeover or a filter word: an empty answer is stored and no record is
\* made.
StayQuiet(c) ==
    /\ pc[c] = "guard"
    /\ End(c, "quiet")
    /\ UNCHANGED <<msg, at, asked, inflight, merged, superseded, faults>>

\* So it is for a call whose voice batch is answered by another one.
Cede(c) ==
    /\ pc[c] = "guard" /\ asked[c] = {}
    /\ End(c, "ceded")
    /\ UNCHANGED <<msg, at, asked, inflight, merged, superseded, faults>>

\* Mutant of Begin: only the last message of the previous record is merged.
BeginWithLast(c) ==
    /\ pc[c] = "guard" /\ asked[c] # {}
    /\ LET p == at[c]
           previous == {inflight[p]} \ {None}
       IN /\ merged' = [merged EXCEPT ![c] = asked[c] \cup {msg[d] : d \in previous}]
          /\ superseded' = superseded \cup previous
          /\ inflight' = [inflight EXCEPT ![p] = c]
    /\ Goto(c, "graph")
    /\ UNCHANGED <<msg, at, asked, outcome, faults>>

\* Mutant of Begin: the previous call is merged but not cancelled.
BeginWithoutCancel(c) ==
    /\ pc[c] = "guard" /\ asked[c] # {}
    /\ LET p == at[c]
           previous == {inflight[p]} \ {None}
       IN /\ merged' = [merged EXCEPT ![c] = asked[c] \cup UNION {merged[d] : d \in previous}]
          /\ inflight' = [inflight EXCEPT ![p] = c]
    /\ Goto(c, "graph")
    /\ UNCHANGED <<msg, at, asked, outcome, superseded, faults>>

\* Mutant of Begin: it is not tested whether there is a previous record.
BeginUntested(c) ==
    /\ pc[c] = "guard" /\ asked[c] # {}
    /\ superseded' = superseded \cup {inflight[at[c]]}
    /\ inflight' = [inflight EXCEPT ![at[c]] = c]
    /\ merged' = [merged EXCEPT ![c] = asked[c]]
    /\ Goto(c, "graph")
    /\ UNCHANGED <<msg, at, asked, outcome, faults>>

\* begin: the record that is kept is always of a running generation, since
\* complete pops the ones that end.
Begin(c) ==
    /\ pc[c] = "guard" /\ asked[c] # {}
    /\ LET p == at[c]
           previous == {inflight[p]} \ {None}
       IN /\ merged' = [merged EXCEPT ![c] = asked[c] \cup UNION {merged[d] : d \in previous}]
          /\ superseded' = superseded \cup previous
          /\ inflight' = [inflight EXCEPT ![p] = c]
    /\ Goto(c, "graph")
    /\ UNCHANGED <<msg, at, asked, outcome, faults>>

\* Mutant of Popped: whoever completes removes the record that is there.
PoppedBlindly(c) == [inflight EXCEPT ![at[c]] = None]

\* complete: only its own record is removed.
Popped(c) == [inflight EXCEPT ![at[c]] = IF @ = c THEN None ELSE @]

\* The graph has ended, or the cancel event has interrupted it; the record is
\* looked at a last time.
FinalCheck(c) ==
    /\ pc[c] = "graph"
    /\ IF c \in superseded
       THEN Goto(c, "dropping") /\ inflight' = Popped(c)
       ELSE Goto(c, "saving") /\ UNCHANGED inflight
    /\ UNCHANGED <<msg, at, asked, outcome, merged, superseded, faults>>

\* A superseded call stores its empty answer.
Drop(c) ==
    /\ pc[c] = "dropping"
    /\ End(c, "silenced")
    /\ UNCHANGED <<msg, at, asked, inflight, merged, superseded, faults>>

\* The commit graph and save_v3_reply_core ...
Save(c) ==
    /\ pc[c] = "saving"
    /\ \/ outcome' = [outcome EXCEPT ![c] = "answered"] /\ UNCHANGED faults
       \/ Fault /\ outcome' = [outcome EXCEPT ![c] = "failed"]
    /\ Goto(c, "completing")
    /\ UNCHANGED <<msg, at, asked, inflight, merged, superseded>>

\* ... then the record goes.
Complete(c) ==
    /\ pc[c] = "completing"
    /\ Goto(c, "done")
    /\ inflight' = Popped(c)
    /\ UNCHANGED <<msg, at, asked, outcome, merged, superseded, faults>>

CallStep(c) ==
    \/ StayQuiet(c) \/ Cede(c) \/ Begin(c)
    \/ FinalCheck(c) \/ Drop(c) \/ Save(c) \/ Complete(c)

\* An exception outside the graph, or an empty answer that cannot be stored:
\* complete is not reached and the record, if there is one, is left behind.
Raise(c) ==
    /\ pc[c] \notin {"new", "done"}
    /\ Fault
    /\ End(c, IF outcome[c] = "answered" THEN "answered" ELSE "failed")
    /\ UNCHANGED <<msg, at, asked, inflight, merged, superseded>>

\* _cleanup_locked: a record older than fifteen minutes; its call is over.
Forget(p) ==
    /\ inflight[p] # None /\ pc[inflight[p]] = "done"
    /\ inflight' = [inflight EXCEPT ![p] = None]
    /\ UNCHANGED <<msg, at, asked, pc, outcome, merged, superseded, faults>>

Crash(p) ==
    /\ Fault
    /\ LET lost == {c \in Calls : at[c] = p /\ pc[c] # "done"}
       IN /\ pc' = [c \in Calls |-> IF c \in lost THEN "done" ELSE pc[c]]
          /\ outcome' = [c \in Calls |->
                            IF c \in lost /\ outcome[c] = "none" THEN "failed" ELSE outcome[c]]
    /\ inflight' = [inflight EXCEPT ![p] = None]
    /\ UNCHANGED <<msg, at, asked, merged, superseded>>

Next ==
    \/ \E c \in Calls : Arrive(c) \/ CallStep(c) \/ Raise(c)
    \/ \E p \in Processes : Forget(p) \/ Crash(p)

Spec == Init /\ [][Next]_vars

----------------------------------------------------------------------------
(* Properties *)

(* A call that may still answer is the one the next message finds: at most  *)
(* one call of a process generates without having been told to stop, and    *)
(* its record has not been removed by a call it superseded.                 *)
RunningIsFindable ==
    \A c \in Calls : pc[c] = "graph" /\ c \notin superseded => inflight[at[c]] = c

(* Dropping a call drops no message: what a silenced call was asked is in   *)
(* the input of a call that still runs, has answered, or has failed and     *)
(* will be retried (test_coordinator_supersedes_old_request_and_keeps_raw_  *)
(* merged_messages).                                                        *)
SilencedIsCarried ==
    \A c \in Calls : outcome[c] = "silenced" =>
        \E d \in Calls \ {c} : /\ merged[c] \subseteq merged[d]
                               /\ Running(d) \/ outcome[d] \in {"answered", "failed"}
=============================================================================
