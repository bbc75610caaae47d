----------------------- MODULE ReplyCoordinatorProofs -----------------------
(***************************************************************************)
(* TypeOK, RunningIsFindable and SilencedIsCarried, for every number of    *)
(* calls, messages and processes and every bound on the faults.            *)
(***************************************************************************)
EXTENDS ReplyCoordinator, TLAPS

\* A call that has arrived has a process, one that is kept or superseded began.
Begun ==
    /\ \A c \in Calls : IF pc[c] = "new" THEN at[c] = None
                        ELSE msg[c] \in Messages /\ at[c] \in Processes
    /\ \A p \in Processes : inflight[p] # None => pc[inflight[p]] \notin {"new", "guard"}
    /\ \A c \in superseded : pc[c] \notin {"new", "guard"}

\* Where a call is, and what has become of its message.
Fates ==
    \A c \in Calls :
        /\ pc[c] \in {"new", "guard", "graph", "saving", "dropping"} => outcome[c] = "none"
        /\ pc[c] = "completing" => outcome[c] \in {"answered", "failed"}
        /\ pc[c] = "dropping" \/ outcome[c] = "silenced" => c \in superseded
        /\ outcome[c] = "silenced" => pc[c] = "done"

\* The calls that cannot be silenced any more, or have not been told to stop.
Carrier(d) ==
    \/ pc[d] = "graph" /\ d \notin superseded
    \/ pc[d] \in {"saving", "completing"}
    \/ outcome[d] \in {"answered", "failed"}

Carried ==
    \A c \in superseded : \E d \in Calls : Carrier(d) /\ merged[c] \subseteq merged[d]

IInv == TypeOK /\ Begun /\ Fates /\ RunningIsFindable /\ Carried

-----------------------------------------------------------------------------
(* The invariant holds at first and every step keeps it. *)
LEMMA InitIInv == Init => IInv
  BY NoneIsNoCall, FaultBound
     DEF Init, IInv, TypeOK, Begun, Fates, RunningIsFindable, Carried, Outcomes

(* Every step keeps the types. *)
LEMMA NextTypeOK == IInv /\ Next => TypeOK'
<1> SUFFICES ASSUME IInv, Next PROVE TypeOK'
    OBVIOUS
<1> USE NoneIsNoCall, FaultBound DEF IInv, TypeOK, Outcomes
<1>1. ASSUME NEW c \in Calls, Arrive(c) PROVE TypeOK'
      BY <1>1 DEF Arrive, Reserve, Goto
<1>2. ASSUME NEW c \in Calls, CallStep(c) PROVE TypeOK'
  <2>1. CASE StayQuiet(c)   BY <2>1 DEF StayQuiet, End, Goto
  <2>2. CASE Cede(c)        BY <2>2 DEF Cede, End, Goto
  <2>3. CASE Begin(c)
    <3>1. at[c] \in Processes
          BY <2>3 DEF Begin, Begun
    <3>2. inflight' \in [Processes -> Calls \cup {None}] /\ superseded' \subseteq Calls
          BY <2>3, <3>1 DEF Begin
    <3>3. merged' \in [Calls -> SUBSET Messages]
      <4>1. asked[c] \subseteq Messages
            OBVIOUS
      <4>2. UNION {merged[d] : d \in {inflight[at[c]]} \ {None}} \subseteq Messages
            BY <3>1
      <4> QED BY <2>3, <4>1, <4>2 DEF Begin
    <3> QED BY <2>3, <3>2, <3>3 DEF Begin, Goto
  <2>4. CASE FinalCheck(c)  BY <2>4 DEF FinalCheck, Goto, Popped
  <2>5. CASE Drop(c)        BY <2>5 DEF Drop, End, Goto
  <2>6. CASE Save(c)        BY <2>6 DEF Save, Fault, Goto
  <2>7. CASE Complete(c)    BY <2>7 DEF Complete, Goto, Popped
  <2> QED BY <1>2, <2>1, <2>2, <2>3, <2>4, <2>5, <2>6, <2>7 DEF CallStep
<1>3. ASSUME NEW c \in Calls, Raise(c) PROVE TypeOK'
      BY <1>3 DEF Raise, Fault, End, Goto
<1>4. ASSUME NEW p \in Processes, Forget(p) PROVE TypeOK'
      BY <1>4 DEF Forget
<1>5. ASSUME NEW p \in Processes, Crash(p) PROVE TypeOK'
      BY <1>5 DEF Crash, Fault
<1> QED BY <1>1, <1>2, <1>3, <1>4, <1>5 DEF Next

(* Every step keeps what is known of begun calls and of their fates. *)
LEMMA NextFates == IInv /\ Next => Begun' /\ Fates'
<1> SUFFICES ASSUME IInv, Next PROVE Begun' /\ Fates'
    OBVIOUS
<1> USE NoneIsNoCall DEF IInv, TypeOK, Begun, Fates, Outcomes
<1>1. ASSUME NEW c \in Calls, Arrive(c) PROVE Begun' /\ Fates'
      BY <1>1 DEF Arrive, Reserve, Goto
<1>2. ASSUME NEW c \in Calls, CallStep(c) PROVE Begun' /\ Fates'
  <2>1. CASE StayQuiet(c)   BY <2>1 DEF StayQuiet, End, Goto
  <2>2. CASE Cede(c)        BY <2>2 DEF Cede, End, Goto
  <2>3. CASE Begin(c)       BY <2>3 DEF Begin, Goto
  <2>4. CASE FinalCheck(c)  BY <2>4 DEF FinalCheck, Goto, Popped
  <2>5. CASE Drop(c)        BY <2>5 DEF Drop, End, Goto
  <2>6. CASE Save(c)        BY <2>6 DEF Save, Fault, Goto
  <2>7. CASE Complete(c)    BY <2>7 DEF Complete, Goto, Popped
  <2> QED BY <1>2, <2>1, <2>2, <2>3, <2>4, <2>5, <2>6, <2>7 DEF CallStep
<1>3. ASSUME NEW c \in Calls, Raise(c) PROVE Begun' /\ Fates'
      BY <1>3 DEF Raise, Fault, End, Goto
<1>4. ASSUME NEW p \in Processes, Forget(p) PROVE Begun' /\ Fates'
      BY <1>4 DEF Forget
<1>5. ASSUME NEW p \in Processes, Crash(p) PROVE Begun' /\ Fates'
  <2>1. ASSUME NEW c \in Calls
        PROVE  \/ pc'[c] = pc[c] /\ outcome'[c] = outcome[c]
               \/ /\ pc[c] # "new" /\ pc'[c] = "done"
                  /\ outcome'[c] = IF outcome[c] = "none" THEN "failed" ELSE outcome[c]
        BY <1>5 DEF Crash
  <2>2. Begun'
        BY <1>5, <2>1 DEF Crash
  <2>3. Fates'
        BY <1>5, <2>1 DEF Crash
  <2> QED BY <2>2, <2>3
<1> QED BY <1>1, <1>2, <1>3, <1>4, <1>5 DEF Next

(* Only its own record is popped, so a running call stays findable. *)
LEMMA NextFindable == IInv /\ Next => RunningIsFindable'
<1> SUFFICES ASSUME IInv, Next PROVE RunningIsFindable'
    OBVIOUS
<1> USE NoneIsNoCall DEF IInv, TypeOK, Begun, RunningIsFindable
<1>1. ASSUME NEW c \in Calls, Arrive(c) PROVE RunningIsFindable'
      BY <1>1 DEF Arrive, Reserve, Goto
<1>2. ASSUME NEW c \in Calls, CallStep(c) PROVE RunningIsFindable'
  <2>1. CASE StayQuiet(c)   BY <2>1 DEF StayQuiet, End, Goto
  <2>2. CASE Cede(c)        BY <2>2 DEF Cede, End, Goto
  <2>3. CASE Begin(c)       BY <2>3 DEF Begin, Goto
  <2>4. CASE FinalCheck(c)  BY <2>4 DEF FinalCheck, Goto, Popped
  <2>5. CASE Drop(c)        BY <2>5 DEF Drop, End, Goto
  <2>6. CASE Save(c)        BY <2>6 DEF Save, Goto
  <2>7. CASE Complete(c)    BY <2>7 DEF Complete, Goto, Popped
  <2> QED BY <1>2, <2>1, <2>2, <2>3, <2>4, <2>5, <2>6, <2>7 DEF CallStep
<1>3. ASSUME NEW c \in Calls, Raise(c) PROVE RunningIsFindable'
      BY <1>3 DEF Raise, End, Goto
<1>4. ASSUME NEW p \in Processes, Forget(p) PROVE RunningIsFindable'
      BY <1>4 DEF Forget
<1>5. ASSUME NEW p \in Processes, Crash(p) PROVE RunningIsFindable'
      BY <1>5 DEF Crash
<1> QED BY <1>1, <1>2, <1>3, <1>4, <1>5 DEF Next

(* A step that changes no record and supersedes nobody keeps Carried when   *)
(* every carrier remains one.                                               *)
LEMMA CarriersStay ==
    ASSUME Carried, superseded' = superseded, merged' = merged,
           \A d \in Calls : Carrier(d) => Carrier(d)'
    PROVE  Carried'
  BY DEF Carried

(* Every step keeps the messages of superseded calls carried. *)
LEMMA NextCarried == IInv /\ Next => Carried'
<1> SUFFICES ASSUME IInv, Next PROVE Carried'
    OBVIOUS
<1> USE NoneIsNoCall DEF IInv, TypeOK, Outcomes
<1>1. ASSUME NEW c \in Calls, Arrive(c) PROVE Carried'
      BY <1>1, CarriersStay DEF Arrive, Reserve, Goto, Carrier
<1>2. ASSUME NEW c \in Calls, CallStep(c) PROVE Carried'
  <2>1. CASE StayQuiet(c)
        BY <2>1, CarriersStay DEF StayQuiet, End, Goto, Carrier, Fates
  <2>2. CASE Cede(c)
        BY <2>2, CarriersStay DEF Cede, End, Goto, Carrier, Fates
  <2>3. CASE Begin(c)
    <3> DEFINE previous == {inflight[at[c]]} \ {None}
    <3>1. /\ pc[c] = "guard" /\ c \notin superseded
          /\ at[c] \in Processes /\ outcome[c] = "none"
          BY <2>3 DEF Begin, Begun, Fates
    <3>2. /\ pc' = [pc EXCEPT ![c] = "graph"] /\ outcome' = outcome
          /\ superseded' = superseded \cup previous
          /\ merged' = [merged EXCEPT ![c] = asked[c] \cup UNION {merged[d] : d \in previous}]
          BY <2>3 DEF Begin, Goto
    <3>3. previous \subseteq Calls /\ c \notin previous
          BY <3>1 DEF Begun
    <3>4. Carrier(c)'
          BY <3>1, <3>2, <3>3 DEF Carrier
    <3>5. ASSUME NEW d \in previous PROVE merged[d] \subseteq merged'[c]
          BY <3>2, <3>3
    <3>6. ASSUME NEW b \in superseded'
          PROVE  \E d \in Calls : Carrier(d)' /\ merged'[b] \subseteq merged'[d]
      <4>1. b \in Calls /\ b # c /\ merged'[b] = merged[b]
            BY <3>1, <3>2, <3>3
      <4>2. CASE b \in previous
            BY <3>4, <3>5, <4>1, <4>2
      <4>3. CASE b \in superseded
        <5>1. PICK d \in Calls : Carrier(d) /\ merged[b] \subseteq merged[d]
              BY <4>3 DEF Carried
        <5>2. CASE d \in previous
              BY <3>4, <3>5, <4>1, <5>1, <5>2
        <5>3. CASE d \notin previous
          <6>1. d # c
                BY <3>1, <5>1 DEF Carrier
          <6>2. Carrier(d)'
                BY <3>2, <5>1, <5>3, <6>1 DEF Carrier
          <6> QED BY <3>2, <4>1, <5>1, <6>1, <6>2
        <5> QED BY <5>2, <5>3
      <4> QED BY <3>2, <3>6, <4>2, <4>3
    <3> QED BY <3>6 DEF Carried
  <2>4. CASE FinalCheck(c)
        BY <2>4, CarriersStay DEF FinalCheck, Goto, Carrier
  <2>5. CASE Drop(c)
        BY <2>5, CarriersStay DEF Drop, End, Goto, Carrier, Fates
  <2>6. CASE Save(c)
        BY <2>6, CarriersStay DEF Save, Fault, Goto, Carrier
  <2>7. CASE Complete(c)
        BY <2>7, CarriersStay DEF Complete, Goto, Carrier, Fates
  <2> QED BY <1>2, <2>1, <2>2, <2>3, <2>4, <2>5, <2>6, <2>7 DEF CallStep
<1>3. ASSUME NEW c \in Calls, Raise(c) PROVE Carried'
      BY <1>3, CarriersStay DEF Raise, End, Goto, Carrier
<1>4. ASSUME NEW p \in Processes, Forget(p) PROVE Carried'
      BY <1>4, CarriersStay DEF Forget, Carrier
<1>5. ASSUME NEW p \in Processes, Crash(p) PROVE Carried'
      BY <1>5, CarriersStay DEF Crash, Carrier, Fates
<1> QED BY <1>1, <1>2, <1>3, <1>4, <1>5 DEF Next

(* Every step, and every stutter, keeps the invariant. *)
LEMMA StepIInv == IInv /\ [Next]_vars => IInv'
<1> SUFFICES ASSUME IInv, [Next]_vars PROVE IInv'
    OBVIOUS
<1>1. CASE Next
      BY <1>1, NextTypeOK, NextFates, NextFindable, NextCarried DEF IInv
<1>2. CASE UNCHANGED vars
      BY <1>2 DEF vars, IInv, TypeOK, Begun, Fates, RunningIsFindable, Carried, Carrier
<1> QED BY <1>1, <1>2

(* The strengthened invariant holds in every reachable state. *)
THEOREM CoordinatorInvariance == Spec => []IInv
  BY InitIInv, StepIInv, PTL DEF Spec

(* Type correctness of the coordinator and its calls. *)
THEOREM CoordinatorTypes == Spec => []TypeOK
<1>1. IInv => TypeOK
      BY DEF IInv
<1> QED BY <1>1, CoordinatorInvariance, PTL

(* In every process at most one call generates unsuperseded, and the next   *)
(* message finds it (begin and complete).                                   *)
THEOREM NewestIsFindable == Spec => []RunningIsFindable
<1>1. IInv => RunningIsFindable
      BY DEF IInv
<1> QED BY <1>1, CoordinatorInvariance, PTL

(* What a silenced call was asked is in the input of a call that runs, has  *)
(* answered or has failed (the merge of begin).                             *)
THEOREM NoMessageIsDropped == Spec => []SilencedIsCarried
<1>1. IInv => SilencedIsCarried
  <2> SUFFICES ASSUME IInv, NEW c \in Calls, outcome[c] = "silenced"
               PROVE  \E d \in Calls \ {c} :
                         /\ merged[c] \subseteq merged[d]
                         /\ Running(d) \/ outcome[d] \in {"answered", "failed"}
      BY DEF SilencedIsCarried
  <2>1. c \in superseded /\ pc[c] = "done"
        BY DEF IInv, Fates
  <2>2. PICK d \in Calls : Carrier(d) /\ merged[c] \subseteq merged[d]
        BY <2>1 DEF IInv, Carried
  <2>3. d # c
        BY <2>1, <2>2 DEF Carrier
  <2> QED BY <2>2, <2>3 DEF Carrier, Running
<1> QED BY <1>1, CoordinatorInvariance, PTL
=============================================================================
