------------------------------ MODULE ReplyOnce ------------------------------
(***************************************************************************)
(* What the reply service promises about one platform message: a result is *)
(* decided at most once, and every call that carries the message is told   *)
(* either that result or nothing.                                          *)
(***************************************************************************)
CONSTANTS Calls, Payloads, None, Wait

VARIABLES
    decided,  \* the one result, or None
    told      \* what each call was answered, or None

Init == decided = None /\ told = [c \in Calls |-> None]

Decide ==
    /\ decided = None
    /\ decided' \in Payloads
    /\ UNCHANGED told

Tell(c) ==
    /\ told[c] = None
    /\ \/ told' = [told EXCEPT ![c] = Wait]
       \/ decided # None /\ told' = [told EXCEPT ![c] = decided]
    /\ UNCHANGED decided

Next == Decide \/ \E c \in Calls : Tell(c)

Spec == Init /\ [][Next]_<<decided, told>>
=============================================================================
