---------------------------- MODULE RecoverOnce ----------------------------
(***************************************************************************)
(* What the reply service promises of a message whose call may give up: it *)
(* is answered over HTTP or by one proactive send, never by both; only an  *)
(* answer is sent that was cleared once it was there; the message is       *)
(* called recovered only once the customer has the whole answer, cancelled *)
(* only because the customer acted and nothing was sent, and all else ends *)
(* with a person.                                                          *)
(***************************************************************************)
VARIABLES
    answer,  \* the HTTP answer: "none", "holding" (a fallback text) or "real"
    run,     \* "open", "answered", "recovered", "cancelled" or "review"
    sent,    \* the proactive send: "no", "whole" or "broken", as it arrives
    acted,   \* the customer did something that makes the answer unwanted
    cleared  \* an answer to send is there, and the customer had not acted by then

vars == <<answer, run, sent, acted, cleared>>

Init == answer = "none" /\ run = "open" /\ sent = "no" /\ acted = FALSE /\ cleared = FALSE

Reply ==
    /\ run = "open" /\ answer = "none" /\ sent = "no"
    /\ \/ answer' = "real" /\ run' = "answered"
       \/ answer' = "holding" /\ run' = "open"
    /\ UNCHANGED <<sent, acted, cleared>>

Act ==
    /\ acted' = TRUE
    /\ UNCHANGED <<answer, run, sent, cleared>>

\* What the customer does later is too late for this attempt.
Clear ==
    /\ run = "open" /\ sent = "no" /\ ~acted
    /\ cleared' = TRUE
    /\ UNCHANGED <<answer, run, sent, acted>>

\* The attempt is over, with a send or without one.
Withdraw ==
    /\ cleared' = FALSE
    /\ UNCHANGED <<answer, run, sent, acted>>

Send ==
    /\ run = "open" /\ answer # "real" /\ sent = "no" /\ cleared
    /\ sent' \in {"whole", "broken"}
    /\ UNCHANGED <<answer, run, acted, cleared>>

Recover ==
    /\ run \in {"open", "review"} /\ sent = "whole"
    /\ run' = "recovered"
    /\ UNCHANGED <<answer, sent, acted, cleared>>

Cancel ==
    /\ run = "open" /\ sent = "no" /\ acted
    /\ run' = "cancelled"
    /\ UNCHANGED <<answer, sent, acted, cleared>>

Review ==
    /\ run = "open"
    /\ run' = "review"
    /\ UNCHANGED <<answer, sent, acted, cleared>>

Next == Reply \/ Act \/ Clear \/ Withdraw \/ Send \/ Recover \/ Cancel \/ Review

Spec == Init /\ [][Next]_vars
=============================================================================
