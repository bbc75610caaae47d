----------------------------- MODULE MCOutreach -----------------------------
(* The instance of Outreach that is model-checked. *)
EXTENDS Outreach

\* A plan of two steps, and a later plan of one.
TwoPlans == {<<1, 1>>, <<1, 2>>, <<2, 1>>}
=============================================================================
