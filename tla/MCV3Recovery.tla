---------------------------- MODULE MCV3Recovery ----------------------------
(* V3Recovery for TLC.  Calls, workers, messages and replies are each
   interchangeable; the runs with liveness do without the symmetry. *)
EXTENDS V3Recovery, TLC

MCSymmetry == Permutations(Calls) \cup Permutations(Workers)
              \cup Permutations(Messages) \cup Permutations(Replies)
=============================================================================
