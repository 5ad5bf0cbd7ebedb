----------------------------- MODULE MCEventPoll -----------------------------
(* EventPoll with a few requests under way.                                *)
EXTENDS EventPoll, TLC

Symmetry == Permutations(Polls) \cup Permutations(Details)
=============================================================================
