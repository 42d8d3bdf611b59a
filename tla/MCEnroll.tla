------------------------------- MODULE MCEnroll -------------------------------
(* Enroll for TLC. *)
EXTENDS Enroll, TLC

Interchangeable == Permutations(Nodes) \cup Permutations(Keys)
                   \cup Permutations(Requests) \cup Permutations(Commands)
==============================================================================
