------------------------------- MODULE MCSessions -------------------------------
(* Small instances of Sessions for TLC. *)
EXTENDS Sessions, TLC

\* No id is named in Init or Next; without SessionIds, for the refinement run.
Symmetry == Permutations(Handlers) \cup Permutations(Passwords) \cup Permutations(ResetIds)

================================================================================
