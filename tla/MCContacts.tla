------------------------------- MODULE MCContacts -------------------------------
(* Small instances of Contacts for TLC. *)
EXTENDS Contacts, TLC

\* Neither user of the pair is distinguished, nor is any id.
Symmetry == Permutations(Pair) \cup Permutations(Handlers)
            \cup Permutations(RequestIds) \cup Permutations(ThreadIds)

================================================================================
