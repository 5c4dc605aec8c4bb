-------------------------------- MODULE MCComposer --------------------------------
(* Composer for TLC: two chats, and three files so that uploads overlap.     *)
EXTENDS Composer, TLC

Symmetry == Permutations(Chats) \cup Permutations(Files)

================================================================================
