-------------------------------- MODULE MCMessages --------------------------------
(* Messages for TLC: an owner and another user, one message, two texts.      *)
EXTENDS Messages, TLC

Symmetry == Permutations(Handlers) \cup Permutations(Texts)

================================================================================
