------------------------------ MODULE MCAttachments ------------------------------
(* Attachments for TLC: an owner and another user, one attachment (every     *)
(* property is about one) and two messages that may show it, three requests  *)
(* in flight.                                                                *)
EXTENDS Attachments, TLC

Symmetry == Permutations(Handlers) \cup Permutations(MsgIds)

================================================================================
