------------------------------ MODULE MCMessageCache ------------------------------
(* MessageCache for TLC: six messages in pages of two, so that a list can   *)
(* have three pages, and two sends on their way at the same time.           *)
EXTENDS MessageCache

================================================================================
