------------------------------ MODULE MCFriendsClient ------------------------------
(* FriendsClient for TLC: one request of the other's, two things on their way  *)
(* when a third starts, and a user who uses either the dialog or the panel.    *)
EXTENDS FriendsClient

PanesApart == {{"dialog"}, {"panel"}}

================================================================================
