-------------------------------- MODULE MCChatList --------------------------------
(* ChatList for TLC: two messages and two marks at a time, so that one of    *)
(* each can be counted by a response and the other by an event.             *)
EXTENDS ChatList

================================================================================
