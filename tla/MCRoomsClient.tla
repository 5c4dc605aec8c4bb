------------------------------- MODULE MCRoomsClient -------------------------------
(* Each pane in turn: discovering and creating, and the three tabs of the  *)
(* settings, the invitation with the members.                              *)
EXTENDS RoomsClient

MCUses == {"discover", "info", "members", "bans"}
================================================================================
