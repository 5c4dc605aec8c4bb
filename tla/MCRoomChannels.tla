----------------------------- MODULE MCRoomChannels -----------------------------
(* Small instances of RoomChannels for TLC. *)
EXTENDS RoomChannels, TLC

\* No account, handler, socket or ban id is named in ChannelsInit or ChannelsNext.
Symmetry == Permutations(Users) \cup Permutations(Handlers) \cup Permutations(Sockets)

================================================================================
