-------------------------------- MODULE MCRooms --------------------------------
(* Small instances of Rooms for TLC. *)
EXTENDS Rooms, TLC

\* No account, handler or ban id is named in Init or Next.
Symmetry == Permutations(Users) \cup Permutations(Handlers) \cup Permutations(BanIds)

================================================================================
