--------------------------- MODULE MCChatPresence ---------------------------
(***************************************************************************)
(* Small instances of ChatPresence.                                        *)
(***************************************************************************)
EXTENDS ChatPresence, TLC

TwoRooms == {1, 2}
Symmetry == Permutations(Sessions)
=============================================================================
