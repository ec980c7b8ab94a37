---------------------------- MODULE MCDummyClient ----------------------------
(***************************************************************************)
(* A small instance of DummyClient.                                        *)
(***************************************************************************)
EXTENDS DummyClient, TLC

Symmetry == Permutations(Sessions) \cup Permutations(Workers)
                \cup Permutations(Connectors) \cup Permutations(Loops)
=============================================================================
