--------------------------- MODULE HandlerThreads ---------------------------
(***************************************************************************)
(* The threads of the PacketProcessor (PacketProcessor::Start makes them): *)
(* PacketProcessor models how they wait for sessions, PacketSession what   *)
(* they do with the buffer of one session.                                 *)
(***************************************************************************)
CONSTANT Workers \* the vector PacketProcessor::workers
=============================================================================
