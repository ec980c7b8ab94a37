-------------------------- MODULE MCPacketSession --------------------------
(***************************************************************************)
(* Small instances of PacketSession: a header of two units, and packets of *)
(* two and three units that arrive in pieces.  Of ThreePackets the payload *)
(* looks like a header should the framing be lost; TwoThenBad ends with a  *)
(* size field below the size of a header.                                  *)
(***************************************************************************)
EXTENDS PacketSession

ThreePackets == <<3, 3, 3, 2, 2, 3, 3, 3>>
TwoThenBad == <<2, 0, 2, 0, 1, 0, 2, 0>>
=============================================================================
