----------------------------- MODULE MCPackets -----------------------------
(* Packets for TLC. *)
EXTENDS Packets

\* all sizes until the length of 32 bits starts again
EverySize == 0..(2 * (IntMax + 1) + PacketMax)
=============================================================================
