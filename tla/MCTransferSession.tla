------------------------- MODULE MCTransferSession --------------------------
(***************************************************************************)
(* TransferSession for TLC: the sets its constants are given in the .cfg   *)
(* files.                                                                  *)
(***************************************************************************)
EXTENDS TransferSession

EveryFault     == {"split", "noise", "io", "kill"}
DamagedPackets == {"noise"}
FailingStorage == {"io"}
KilledClients  == {"kill"}

PlainIds  == {FALSE}
EitherIds == BOOLEAN
=============================================================================
