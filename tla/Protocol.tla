------------------------------ MODULE Protocol ------------------------------
(***************************************************************************)
(* The vocabulary of the protocol between Client/ and Server/: the request *)
(* and answer codes, what the model keeps of a request and of an answer,   *)
(* and the content of an uploaded file as the server's disk holds it.      *)
(*                                                                         *)
(* Keys, identifiers and packets are kept as small values that can only be *)
(* compared: an AES key and an RSA key pair are the number of their        *)
(* generation, a packet of the encrypted file is its number together with  *)
(* the key it was encrypted with.                                          *)
(***************************************************************************)
EXTENDS Integers, Sequences

CONSTANTS
  TotalPackets,  \* packets the encrypted file is cut into
  MaxTries       \* MAX_TRIES of Client/global.h (4 there)

ASSUME ProtocolAssumption ==
  /\ TotalPackets \in Nat \ {0}
  /\ MaxTries \in Nat \ {0}

-----------------------------------------------------------------------------
(* Request_codes and Answer_codes of Client/global.h.                      *)

REGISTERING_825        == 825
SEND_PUBLIC_KEY_826    == 826
RECONNECT_827          == 827
SEND_FILE_828          == 828
VALID_CRC_900          == 900
WRONG_CRC_TRY_AGAIN_901 == 901
WRONG_CRC_4TH_902      == 902

FinishCodes  == {VALID_CRC_900, WRONG_CRC_4TH_902}
CrcCodes     == FinishCodes \cup {WRONG_CRC_TRY_AGAIN_901}
RequestCodes == CrcCodes \cup {REGISTERING_825, SEND_PUBLIC_KEY_826,
                               RECONNECT_827, SEND_FILE_828}

REGISTERING_DONE_1600        == 1600
REGISTERING_FAILED_1601      == 1601
GET_PUBLIC_KEY_SEND_AES_1602 == 1602
VALID_FILE_AND_CRC_1603      == 1603
THANK_YOU_1604               == 1604
VALID_RECONNECT_1605         == 1605
INVALID_RECONNECT_1606       == 1606
GENERAL_ERROR_1607           == 1607

\* Answers that are a header and nothing else.
BareAnswers == {REGISTERING_FAILED_1601, GENERAL_ERROR_1607}
AnswerCodes == BareAnswers \cup
  {REGISTERING_DONE_1600, GET_PUBLIC_KEY_SEND_AES_1602,
   VALID_FILE_AND_CRC_1603, THANK_YOU_1604, VALID_RECONNECT_1605,
   INVALID_RECONNECT_1606}

-----------------------------------------------------------------------------
(* Client identifiers (uuid4): "old" is one handed out before the model    *)
(* starts, "new" the one a registration in the model hands out, "other"    *)
(* belongs to another installation that registered the same name, "stray"  *)
(* to a registration whose name came short; "none" stands for the 16 zero  *)
(* bytes a registration carries and for no file.                           *)

Ids == {"none", "old", "new", "other", "stray"}

(* A request on the wire. cut: its first bytes were already consumed and   *)
(* only the rest of it is left in the stream.                              *)
Requests ==
  [code : RequestCodes, id : Ids, pair : Int, packet : 0..TotalPackets,
   key : Nat, damaged : BOOLEAN, cut : BOOLEAN]

Request(code, id) ==
  [code |-> code, id |-> id, pair |-> 0, packet |-> 0, key |-> 0,
   damaged |-> FALSE, cut |-> FALSE]

PublicKeyRequest(id, pair) ==
  [Request(SEND_PUBLIC_KEY_826, id) EXCEPT !.pair = pair]

PacketRequest(id, packet, key, damaged) ==
  [Request(SEND_FILE_828, id) EXCEPT !.packet = packet, !.key = key,
                                     !.damaged = damaged]

(* An answer: 1602 and 1605 carry AES key "key" encrypted for key pair     *)
(* "pair", 1603 the checksum of what the server decrypted, "match" saying  *)
(* whether it is the checksum of the file that was sent.                   *)
Answers ==
  [code : AnswerCodes, id : Ids, key : Nat, pair : Int, match : BOOLEAN]

Answer(code, id) ==
  [code |-> code, id |-> id, key |-> 0, pair |-> 0, match |-> FALSE]

AesAnswer(code, id, key, pair) ==
  [Answer(code, id) EXCEPT !.key = key, !.pair = pair]

CrcAnswer(id, match) ==
  [Answer(VALID_FILE_AND_CRC_1603, id) EXCEPT !.match = match]

-----------------------------------------------------------------------------
(* What the server appended to the uploaded file, packet by packet: still  *)
(* encrypted ("cipher"), decrypted in place ("plain"), altered on its way  *)
(* or decrypted with a key that is not its own ("damaged"), or shorter     *)
(* than the packet that was sent ("short"). The empty sequence: no file.   *)

Chunks == [packet : 0..TotalPackets, key : Nat,
           state : {"cipher", "plain", "damaged", "short"}]

Chunk(r, short) ==
  [packet |-> r.packet, key |-> r.key,
   state |-> IF short THEN "short"
             ELSE IF r.damaged THEN "damaged" ELSE "cipher"]

\* The whole file of one session, decrypted.
IntactFile(content) ==
  /\ Len(content) = TotalPackets
  /\ \A i \in 1..TotalPackets :
        content[i] = [packet |-> i, key |-> content[1].key, state |-> "plain"]
=============================================================================
