------------------------------ MODULE Packets ------------------------------
(***************************************************************************)
(* How send_file cuts the encrypted file into packets and how the server   *)
(* puts them together, with the widths the code uses: int for sizes and    *)
(* indexes, 32 bits for the payload size and 16 for the packet numbers on  *)
(* the wire. A content is a number of bytes; whether the server's bytes    *)
(* are the file's is kept in exact.                                        *)
(***************************************************************************)
EXTENDS Integers

CONSTANTS
  PacketMax,   \* PACKET_MAX_SIZE
  Block,       \* block size of AES
  FieldsSize,  \* the fields of a packet before its content
  CountMax,    \* the largest number of 16 bits
  IntMax,      \* the largest int
  Sizes        \* sizes of files

ASSUME PacketsAssumption ==
  /\ PacketMax \in Nat \ {0} /\ Block \in Nat \ {0}
  /\ FieldsSize \in Nat /\ CountMax \in Nat \ {0} /\ IntMax \in Nat
  /\ FieldsSize + PacketMax <= IntMax
  /\ CountMax < IntMax
  /\ (2 * (IntMax + 1)) % Block = 0
  /\ Sizes \subseteq Nat

VARIABLES
  pc,             \* "start", "sending", "waiting" for 1603, "refused"
  size,           \* original_file.size()
  total_packets, packet_number, encrypted_file_size_counter, begin, end,
  stored,         \* bytes in the server's file
  exact,          \* they are the first ones of the encrypted file
  lasts,          \* packets the server took for the last
  whole           \* each of them found the whole encrypted file

clientVars == <<total_packets, packet_number, encrypted_file_size_counter,
                begin, end>>
serverVars == <<stored, exact, lasts, whole>>
vars == <<pc, size, clientVars, serverVars>>

-----------------------------------------------------------------------------
(* Conversions.                                                            *)

ToU32(k) == k % (2 * (IntMax + 1))
ToU16(k) == k % (CountMax + 1)
ToInt(k) == IF ToU32(k) <= IntMax THEN ToU32(k)
            ELSE ToU32(k) - 2 * (IntMax + 1)

\* / and % of C++ round towards zero
Quotient(a, b) == IF a >= 0 THEN a \div b ELSE -((-a) \div b)
RestOf(a, b) == a - b * Quotient(a, b)

\* AESWrapper::encrypt: CBC with PKCS padding, of a length of 32 bits
encrypted_size(k) == (ToU32(k) \div Block + 1) * Block

calculate_total_packets_Rounded(file_size) ==  \* mutant: no extra packet
  Quotient(file_size, PacketMax)
calculate_total_packets_Always(file_size) ==  \* mutant: always one more
  Quotient(file_size, PacketMax) + 1
calculate_total_packets(file_size) ==
  Quotient(file_size, PacketMax)
    + (IF RestOf(file_size, PacketMax) # 0 THEN 1 ELSE 0)

\* setPayloadSize, maybe twice
payload_size ==
  ToU32(FieldsSize + (IF encrypted_file_size_counter > PacketMax THEN PacketMax
                      ELSE encrypted_file_size_counter))
\* what the server reads as the content
current_pucket_size == payload_size - FieldsSize

\* appendFileSlice(encrypted_file, begin, ...)
slice_Full == end - begin  \* mutant: the last packet is as long as the others
slice ==
  IF encrypted_file_size_counter > PacketMax THEN end - begin
  ELSE encrypted_file_size_counter

-----------------------------------------------------------------------------
Init ==
  /\ pc = "start" /\ size \in Sizes
  /\ total_packets = 0 /\ packet_number = 1
  /\ encrypted_file_size_counter = 0
  /\ begin = 0 /\ end = PacketMax
  /\ stored = 0 /\ exact = TRUE /\ lasts = 0 /\ whole = TRUE

Prepare ==
  /\ pc = "start"
  /\ LET file_size == ToInt(encrypted_size(size)) IN
     /\ pc' = IF calculate_total_packets(file_size) > CountMax THEN "refused"
              ELSE "sending"
     /\ total_packets' = calculate_total_packets(file_size)
     /\ encrypted_file_size_counter' = file_size
  /\ UNCHANGED <<size, packet_number, begin, end, serverVars>>

(* send_file_request_828: the first packet opens the file anew, the others *)
(* append; the one whose number is the total is taken for the last.        *)
Receive(number, total, from, length) ==
  LET before == IF number = 1 THEN 0 ELSE stored IN
  /\ stored' = before + current_pucket_size
  /\ exact' = (/\ number = 1 \/ exact
               /\ from = before
               /\ length = current_pucket_size)
  /\ lasts' = IF number = total THEN lasts + 1 ELSE lasts
  /\ whole' = (whole /\ (number = total =>
                           exact' /\ stored' = encrypted_size(size)))

SendPacket ==
  /\ pc = "sending" /\ encrypted_file_size_counter > 0
  /\ Receive(ToU16(packet_number), ToU16(total_packets), begin, slice)
  /\ packet_number' = packet_number + 1
  /\ begin' = begin + PacketMax
  /\ end' = end + PacketMax
  /\ encrypted_file_size_counter' = encrypted_file_size_counter - PacketMax
  /\ UNCHANGED <<pc, size, total_packets>>

AllSent ==
  /\ pc = "sending" /\ encrypted_file_size_counter <= 0
  /\ pc' = "waiting"
  /\ UNCHANGED <<size, clientVars, serverVars>>

Next == Prepare \/ SendPacket \/ AllSent

Spec == Init /\ [][Next]_vars

-----------------------------------------------------------------------------
(* Properties.                                                             *)

\* The packet the server takes for the last is the last: by then it has the
\* encrypted file, every byte of it once and in order (request.py:160,
\* client.cpp:210-237).
LastMeansWhole == whole

\* A client that waits for the checksum has sent one packet that calls for
\* it, unless the encrypted file has a size that is negative, or zero, as an
\* int: then no packet is sent at all (client.cpp:206, 210, 238).
LastPacketSent ==
  pc = "waiting" => lasts = 1 \/ encrypted_size(size) > IntMax

\* README.md:15 limits a file to 4096 * (2^16 - 1) bytes. Up to a block of
\* padding below it every file is sent, and above it none is, as long as its
\* encryption fits an int (various_functions.cpp:4-16).
SizeLimit ==
  /\ pc = "refused" => size > PacketMax * CountMax - Block
  /\ pc \in {"sending", "waiting"} =>
       size <= PacketMax * CountMax \/ size > IntMax - Block
=============================================================================
