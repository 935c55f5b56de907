--------------------------- MODULE Packets_proofs ---------------------------
(***************************************************************************)
(* Packets cut by send_file and joined by the server, for every packet     *)
(* size, block size and width of the fields, and files of every size.      *)
(***************************************************************************)
EXTENDS Packets, TLAPS

E == encrypted_size(size)
T == calculate_total_packets(E)

-----------------------------------------------------------------------------
(* Arithmetic.                                                             *)

LEMMA Product ==
  ASSUME NEW a \in Int, NEW b \in Int, NEW p \in Nat, a <= b
  PROVE  a * p <= b * p
<1>1. PICK d \in Nat : b = a + d
  <2>1. b - a \in Nat /\ b = a + (b - a)  OBVIOUS
  <2> QED  BY <2>1
<1>2. d * p \in Nat  OBVIOUS
<1>3. b * p = a * p + d * p  BY <1>1
<1> QED  BY <1>2, <1>3

LEMMA SmallRest ==
  ASSUME NEW k \in Nat, NEW q \in Nat, k < q
  PROVE  k % q = k
OBVIOUS

LEMMA Division ==
  ASSUME NEW k \in Nat, NEW p \in Nat, p > 0
  PROVE  /\ k \div p \in Nat
         /\ k % p \in 0..(p - 1)
         /\ k = p * (k \div p) + (k % p)
<1>1. k % p \in 0..(p - 1)  OBVIOUS
<1>2. k \div p \in Nat  OBVIOUS
<1>3. k = p * (k \div p) + (k % p)  BY SMTT(60)
<1> QED  BY <1>1, <1>2, <1>3

U == 2 * (IntMax + 1)

\* AESWrapper::encrypt adds one to Block bytes to what fits 32 bits, and the
\* result is no longer than a number of 32 bits can count.
LEMMA EncryptedSize ==
  ASSUME NEW z \in Nat
  PROVE  /\ encrypted_size(z) \in Nat \ {0}
         /\ encrypted_size(z) <= U
         /\ encrypted_size(z) <= z + Block
         /\ z <= IntMax => z < encrypted_size(z)
<1> USE PacketsAssumption
<1> DEFINE k == ToU32(z)
           q == k \div Block
           rest == k % Block
           u == U \div Block
<1>1. k \in Nat /\ k < U /\ k <= z /\ (z <= IntMax => k = z)
  BY SmallRest, Division DEF ToU32, U
<1>2. /\ q \in Nat /\ rest \in Nat /\ rest < Block
      /\ k = Block * q + rest
  BY <1>1, Division
<1>3. U \in Nat /\ u \in Nat /\ U = Block * u
  <2>1. U \in Nat /\ U % Block = 0  BY DEF U
  <2> QED  BY <2>1, Division
<1>4. encrypted_size(z) = (q + 1) * Block  BY DEF encrypted_size
<1> DEFINE bq == Block * q
<1>5. (q + 1) * Block = bq + Block  BY <1>2
<1>6. bq \in Nat  BY <1>2
<1> HIDE DEF k, q, u, rest
<1>7. q + 1 <= u
  <2>1. SUFFICES ASSUME u <= q PROVE FALSE  BY <1>2, <1>3
  <2>2. u * Block <= q * Block  BY <2>1, <1>2, <1>3, Product
  <2>3. u * Block = U /\ q * Block = bq  BY <1>2, <1>3
  <2> HIDE DEF bq
  <2> QED  BY <2>2, <2>3, <1>1, <1>2, <1>3, <1>6 DEF bq
<1>8. (q + 1) * Block <= u * Block  BY <1>7, <1>2, <1>3, Product
<1>9. u * Block = U  BY <1>3
<1>10. k = bq + rest  BY <1>2
<1> HIDE DEF bq
<1> QED  BY <1>1, <1>2, <1>3, <1>4, <1>5, <1>6, <1>8, <1>9, <1>10

\* various_functions.cpp:4: the number of packets is the size divided by
\* PACKET_MAX_SIZE and rounded up.
LEMMA RoundedUp ==
  ASSUME NEW k \in Nat \ {0}
  PROVE  /\ calculate_total_packets(k) \in Nat \ {0}
         /\ (calculate_total_packets(k) - 1) * PacketMax < k
         /\ k <= calculate_total_packets(k) * PacketMax
<1> USE PacketsAssumption
<1> DEFINE q == k \div PacketMax
           r == k % PacketMax
           t == calculate_total_packets(k)
<1>1. q \in Nat /\ r \in 0..(PacketMax - 1) /\ k = PacketMax * q + r
  BY Division
<1>2. Quotient(k, PacketMax) = q  BY DEF Quotient
<1>3. RestOf(k, PacketMax) = r
  <2>1. RestOf(k, PacketMax) = k - PacketMax * q  BY <1>2 DEF RestOf
  <2> HIDE DEF q, r
  <2> QED  BY <2>1, <1>1
<1>4. t = q + (IF r # 0 THEN 1 ELSE 0)
  BY <1>2, <1>3 DEF calculate_total_packets
<1> HIDE DEF q, r, t
<1>5. CASE r = 0
  <2>1. t = q /\ k = q * PacketMax  BY <1>1, <1>4, <1>5
  <2>2. q # 0  BY <2>1, <1>1
  <2>3. (q - 1) * PacketMax = q * PacketMax - PacketMax  BY <1>1
  <2> QED  BY <1>1, <2>1, <2>2, <2>3 DEF t
<1>6. CASE r # 0
  <2>1. t = q + 1 /\ k = q * PacketMax + r  BY <1>1, <1>4, <1>6
  <2>2. (q + 1) * PacketMax = q * PacketMax + PacketMax  BY <1>1
  <2>3. q * PacketMax \in Nat  BY <1>1
  <2> QED  BY <1>1, <1>6, <2>1, <2>2, <2>3 DEF t
<1> QED  BY <1>5, <1>6

-----------------------------------------------------------------------------
(* The loop: so many packets sent, so many bytes stored.                   *)

Loop ==
  /\ packet_number \in 1..(T + 1)
  /\ total_packets = T /\ T <= CountMax
  /\ begin = (packet_number - 1) * PacketMax
  /\ end = begin + PacketMax
  /\ encrypted_file_size_counter = E - begin
  /\ exact
  /\ stored = IF packet_number = T + 1 THEN E ELSE begin
  /\ lasts = IF packet_number = T + 1 THEN 1 ELSE 0

(* A size that is no positive int sends nothing.                           *)
Inv ==
  /\ size \in Sizes
  /\ pc \in {"start", "sending", "waiting", "refused"}
  /\ whole = TRUE
  /\ pc = "start" => /\ packet_number = 1 /\ begin = 0 /\ end = PacketMax
                     /\ stored = 0 /\ exact = TRUE /\ lasts = 0
  /\ pc \in {"sending", "waiting"} =>
       IF E <= IntMax THEN Loop
       ELSE encrypted_file_size_counter \in Int
            /\ encrypted_file_size_counter <= 0
  /\ pc = "waiting" /\ E <= IntMax => packet_number = T + 1
  /\ SizeLimit

LEMMA SizesInRange ==
  ASSUME Inv
  PROVE  /\ size \in Nat /\ E \in Nat \ {0} /\ E <= U
         /\ T \in Nat \ {0} /\ (T - 1) * PacketMax < E /\ E <= T * PacketMax
<1>1. size \in Nat  BY PacketsAssumption DEF Inv
<1>2. E \in Nat \ {0} /\ E <= U  BY <1>1, EncryptedSize DEF E
<1> QED  BY <1>1, <1>2, RoundedUp DEF T

LEMMA InvInit == Init => Inv
BY DEF Init, Inv, SizeLimit

\* calculate_total_packets of what the size became as an int.
LEMMA InvPrepare == Inv /\ Prepare => Inv'
<1> SUFFICES ASSUME Inv, Prepare PROVE Inv'  OBVIOUS
<1> USE PacketsAssumption
<1>0. pc = "start" /\ size' = size /\ E' = E /\ T' = T
  BY DEF Prepare, E, T
<1>1. /\ size \in Nat /\ E \in Nat \ {0} /\ E <= U
      /\ T \in Nat \ {0} /\ (T - 1) * PacketMax < E /\ E <= T * PacketMax
  BY SizesInRange
<1>2. E <= size + Block /\ (size <= IntMax => size < E)
  BY <1>1, EncryptedSize DEF E
<1>3. CASE E <= IntMax
  <2>1. ToInt(E) = E
    <3>1. E % U = E  BY <1>1, <1>3, SmallRest DEF U
    <3> QED  BY <3>1, <1>3 DEF ToInt, ToU32, U
  <2>2. /\ total_packets' = T /\ encrypted_file_size_counter' = E
        /\ pc' = IF T > CountMax THEN "refused" ELSE "sending"
    BY <2>1 DEF Prepare, E, T
  <2>3. /\ packet_number' = 1 /\ begin' = 0 /\ end' = PacketMax /\ stored' = 0
        /\ exact' = TRUE /\ lasts' = 0 /\ whole' = TRUE
    BY <1>0 DEF Prepare, Inv, serverVars
  <2>4. pc' = "sending" => Loop'
    BY <1>0, <1>1, <2>2, <2>3 DEF Loop
  <2>5. SizeLimit'
    <3>1. CASE T > CountMax
      <4>1. CountMax * PacketMax <= (T - 1) * PacketMax
        BY <3>1, <1>1, Product
      <4>2. CountMax * PacketMax = PacketMax * CountMax  OBVIOUS
      <4>3. size > PacketMax * CountMax - Block
        BY <4>1, <4>2, <1>1, <1>2
      <4> QED  BY <4>3, <3>1, <2>2, <1>0 DEF SizeLimit
    <3>2. CASE T <= CountMax
      <4>1. T * PacketMax <= CountMax * PacketMax
        BY <3>2, <1>1, Product
      <4>2. CountMax * PacketMax = PacketMax * CountMax  OBVIOUS
      <4>3. size <= PacketMax * CountMax \/ size > IntMax - Block
        BY <4>1, <4>2, <1>1, <1>2, <1>3
      <4>4. pc' = "sending"  BY <3>2, <2>2, <1>1
      <4> QED  BY <4>3, <4>4, <1>0 DEF SizeLimit
    <3> QED  BY <3>1, <3>2, <1>1
  <2>6. size' \in Sizes /\ pc' \in {"refused", "sending"}
    BY <1>0, <2>2 DEF Inv
  <2> QED  BY <1>0, <1>3, <2>3, <2>4, <2>5, <2>6 DEF Inv
<1>4. CASE E > IntMax
  <2> DEFINE v == ToInt(E)
             t == calculate_total_packets(v)
  <2>1. v \in Int /\ v <= 0
    <3>1. CASE E = U
      <4>1. U % U = 0  BY DEF U
      <4> QED  BY <3>1, <4>1 DEF ToInt, ToU32, U
    <3>2. CASE E < U
      <4>1. E % U = E  BY <1>1, <3>2, SmallRest DEF U
      <4>2. v = E - U
        <5>1. ToU32(E) = E  BY <4>1 DEF ToU32, U
        <5>2. ~(ToU32(E) <= IntMax)  BY <5>1, <1>1, <1>4
        <5> QED  BY <5>1, <5>2 DEF ToInt, U
      <4>3. U \in Nat  BY DEF U
      <4> QED  BY <4>2, <4>3, <3>2, <1>1
    <3> QED  BY <3>1, <3>2, <1>1 DEF U
  <2> HIDE DEF v
  <2>2. Quotient(v, PacketMax) \in Int /\ Quotient(v, PacketMax) <= 0
    <3>1. CASE v = 0
      <4>1. 0 \div PacketMax = 0  OBVIOUS
      <4> QED  BY <3>1, <4>1 DEF Quotient
    <3>2. CASE v < 0
      <4>1. -v \in Nat  BY <3>2, <2>1
      <4>2. (-v) \div PacketMax \in Nat  BY <4>1, Division
      <4> QED  BY <4>2, <3>2, <2>1 DEF Quotient
    <3> QED  BY <3>1, <3>2, <2>1
  <2>3. t \in Int /\ t <= CountMax  BY <2>2 DEF calculate_total_packets
  <2> HIDE DEF t
  <2>4. pc' = "sending" /\ encrypted_file_size_counter' = v
    <3>1. /\ pc' = IF t > CountMax THEN "refused" ELSE "sending"
          /\ encrypted_file_size_counter' = v
      BY DEF Prepare, E, v, t
    <3> QED  BY <3>1, <2>3
  <2>5. size > IntMax - Block  BY <1>1, <1>2, <1>4
  <2>6. SizeLimit'  BY <1>0, <2>4, <2>5 DEF SizeLimit
  <2>7. size' \in Sizes /\ whole' = TRUE
    BY <1>0 DEF Inv, Prepare, serverVars
  <2>8. ~(E <= IntMax)  BY <1>1, <1>4
  <2> QED  BY <1>0, <2>1, <2>4, <2>6, <2>7, <2>8 DEF Inv
<1> QED  BY <1>1, <1>3, <1>4

\* One turn of the loop of send_file, and send_file_request_828.
LEMMA InvSendPacket == Inv /\ SendPacket => Inv'
<1> SUFFICES ASSUME Inv, SendPacket PROVE Inv'  OBVIOUS
<1> USE PacketsAssumption
<1>0. pc = "sending" /\ pc' = pc /\ size' = size /\ E' = E /\ T' = T
  BY DEF SendPacket, E, T
<1>1. /\ size \in Nat /\ E \in Nat \ {0} /\ E <= U
      /\ T \in Nat \ {0} /\ (T - 1) * PacketMax < E /\ E <= T * PacketMax
  BY SizesInRange
<1>2. E <= IntMax /\ Loop /\ encrypted_file_size_counter > 0
  BY <1>0, <1>1 DEF Inv, SendPacket
<1> DEFINE n == packet_number
<1>3. /\ n \in 1..(T + 1) /\ begin = (n - 1) * PacketMax /\ begin \in Nat
      /\ begin < E /\ encrypted_file_size_counter = E - begin
  <2>1. n \in 1..(T + 1) /\ begin = (n - 1) * PacketMax
        /\ encrypted_file_size_counter = E - begin
    BY <1>2 DEF Loop
  <2>2. begin \in Nat  BY <2>1, <1>1
  <2> QED  BY <2>1, <2>2, <1>1, <1>2
<1>4. n <= T
  <2>1. SUFFICES ASSUME n = T + 1 PROVE FALSE  BY <1>1, <1>3
  <2> QED  BY <2>1, <1>1, <1>3
<1>5. n * PacketMax = begin + PacketMax  BY <1>1, <1>3
<1>6. n = T => E <= begin + PacketMax  BY <1>1, <1>5
<1>7. n < T => begin + PacketMax < E
  <2>1. SUFFICES ASSUME n < T PROVE begin + PacketMax < E  OBVIOUS
  <2>2. n * PacketMax <= (T - 1) * PacketMax  BY <2>1, <1>1, <1>3, Product
  <2>3. (T - 1) * PacketMax \in Int /\ n * PacketMax \in Int
    BY <1>1, <1>3
  <2> QED  BY <2>2, <2>3, <1>1, <1>5, <1>3
<1> DEFINE length == IF n = T THEN E - begin ELSE PacketMax
<1>8. length \in Nat /\ length <= PacketMax
  BY <1>1, <1>3, <1>4, <1>6
<1>9. slice = length /\ current_pucket_size = length
  <2>1. payload_size = ToU32(FieldsSize + length)
    BY <1>1, <1>3, <1>4, <1>6, <1>7 DEF payload_size
  <2>2. ToU32(FieldsSize + length) = FieldsSize + length
    <3>1. FieldsSize + length \in Nat /\ FieldsSize + length < U
      BY <1>8 DEF U
    <3> QED  BY <3>1, SmallRest DEF ToU32, U
  <2>3. slice = length
    BY <1>1, <1>2, <1>3, <1>4, <1>6, <1>7 DEF slice, Loop
  <2> HIDE DEF length
  <2> QED  BY <2>1, <2>2, <2>3, <1>8 DEF current_pucket_size
<1>10. ToU16(packet_number) = n /\ ToU16(total_packets) = T
  <2>1. T <= CountMax /\ total_packets = T  BY <1>2 DEF Loop
  <2>2. n \in Nat /\ n < CountMax + 1 /\ T < CountMax + 1
    BY <2>1, <1>1, <1>3, <1>4
  <2> QED  BY <2>1, <2>2, <1>1, SmallRest DEF ToU16
<1>11. stored = begin /\ exact = TRUE /\ lasts = 0 /\ whole = TRUE
  BY <1>1, <1>2, <1>3, <1>4 DEF Loop, Inv
<1>12. (IF n = 1 THEN 0 ELSE stored) = begin  BY <1>3, <1>11
<1> HIDE DEF length
<1>13. /\ stored' = begin + length /\ exact' = TRUE
       /\ lasts' = IF n = T THEN 1 ELSE 0
  <2>1. Receive(n, T, begin, length)  BY <1>9, <1>10 DEF SendPacket
  <2> QED  BY <2>1, <1>9, <1>11, <1>12 DEF Receive
<1>14. whole' = TRUE
  <2>1. Receive(n, T, begin, length)  BY <1>9, <1>10 DEF SendPacket
  <2>2. n = T => begin + length = E  BY <1>1, <1>3 DEF length
  <2> QED  BY <2>1, <2>2, <1>11, <1>13 DEF Receive, E
<1>15. /\ packet_number' = n + 1 /\ begin' = begin + PacketMax
       /\ end' = end + PacketMax /\ total_packets' = total_packets
       /\ encrypted_file_size_counter' = encrypted_file_size_counter - PacketMax
  BY DEF SendPacket
<1>16. Loop'
  <2>1. packet_number' \in 1..(T' + 1)  BY <1>0, <1>1, <1>3, <1>4, <1>15
  <2>2. total_packets' = T' /\ T' <= CountMax  BY <1>0, <1>2, <1>15 DEF Loop
  <2>3. begin' = (packet_number' - 1) * PacketMax  BY <1>3, <1>5, <1>15
  <2>4. end' = begin' + PacketMax  BY <1>2, <1>3, <1>15 DEF Loop
  <2>5. encrypted_file_size_counter' = E' - begin'
    BY <1>0, <1>1, <1>3, <1>15
  <2>6. exact' = TRUE  BY <1>13
  <2>7. stored' = IF packet_number' = T' + 1 THEN E' ELSE begin'
    BY <1>0, <1>1, <1>3, <1>13, <1>15 DEF length
  <2>8. lasts' = IF packet_number' = T' + 1 THEN 1 ELSE 0
    BY <1>0, <1>1, <1>3, <1>13, <1>15
  <2> QED  BY <2>1, <2>2, <2>3, <2>4, <2>5, <2>6, <2>7, <2>8 DEF Loop
<1>17. SizeLimit' /\ size' \in Sizes  BY <1>0 DEF Inv, SizeLimit
<1> QED  BY <1>0, <1>2, <1>14, <1>16, <1>17 DEF Inv

\* The loop ends, and not before the last packet.
LEMMA InvAllSent == Inv /\ AllSent => Inv'
<1> SUFFICES ASSUME Inv, AllSent PROVE Inv'  OBVIOUS
<1> USE PacketsAssumption
<1>0. /\ pc = "sending" /\ pc' = "waiting" /\ size' = size /\ E' = E /\ T' = T
      /\ encrypted_file_size_counter <= 0
      /\ UNCHANGED <<clientVars, serverVars>>
  BY DEF AllSent, E, T
<1>1. /\ E \in Nat \ {0} /\ T \in Nat \ {0}
      /\ (T - 1) * PacketMax < E
  BY SizesInRange
<1>2. E <= IntMax => Loop /\ packet_number = T + 1
  <2> SUFFICES ASSUME E <= IntMax PROVE Loop /\ packet_number = T + 1
    OBVIOUS
  <2>1. Loop  BY <1>0 DEF Inv
  <2>2. SUFFICES ASSUME packet_number \in 1..T PROVE FALSE
    BY <2>1, <1>1 DEF Loop
  <2>3. (packet_number - 1) * PacketMax <= (T - 1) * PacketMax
    BY <2>2, <1>1, Product
  <2>4. begin < E
    BY <2>1, <2>2, <2>3, <1>1 DEF Loop
  <2>5. begin \in Int  BY <2>1, <2>2, <1>1 DEF Loop
  <2> QED  BY <2>1, <2>4, <2>5, <1>0, <1>1 DEF Loop
<1>3. E <= IntMax => Loop' /\ packet_number' = T' + 1
  BY <1>0, <1>2 DEF Loop, clientVars, serverVars
<1>4. SizeLimit'  BY <1>0 DEF Inv, SizeLimit
<1> QED  BY <1>0, <1>3, <1>4 DEF Inv, clientVars, serverVars

LEMMA InvNext == Inv /\ [Next]_vars => Inv'
<1> SUFFICES ASSUME Inv, [Next]_vars PROVE Inv'  OBVIOUS
<1>1. CASE UNCHANGED vars
  BY <1>1 DEF Inv, SizeLimit, Loop, E, T, vars, clientVars, serverVars
<1> QED
  BY <1>1, InvPrepare, InvSendPacket, InvAllSent DEF Next

LEMMA InvImplies == Inv => LastMeansWhole /\ LastPacketSent /\ SizeLimit
<1> SUFFICES ASSUME Inv PROVE LastMeansWhole /\ LastPacketSent /\ SizeLimit
  OBVIOUS
<1>1. E \in Nat /\ IntMax \in Nat  BY SizesInRange, PacketsAssumption
<1>2. LastPacketSent  BY <1>1 DEF Inv, Loop, LastPacketSent, E
<1> QED  BY <1>2 DEF Inv, LastMeansWhole

\* Whatever the file's size, the packet the server takes for the last
\* completes the encrypted file (request.py:160).
THEOREM LastIsLast == Spec => []LastMeansWhole
BY InvInit, InvNext, InvImplies, PTL DEF Spec

\* A client that waits for its checksum has asked for it exactly once, as
\* long as an int holds the size (client.cpp:210-238).
THEOREM OneLastPacket == Spec => []LastPacketSent
BY InvInit, InvNext, InvImplies, PTL DEF Spec

\* Files are refused by the limit of README.md:15 less the padding
\* (various_functions.cpp:9).
THEOREM Limit == Spec => []SizeLimit
BY InvInit, InvNext, InvImplies, PTL DEF Spec
=============================================================================
