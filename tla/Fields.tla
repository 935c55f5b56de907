------------------------------- MODULE Fields -------------------------------
(***************************************************************************)
(* What becomes of names, identifiers and numbers on their way: hex digits *)
(* in me.info, little endian numbers and names padded with zeros in a      *)
(* request, cut out again by the server and sent back for the client to    *)
(* compare. One registered client comes back, reconnects and sends a file  *)
(* of one packet. Bytes are numbers, strings sequences of them.            *)
(***************************************************************************)
EXTENDS Integers, Sequences, SequencesExt

CONSTANTS
  ID_SIZE,      \* CLIENT_ID_SIZE
  NAME_SIZE,    \* NAME_OF_CLIENT_SIZE, NAME_OF_FILE_SIZE, FILE_NAME_SIZE
  MAX_SIZE,     \* NAME_OF_CLIENT_MAX_SIZE
  Ids,          \* identifiers uuid4 may produce
  ClientNames,  \* names in transfer.info and in me.info
  Paths,        \* paths in transfer.info
  Contents      \* what the one packet carries

\* Names are lines of text, without a zero byte; a packet of PACKET_MAX_SIZE
\* is far below what the four bytes for its size can tell apart.
ASSUME FieldsAssumption ==
  /\ ID_SIZE \in Nat /\ NAME_SIZE \in Nat /\ MAX_SIZE \in Nat
  /\ MAX_SIZE < NAME_SIZE
  /\ Ids \subseteq [1..ID_SIZE -> 0..255]
  /\ ClientNames \subseteq Seq(1..255) /\ Paths \subseteq Seq(1..255)
  /\ Contents \subseteq Seq(0..255)
  /\ \A c \in Contents : 12 + NAME_SIZE + Len(c) < 256^3

VARIABLES
  pc,       \* how far the client is, or how it ended
  id,       \* the identifier it was registered with
  me_info,  \* the first two lines of the file
  client,   \* the client's object: name, file name, id
  content,
  message,  \* the bytes of the newest request, or of its answer
  got       \* what the server read from the newest request

vars == <<pc, id, me_info, client, content, message, got>>

VERSION == 3
BACKSLASH == 92

-----------------------------------------------------------------------------
(* Conversions.                                                            *)

\* store_little_u16, store_little_u32, to_bytes(size, 'little')
Number_BigEndian(k, size) ==  \* mutant
  [j \in 1..size |-> (k \div 256^(size - j)) % 256]
Number(k, size) == [j \in 1..size |-> (k \div 256^(j - 1)) % 256]
\* int.from_bytes(..., 'little')
NumberIn(bytes) ==
  LET sum[j \in 0..Len(bytes)] ==
        IF j = 0 THEN 0 ELSE sum[j - 1] + bytes[j] * 256^(j - 1)
  IN sum[Len(bytes)]

\* appendStringPayload, and ljust
Padded(s, size) == s \o [j \in 1..(size - Len(s)) |-> 0]
\* replace('\0', '')
Stripped(s) ==
  FlattenSeq([j \in 1..Len(s) |-> IF s[j] = 0 THEN <<>> ELSE <<s[j]>>])
\* up to the first zero: a string in C, find_first_of('\0')
Cut(s) ==
  LET zeros == {j \in 1..Len(s) : s[j] = 0} IN
  IF zeros = {} THEN s
  ELSE SubSeq(s, 1, (CHOOSE j \in zeros : \A k \in zeros : j <= k) - 1)

\* setw(2), setfill('0')
Hex_Unfilled(c) == IF c < 16 THEN <<c>> ELSE <<c \div 16, c % 16>>  \* mutant
Hex(c) == <<c \div 16, c % 16>>
convert_string_to_hex(s) == FlattenSeq([j \in 1..Len(s) |-> Hex(s[j])])
\* two digits at a time; the last may be alone
convert_hex_to_bytes(h) ==
  [j \in 1..((Len(h) + 1) \div 2) |->
     IF 2 * j <= Len(h) THEN 16 * h[2 * j - 1] + h[2 * j] ELSE h[2 * j - 1]]

find_file_name(path) ==
  LET last == {j \in 1..Len(path) : path[j] = BACKSLASH} \cup {0} IN
  SubSeq(path, (CHOOSE j \in last : \A k \in last : k <= j) + 1, Len(path))

Request(client_id, code, payload) ==
  client_id \o <<VERSION>> \o Number(code, 2) \o Number(Len(payload), 4)
    \o payload
Field(k, size) ==
  SubSeq(message, k + 1, IF k + size > Len(message) THEN Len(message)
                         ELSE k + size)

-----------------------------------------------------------------------------
Init ==
  /\ pc = "registered"
  /\ id \in Ids /\ content \in Contents
  /\ me_info = <<>> /\ message = <<>> /\ got = <<>>
  /\ client = [name |-> <<>>, file_name |-> <<>>, id |-> <<>>]

create_me_info ==
  /\ pc = "registered" /\ pc' = "saved"
  /\ \E name \in {n \in ClientNames : Len(n) <= MAX_SIZE} :
       me_info' = <<name, convert_string_to_hex(id)>>
  /\ UNCHANGED <<id, client, content, message, got>>

\* the next run; strcpy_s ends the program when the name does not fit
read_transfer ==
  /\ pc = "saved"
  /\ \E name \in ClientNames, path \in Paths :
       LET file_name == find_file_name(path) IN
       /\ pc' = IF Len(name) > MAX_SIZE \/ Len(file_name) = NAME_SIZE
                THEN "refused"
                ELSE IF Len(file_name) + 1 > NAME_SIZE THEN "aborted"
                ELSE "named"
       /\ client' = [client EXCEPT !.name = name, !.file_name = file_name]
  /\ UNCHANGED <<id, me_info, content, message, got>>

reconnection ==
  /\ pc = "named"
  /\ LET read == convert_hex_to_bytes(me_info[2]) IN
     IF client.name # me_info[1] \/ Len(read) # ID_SIZE
     THEN pc' = "refused" /\ UNCHANGED <<client, message>>
     ELSE /\ pc' = "reconnecting"
          /\ client' = [client EXCEPT !.id = read]
          /\ message' = Request(read, 827, Padded(client.name, NAME_SIZE))
  /\ UNCHANGED <<id, me_info, content, got>>

\* getHeader: the four fields before the payload
HeaderSize == ID_SIZE + 7
Heading == [client_id |-> Field(0, ID_SIZE),
            version |-> NumberIn(Field(ID_SIZE, 1)),
            code |-> NumberIn(Field(ID_SIZE + 1, 2)),
            payload_size |-> NumberIn(Field(ID_SIZE + 3, 4))]

read_reconnection ==
  /\ pc = "reconnecting" /\ pc' = "reconnected"
  /\ got' = <<Heading, Stripped(Field(HeaderSize, NAME_SIZE))>>
  /\ UNCHANGED <<id, me_info, client, content, message>>

\* content size, original size (here the same), packet 1 of 1, name, content
send_packet ==
  /\ pc = "reconnected" /\ pc' = "sending"
  /\ LET size == Number(Len(content), 4)
         payload == size \o size \o Number(1, 2) \o Number(1, 2)
                      \o Padded(client.file_name, NAME_SIZE) \o content
     IN message' = Request(client.id, 828, payload)
  /\ UNCHANGED <<id, me_info, client, content, got>>

\* send_file_request_828, and the fields of the 1603 that follow its header
read_packet ==
  /\ pc = "sending" /\ pc' = "answered"
  /\ LET f == HeaderSize
         name == Stripped(Field(f + 12, NAME_SIZE))
         size == NumberIn(Field(f, 4))
         current_pucket_size == Heading.payload_size - 12 - NAME_SIZE
     IN /\ got' = <<Heading, size, NumberIn(Field(f + 4, 4)),
                    NumberIn(Field(f + 8, 2)), NumberIn(Field(f + 10, 2)), name,
                    Field(f + 12 + NAME_SIZE, current_pucket_size)>>
        /\ message' = Heading.client_id \o Number(size, 4)
                        \o Padded(name, NAME_SIZE)
  /\ UNCHANGED <<id, me_info, client, content>>

\* read_string_and_check, getNumber, read_string_and_check
crc_checking ==
  /\ pc = "answered"
  /\ pc' = IF /\ Cut(Field(0, ID_SIZE)) = client.id
              /\ NumberIn(Field(ID_SIZE, 4)) = Len(content)
              /\ Cut(Field(ID_SIZE + 4, NAME_SIZE)) = client.file_name
           THEN "accepted" ELSE "wrong information"
  /\ UNCHANGED <<id, me_info, client, content, message, got>>

Next ==
  \/ create_me_info \/ read_transfer \/ reconnection \/ read_reconnection
  \/ send_packet \/ read_packet \/ crc_checking

Spec == Init /\ [][Next]_vars

-----------------------------------------------------------------------------
(* Properties.                                                             *)

Meant(code, size) == [client_id |-> id, version |-> VERSION, code |-> code,
                      payload_size |-> size]

\* What the server reads from a request is what the client was registered
\* with and put in: the identifier comes back from me.info, names lose only
\* their padding, and the packet's length is computed from the payload size
\* (various_functions.cpp:52-62, 114-131; request.py:64-71, 132-139).
RequestUnderstood ==
  /\ pc = "reconnected" => got = <<Meant(827, NAME_SIZE), client.name>>
  /\ pc = "answered" =>
       got = <<Meant(828, 12 + NAME_SIZE + Len(content)), Len(content),
               Len(content), 1, 1, client.file_name, content>>

\* A client that comes back under its own name is turned away only for a
\* name that is too long, and always then, if only by strcpy_s
\* (client.cpp:113, client_ob.cpp:10); it finds wrong information in the
\* answer only when its identifier holds a zero byte (answer.cpp:44).
TurnedAwayRightly ==
  /\ pc \in {"refused", "aborted"} =>
       \/ client.name # me_info[1]
       \/ Len(client.name) > MAX_SIZE \/ Len(client.file_name) >= NAME_SIZE
  /\ pc = "reconnecting" => Len(client.file_name) < NAME_SIZE
  /\ pc = "wrong information" => \E j \in 1..ID_SIZE : id[j] = 0
=============================================================================
