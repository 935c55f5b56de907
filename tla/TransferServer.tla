--------------------------- MODULE TransferServer ---------------------------
(***************************************************************************)
(* Server/: the select loop of server.py and the request handlers of       *)
(* request.py, as far as one client name and one file of that client are   *)
(* concerned. The process is single threaded: a handler runs to its end    *)
(* once select has picked a readable connection, so it is one action.      *)
(*                                                                         *)
(* recv(n) is called once for each field and returns what has arrived. A   *)
(* handler may therefore find its request split ("split" fault): it then   *)
(* raises on the missing field or works with a shorter one, and the rest   *)
(* of the request stays in the stream, where it is next read as a header.  *)
(* Every exception ends in clean_buffer, which throws away whatever has    *)
(* arrived, and an error answer.                                           *)
(*                                                                         *)
(* A handler changes the objects of clients_list and the tables of         *)
(* defensive.db one after the other. A call that fails in between leaves   *)
(* them different, and a restart knows only the tables.                    *)
(***************************************************************************)
EXTENDS Connection

CONSTANT NulIds  \* may an identifier handed out hold a zero byte: {FALSE},
                 \* {TRUE} or BOOLEAN

ASSUME NulIdsAssumption == NulIds \subseteq BOOLEAN /\ NulIds # {}

VARIABLES
  up,          \* the server's process runs
  registered,  \* id under which the name is in clients_list, or "none"
  nul_id,      \* that id holds a zero byte
  public_key,  \* client.public_key: a key pair, 0 for "", -1 for a bad key
  aes_key,     \* client.aes_key: the newest AES key, 0 for none
  file,        \* the File object: "absent", or its valid_crc
  disk,        \* content of file.path
  table        \* the row of the name in clients, and of the file in files

storeVars == <<registered, nul_id, public_key, aes_key, file, disk, table>>
serverVars == <<up, storeVars>>

FileStates == {"absent", "unverified", "verified"}

\* What a row holds of an object; id "none": there is no row of the client.
Rows == [id : Ids, public_key : Int, aes_key : Nat, file : FileStates]

ServerTypeOK ==
  /\ up \in BOOLEAN
  /\ registered \in Ids
  /\ nul_id \in BOOLEAN
  /\ public_key \in Int
  /\ aes_key \in Nat
  /\ file \in FileStates
  /\ disk \in Seq(Chunks)
  /\ table \in Rows

-----------------------------------------------------------------------------
(* Reading and answering.                                                  *)

\* select has a request of one of these codes for its handler.
Readable(c, codes) ==
  /\ up
  /\ link[c] \in {"open", "closed", "reset"}
  /\ stream[c] # <<>>
  /\ ~Head(stream[c]).cut
  /\ Head(stream[c]).code \in codes

Cut(s) == <<[Head(s) EXCEPT !.cut = TRUE]>> \o Tail(s)

\* What the stream holds once the request at its head was read.
Rest(c, split) == IF split THEN Cut(stream[c]) ELSE Tail(stream[c])

Splits == {split \in BOOLEAN : split => Fault("split")}
FaultsLeft(split) == IF split THEN faults - 1 ELSE faults

\* An exception out of read() leaves the select loop: exit(1).
ServerExit ==
  /\ up' = FALSE
  /\ stream' = [c \in Conns |-> <<>>]
  /\ link' = [c \in Conns |-> IF link[c] = "open" THEN "lost"
                              ELSE IF link[c] = "idle" THEN "idle"
                              ELSE "gone"]
  /\ UNCHANGED answers

(* sendall. Towards a client that is gone the data is lost: the peer       *)
(* resets the connection, which sendall itself may already report, in      *)
(* read()'s except clause too.                                             *)
Send(c, rest, a) ==
  \/ /\ link[c] = "open"
     /\ stream' = [stream EXCEPT ![c] = rest]
     /\ answers' = [answers EXCEPT ![c] = Append(@, a)]
     /\ UNCHANGED <<up, link>>
  \/ /\ link[c] = "closed"
     /\ stream' = [stream EXCEPT ![c] = rest]
     /\ link' = [link EXCEPT ![c] = "reset"]
     /\ UNCHANGED <<up, answers>>
  \/ /\ link[c] \in {"closed", "reset"}
     /\ ServerExit

(* clean_buffer throws away what has arrived, which may end between two    *)
(* requests or, at the price of a fault, inside one. n: the faults left.   *)
Suffix(s, i) == SubSeq(s, i, Len(s))
Cleaned(s, n) ==
  {<<Suffix(s, i), n>> : i \in 1..(Len(s) + 1)} \cup
  (IF "split" \in FaultKinds /\ n > 0
   THEN {<<Cut(Suffix(s, i)), n - 1>> : i \in 1..Len(s)} ELSE {})

Raise_Silent(c, rest, n, code) ==  \* mutant: no error answer
  \E d \in Cleaned(rest, n) :
     /\ stream' = [stream EXCEPT ![c] = d[1]]
     /\ faults' = d[2]
     /\ UNCHANGED <<up, link, answers>>

Raise(c, rest, n, code) ==
  \E d \in Cleaned(rest, n) :
     /\ Send(c, d[1], Answer(code, "none"))
     /\ faults' = d[2]

\* The handler ends normally with answer a.
Reply(c, split, a) ==
  /\ Send(c, Rest(c, split), a)
  /\ faults' = FaultsLeft(split)

\* The handler returns without an answer.
NoAnswer_Acknowledges(c, split) ==  \* mutant: every packet is acknowledged
  Reply(c, split, Answer(THANK_YOU_1604, registered))
NoAnswer(c, split) ==
  /\ stream' = [stream EXCEPT ![c] = Rest(c, split)]
  /\ faults' = FaultsLeft(split)
  /\ UNCHANGED <<up, link, answers>>

\* The handler raises; read() answers with a general error.
Error(c, split) ==
  Raise(c, Rest(c, split), FaultsLeft(split), GENERAL_ERROR_1607)

(* A call of the handler to the file system or to the database fails.      *)
IoError(c, split, code) ==
  /\ Fault("io") /\ FaultsLeft(split) > 0
  /\ Raise(c, Rest(c, split), FaultsLeft(split) - 1, code)

-----------------------------------------------------------------------------
(* sql.py.                                                                 *)

\* UPDATE clients SET ... WHERE client_id = ?
Updated_Uncommitted(row) == table  \* mutant: conn.commit() is missing
Updated(row) == IF table.id = "none" THEN table ELSE row

\* UPDATE files SET valid_crc = ? WHERE client_id = ?
set_valid_crc_Uncommitted(mark) == table  \* mutant: conn.commit() is missing
set_valid_crc(mark) ==
  [table EXCEPT !.file = IF @ = "absent" THEN @ ELSE mark]

\* INSERT INTO files, the primary key permitting
add_file_db_Uncommitted == table  \* mutant: conn.commit() is missing
add_file_db == [table EXCEPT !.file = "unverified"]

\* DELETE FROM files WHERE file_name = ?
delete_file == [table EXCEPT !.file = "absent"]

-----------------------------------------------------------------------------
(* The handlers.                                                           *)

\* The stream starts with the rest of an earlier request: not a header.
ReadGarbage(c) ==
  /\ up /\ link[c] \in {"open", "closed", "reset"}
  /\ stream[c] # <<>> /\ Head(stream[c]).cut
  /\ Raise(c, Tail(stream[c]), faults, GENERAL_ERROR_1607)
  /\ UNCHANGED storeVars

\* A field is missing or short, and the handler raises before it acts.
ReadShort(c) ==
  /\ Readable(c, RequestCodes)
  /\ Fault("split")
  /\ \E code \in {GENERAL_ERROR_1607} \cup
                 (IF Head(stream[c]).code = REGISTERING_825
                  THEN {REGISTERING_FAILED_1601} ELSE {}) :
        Raise(c, Cut(stream[c]), faults - 1, code)
  /\ UNCHANGED storeVars

\* A client of that name is in clients_list.
NameTaken_WithKey ==  \* mutant: half a registration does not count
  registered # "none" /\ public_key # 0
NameTaken == registered # "none"

registration_request_825(c) ==
  /\ Readable(c, {REGISTERING_825})
  /\ UNCHANGED <<public_key, aes_key, file, disk>>
  /\ \E split \in Splits :
      \/ /\ NameTaken
         /\ Raise(c, Rest(c, split), FaultsLeft(split), REGISTERING_FAILED_1601)
         /\ UNCHANGED <<registered, nul_id, table>>
      \/ /\ ~NameTaken
         /\ registered' = "new"
         /\ nul_id' \in NulIds
         /\ table' = [table EXCEPT !.id = "new"]
         /\ Reply(c, split, Answer(REGISTERING_DONE_1600, "new"))
      \* the name comes short: another client is registered
      \/ /\ split
         /\ Reply(c, split, Answer(REGISTERING_DONE_1600, "stray"))
         /\ UNCHANGED <<registered, nul_id, table>>
      \* the client's folder cannot be made, or add_client_db fails after
      \* the client was appended to clients_list; nobody is told that id,
      \* so the next one may be called "new" again
      \/ /\ ~NameTaken
         /\ IoError(c, split, REGISTERING_FAILED_1601)
         /\ \/ UNCHANGED <<registered, nul_id>>
            \/ registered' = "new" /\ nul_id' \in NulIds
         /\ UNCHANGED table

\* The client of clients_list the request is about carries the request's id.
IdMatches(c) ==
  registered # "none" /\ registered = Head(stream[c]).id

(* create_send_aes: a new key, in the object and in the table, whose row   *)
(* was "row" before, encrypted for the client's public key. (Its number    *)
(* may be one that a restart took back: nobody was told that key.)         *)
create_send_aes_KeepsOld(c, split, code, pair, row) ==  \* mutant: keeps a key
  /\ aes_key' = IF aes_key = 0 THEN 1 ELSE aes_key
  /\ table' = Updated([row EXCEPT !.aes_key = aes_key + 1])
  /\ Reply(c, split, AesAnswer(code, registered, aes_key + 1, pair))
create_send_aes(c, split, code, pair, row) ==
  /\ aes_key' = aes_key + 1
  /\ table' = Updated([row EXCEPT !.aes_key = aes_key + 1])
  /\ Reply(c, split, AesAnswer(code, registered, aes_key + 1, pair))

reconnection_request_827(c) ==
  /\ Readable(c, {RECONNECT_827})
  /\ UNCHANGED <<registered, nul_id, public_key, file, disk>>
  /\ \E split \in Splits :
      \/ /\ NameTaken /\ ~IdMatches(c)
         /\ Error(c, split)
         /\ UNCHANGED <<aes_key, table>>
      \* no client of that name, which may come short, or no public key
      \* to encrypt for
      \/ /\ ~NameTaken \/ split \/ (IdMatches(c) /\ public_key <= 0)
         /\ Reply(c, split, Answer(INVALID_RECONNECT_1606, Head(stream[c]).id))
         /\ UNCHANGED <<aes_key, table>>
      \/ /\ IdMatches(c) /\ public_key > 0
         /\ create_send_aes(c, split, VALID_RECONNECT_1605, public_key, table)
      \* last_seen fails, or set_aes_key
      \/ /\ IdMatches(c)
         /\ IoError(c, split, GENERAL_ERROR_1607)
         /\ aes_key' \in {aes_key} \cup
                         (IF public_key > 0 THEN {aes_key + 1} ELSE {})
         /\ UNCHANGED table

send_public_key_request_826(c) ==
  /\ Readable(c, {SEND_PUBLIC_KEY_826})
  /\ UNCHANGED <<registered, nul_id, file, disk>>
  /\ \E split \in Splits :
     \* a key that is cut short is stored before it turns out unusable
     LET pair == IF split THEN -1 ELSE Head(stream[c]).pair
         row  == Updated([table EXCEPT !.public_key = pair])
     IN
      \/ /\ ~IdMatches(c)
         /\ Error(c, split)
         /\ UNCHANGED <<public_key, aes_key, table>>
      \/ /\ IdMatches(c) /\ ~split
         /\ public_key' = pair
         /\ create_send_aes(c, split, GET_PUBLIC_KEY_SEND_AES_1602, pair, row)
      \/ /\ IdMatches(c) /\ split
         /\ public_key' = pair
         /\ aes_key' = aes_key + 1
         /\ table' = Updated([row EXCEPT !.aes_key = aes_key + 1])
         /\ Error(c, split)
      \* set_public_key, last_seen or set_aes_key fails
      \/ /\ IdMatches(c)
         /\ IoError(c, split, GENERAL_ERROR_1607)
         /\ public_key' = pair
         /\ \/ aes_key' = aes_key /\ table' \in {table, row}
            \/ aes_key' = aes_key + 1 /\ table' = row

-----------------------------------------------------------------------------
(* 828: a packet of the file.                                              *)

\* open(path, "wb") for the first packet, open(path, "ab") for the others
Written(r, short) ==
  IF r.packet = 1 THEN <<Chunk(r, short)>> ELSE Append(disk, Chunk(r, short))

\* What is left of the file when writing it fails: less than was meant.
Torn(r) == <<Chunk(r, TRUE)>>

\* file.valid_crc after the packet, a new File object included
Recorded_KeepsValid(r) ==  \* mutant: overwriting does not reset valid_crc
  IF file = "absent" THEN "unverified" ELSE file
Recorded(r) ==
  IF r.packet = 1 THEN "unverified" ELSE file

\* and the row: an object of its own is withdrawn, a new one inserted
RecordedRow(r) ==
  IF r.packet # 1 THEN table
  ELSE IF file = "absent" THEN add_file_db
  ELSE set_valid_crc("unverified")

(* A later packet of a file that is not in the list, or a first one of a   *)
(* file that is not but whose row is left over: the primary key forbids    *)
(* it.                                                                     *)
Unwelcome(r) ==
  file = "absent" /\ (r.packet # 1 \/ table.file # "absent")

(* create_decrypted_file: CBC under the client's newest AES key, in place. *)
Decrypted(content) ==
  [i \in DOMAIN content |->
     [content[i] EXCEPT !.state =
        IF @ = "cipher" /\ content[i].key = aes_key THEN "plain"
        ELSE IF @ = "short" THEN "short" ELSE "damaged"]]

\* The decrypted file can have the size the client announced.
SizeMayFit(content) ==
  /\ Len(content) = TotalPackets
  /\ \A i \in DOMAIN content : content[i].state # "short"

(* last_packet. A whole file is decrypted, measured and its checksum sent. *)
(* Of any other content either the padding is found wrong before the file  *)
(* is overwritten, or the size afterwards, or neither and the checksum     *)
(* differs.                                                                *)
last_packet_Swallows(c, split, content) ==  \* mutant: a failing write is not seen
  LET plain == Decrypted(content) IN
  /\ disk' \in {plain} \cup
       (IF Fault("io") THEN {<<[content[1] EXCEPT !.state = "short"]>>} ELSE {})
  /\ Reply(c, split, CrcAnswer(registered, IntactFile(plain)))
last_packet(c, split, content) ==
  LET plain == Decrypted(content) IN
  \/ /\ IntactFile(plain)
     /\ disk' = plain
     /\ Reply(c, split, CrcAnswer(registered, TRUE))
  \/ /\ ~IntactFile(plain) /\ SizeMayFit(content)
     /\ disk' = plain
     /\ Reply(c, split, CrcAnswer(registered, FALSE))
  \/ /\ ~IntactFile(plain)
     /\ disk' \in {content, plain}
     /\ Error(c, split)

send_file_request_828(c) ==
  /\ Readable(c, {SEND_FILE_828})
  /\ UNCHANGED <<registered, nul_id, public_key, aes_key>>
  /\ LET r == Head(stream[c]) IN \E split \in Splits :
      \/ /\ ~IdMatches(c)
         /\ Error(c, split)
         /\ UNCHANGED <<file, disk, table>>
      \* refused, but written
      \/ /\ IdMatches(c) /\ Unwelcome(r)
         /\ disk' = Written(r, split)
         /\ Error(c, split)
         /\ UNCHANGED <<file, table>>
      \/ /\ IdMatches(c) /\ ~Unwelcome(r)
         /\ file' = Recorded(r)
         /\ table' = RecordedRow(r)
         /\ \/ /\ r.packet # TotalPackets
               /\ disk' = Written(r, split)
               /\ NoAnswer(c, split)
            \/ /\ r.packet = TotalPackets
               /\ last_packet(c, split, Written(r, split))
      \* fields shifted by the missing bytes name a packet of another file
      \/ /\ split
         /\ NoAnswer(c, split)
         /\ UNCHANGED <<file, disk, table>>
      \/ /\ IdMatches(c)
         /\ IoError(c, split, GENERAL_ERROR_1607)
         \* open, write, or last_seen or add_file_db fails
         /\ \/ /\ disk' \in {disk, Written(r, TRUE), Written(r, split)}
               /\ UNCHANGED <<file, table>>
            \* set_valid_crc fails after file.valid_crc = False
            \/ /\ file # "absent" /\ r.packet = 1
               /\ disk' = Written(r, split)
               /\ file' = Recorded(r)
               /\ UNCHANGED table
            \* create_decrypted_file cannot read, or not write, the file
            \/ /\ ~Unwelcome(r) /\ r.packet = TotalPackets
               /\ disk' \in {Written(r, split), Torn(r)}
               /\ file' = Recorded(r)
               /\ table' = RecordedRow(r)

-----------------------------------------------------------------------------
(* 900, 901, 902: what the client makes of the checksum.                   *)

\* os.remove(file.path)
Removed_Not == disk  \* mutant: only the record is deleted
Removed == <<>>

(* What a failing call leaves of the object, the row and the file:         *)
(* last_seen and os.remove fail before anything is changed, set_valid_crc  *)
(* and delete_file after the object or the list in memory was.             *)
HalfDone(code) ==
  {<<file, disk>>} \cup
  CASE code = VALID_CRC_900     -> {<<"verified", disk>>}
    [] code = WRONG_CRC_4TH_902 -> {<<"absent", Removed>>}
    [] OTHER                    -> {}

(* (A listed file has its row here. Only a delete_file on behalf of        *)
(* another client can take it away: see ServerStore.)                      *)
crc_response_900_901_902(c) ==
  /\ Readable(c, CrcCodes)
  /\ UNCHANGED <<registered, nul_id, public_key, aes_key>>
  /\ LET code == Head(stream[c]).code
         unverified == IdMatches(c) /\ file = "unverified"
         removable == code = WRONG_CRC_4TH_902 => disk # <<>>
     IN \E split \in Splits :
      \/ /\ ~unverified \/ ~removable
         /\ Error(c, split)
         /\ UNCHANGED <<file, disk, table>>
      \/ /\ unverified /\ code = VALID_CRC_900
         /\ file' = "verified"
         /\ table' = set_valid_crc("verified")
         /\ Reply(c, split, Answer(THANK_YOU_1604, registered))
         /\ UNCHANGED disk
      \/ /\ unverified /\ code = WRONG_CRC_TRY_AGAIN_901
         /\ NoAnswer(c, split)
         /\ UNCHANGED <<file, disk, table>>
      \/ /\ unverified /\ code = WRONG_CRC_4TH_902 /\ removable
         /\ disk' = Removed
         /\ file' = "absent"
         /\ table' = delete_file
         /\ Reply(c, split, Answer(THANK_YOU_1604, registered))
      \/ /\ unverified /\ removable
         /\ IoError(c, split, GENERAL_ERROR_1607)
         /\ \E half \in HalfDone(code) :
               file' = half[1] /\ disk' = half[2]
         /\ UNCHANGED table

-----------------------------------------------------------------------------
(* The end of a connection, and of the process.                            *)

\* getHeader returns END: unregister and close.
EndOfStream(c) ==
  /\ up /\ link[c] = "closed" /\ stream[c] = <<>>
  /\ link' = [link EXCEPT ![c] = "gone"]
  /\ UNCHANGED <<stream, answers, faults, serverVars>>

\* recv reports the reset; the general error cannot be sent either.
ReadReset(c) ==
  /\ up /\ link[c] = "reset"
  /\ ServerExit
  /\ UNCHANGED <<faults, storeVars>>

(* The server is started again: data_base_handle builds clients_list from  *)
(* the rows. (The row of a file is only ever inserted for a client that    *)
(* has its row, so there is a client to list the file with.)               *)
Restart ==
  /\ ~up
  /\ up' = TRUE
  /\ registered' = table.id
  /\ public_key' = table.public_key
  /\ aes_key' = table.aes_key
  /\ file' = table.file
  /\ UNCHANGED <<connectionVars, nul_id, disk, table>>

ServerStep(c) ==
  \/ ReadGarbage(c)
  \/ ReadShort(c)
  \/ registration_request_825(c)
  \/ reconnection_request_827(c)
  \/ send_public_key_request_826(c)
  \/ send_file_request_828(c)
  \/ crc_response_900_901_902(c)
  \/ EndOfStream(c)
  \/ ReadReset(c)
=============================================================================
