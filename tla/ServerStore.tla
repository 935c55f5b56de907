---------------------------- MODULE ServerStore ----------------------------
(***************************************************************************)
(* What the server keeps, for many clients and files: clients_list with    *)
(* its File objects in memory, the two tables of defensive.db (sql.py) and *)
(* the client folders on the disk. A handler changes them one after the    *)
(* other; each of its calls may raise, and the process may die between any *)
(* two. The next start rebuilds the memory from the tables.                *)
(*                                                                         *)
(* The server is single threaded. A request becomes the sequence of calls  *)
(* its handler makes (todo), worked off one by one; an exception drops the *)
(* rest. Contents are left to TransferServer: here a file is on the disk   *)
(* or not.                                                                 *)
(***************************************************************************)
EXTENDS Integers, Sequences, FiniteSets

CONSTANTS
  Names,       \* client names
  Files,       \* file names
  Ids,         \* bound: identifiers uuid4 may hand out, all different
  Foreign,     \* an identifier this database never handed out
  PublicKeys,  \* keys a client may send
  BadKeys,     \* those of them RSA.import_key refuses
  AesKeys,     \* keys Crypto.Random may produce
  MaxFaults,   \* bound: faults in a behaviour
  FaultKinds   \* io: a call fails; crash: the process dies anywhere but
               \* while the tables are created; setup: just then

ASSUME StoreAssumption ==
  /\ Foreign \notin Ids
  /\ BadKeys \subseteq PublicKeys
  /\ "none" \notin PublicKeys \cup AesKeys
  /\ MaxFaults \in Nat
  /\ FaultKinds \subseteq {"io", "crash", "setup"}

VARIABLES
  status,    \* of the process: "down", "starting" (data_base_handle), "up"
  todo,      \* calls the process has yet to make
  req,       \* the request being handled
  mem,       \* clients_list: the clients, and the files in their lists
  db,        \* the rows of tables clients and files
  schema,    \* which tables defensive.db has: "absent", "clients", "both"
  folders,   \* the folders that exist: client names, and Root
  disk,      \* the paths <<client name, file name>> that exist
  faults,    \* faults left
  \* not in the server, but what its clients were told:
  issued,    \* identifiers handed out
  acked,     \* registrations answered with 1600
  told,      \* keys of the newest exchange that was answered, per identifier
  asked      \* files whose checksum was sent (1603) and may be judged

store == <<mem, db, schema, folders, disk>>
clientsView == <<issued, acked, told, asked>>
vars == <<status, todo, req, store, faults, clientsView>>

Root == "clients files"
NoKeys == [public_key |-> "none", aes_key |-> "none"]
Empty == [clients |-> {}, files |-> {}]
NoRequest == [code |-> 0, id |-> Foreign, name |-> "none", file |-> "none",
              first |-> FALSE, last |-> FALSE, public_key |-> "none"]
Request(code, id) == [NoRequest EXCEPT !.code = code, !.id = id]

-----------------------------------------------------------------------------
(* The rows of both tables, which are also the objects of both lists.      *)

ClientRows == [id : Ids, name : Names,
               public_key : PublicKeys \cup {"none"},
               aes_key : AesKeys \cup {"none"}]
FileRows == [id : Ids, file : Files, valid : BOOLEAN]

Known(s, id) == \E c \in s.clients : c.id = id
NameTaken_InDatabase(n) ==  \* mutant: the table is asked, not the list
  \E c \in db.clients : c.name = n
NameTaken(n) == \E c \in mem.clients : c.name = n
OwnerOf(n) == CHOOSE c \in mem.clients : c.name = n
ClientOf(id) == CHOOSE c \in mem.clients : c.id = id
Listed(s, id, f) == \E r \in s.files : r.id = id /\ r.file = f
ValidIn(s, id, f) == \E r \in s.files : r.id = id /\ r.file = f /\ r.valid

\* UPDATE clients SET ... WHERE client_id = ?, and the same on the object
WithPublicKey(s, id, k) ==
  [s EXCEPT !.clients =
     {[c EXCEPT !.public_key = IF c.id = id THEN k ELSE @] : c \in @}]
WithAesKey_WrongColumn(s, id, k) ==  \* mutant: SET public_key
  WithPublicKey(s, id, k)
WithAesKey(s, id, k) ==
  [s EXCEPT !.clients =
     {[c EXCEPT !.aes_key = IF c.id = id THEN k ELSE @] : c \in @}]

\* file.valid_crc = b
WithValid(s, id, f, b) ==
  [s EXCEPT !.files =
     {[r EXCEPT !.valid = IF r.id = id /\ r.file = f THEN b ELSE @] : r \in @}]

\* UPDATE files SET valid_crc = ? WHERE client_id = ?
set_valid_crc(s, id, b) ==
  [s EXCEPT !.files =
     {[r EXCEPT !.valid = IF r.id = id THEN b ELSE @] : r \in @}]

\* DELETE FROM files WHERE file_name = ?
delete_file(s, f) == [s EXCEPT !.files = {r \in @ : r.file # f}]

Without(s, id, f) ==
  [s EXCEPT !.files = {r \in @ : ~(r.id = id /\ r.file = f)}]

-----------------------------------------------------------------------------
(* The calls of each handler, in the order of the code.                    *)

create_calls == <<"create_clients", "create_files">>
load_calls == <<"load_clients", "load_files", "make_root", "listen">>

registration_calls_AnswersEarly == \* mutant: answered before it is recorded
  <<"new_client", "append_client", "answer_1600", "add_client_db">>
registration_calls ==
  <<"new_client", "append_client", "add_client_db", "answer_1600">>

create_send_aes_calls_Unsaved ==  \* mutant: the key stays in memory
  <<"new_aes", "encrypt", "answer_aes">>
create_send_aes_calls == <<"new_aes", "set_aes_key", "encrypt", "answer_aes">>

public_key_calls ==
  <<"keep_public_key", "set_public_key", "last_seen">> \o create_send_aes_calls

\* the File object exists
listed_packet_calls(r) ==
  <<"write", "last_seen">>
  \o (IF r.first THEN <<"withdraw", "withdraw_db">> ELSE <<>>)
  \o (IF r.last THEN <<"last_packet">> ELSE <<"end">>)

\* it does not, and only a first packet may create it
new_packet_calls(r) ==
  <<"write", "last_seen">>
  \o (IF ~r.first THEN <<"raise">>
      ELSE <<"add_file_db", "append_file">>
           \o (IF r.last THEN <<"last_packet">> ELSE <<"end">>))

delete_calls_KeepsRow ==  \* mutant: the row is forgotten
  <<"last_seen", "os_remove", "list_remove", "answer_1604">>
delete_calls ==
  <<"last_seen", "os_remove", "list_remove", "delete_file", "answer_1604">>

crc_calls(code) ==
  CASE code = 900 -> <<"last_seen", "mark_valid", "mark_valid_db", "answer_1604">>
    [] code = 901 -> <<"last_seen", "end">>
    [] code = 902 -> delete_calls

-----------------------------------------------------------------------------
(* Requests. A client that was answered 1600 sends its own name and id; an *)
(* installation from before this database sends an id it does not have.    *)

Senders == acked \cup [id : {Foreign}, name : Names]

Handle(r, calls) ==
  /\ status = "up" /\ todo = <<>>
  /\ req' = r
  /\ todo' = calls
  /\ UNCHANGED <<status, store, faults, issued, acked>>

\* (a new name only while there are identifiers left)
registration_request_825(n) ==
  /\ NameTaken(n) \/ Ids \ issued # {}
  /\ Handle([Request(825, Foreign) EXCEPT !.name = n],
            IF NameTaken(n) THEN <<"last_seen", "raise">>
            ELSE registration_calls)
  /\ UNCHANGED <<told, asked>>

reconnection_request_827(s) ==
  /\ Handle([Request(827, s.id) EXCEPT !.name = s.name],
            IF ~NameTaken(s.name) THEN <<"end">>                   \* 1606
            ELSE IF OwnerOf(s.name).id # s.id THEN <<"raise">>
            ELSE IF OwnerOf(s.name).public_key \in BadKeys \cup {"none"}
                 THEN <<"last_seen", "end">>                       \* 1606
            ELSE <<"last_seen">> \o create_send_aes_calls)
  /\ told' = [told EXCEPT ![s.id].aes_key = "none"]
  /\ UNCHANGED asked

send_public_key_request_826(s, k) ==
  /\ Handle([Request(826, s.id) EXCEPT !.name = s.name, !.public_key = k],
            IF NameTaken(s.name) /\ OwnerOf(s.name).id = s.id
            THEN public_key_calls ELSE <<"raise">>)
  /\ told' = [told EXCEPT ![s.id] = NoKeys]
  /\ UNCHANGED asked

send_file_request_828(s, f, first, last) ==
  /\ Handle([Request(828, s.id) EXCEPT !.name = s.name, !.file = f,
                                       !.first = first, !.last = last],
            IF ~Known(mem, s.id) THEN <<"raise">>
            ELSE IF Listed(mem, s.id, f) THEN listed_packet_calls(req')
            ELSE new_packet_calls(req'))
  /\ asked' = asked \ {<<s.id, f>>}
  /\ UNCHANGED <<told>>

\* Only what was answered with a checksum is judged, maybe repeatedly.
crc_response_900_901_902(s, f, code) ==
  /\ <<s.id, f>> \in asked
  /\ Handle([Request(code, s.id) EXCEPT !.name = s.name, !.file = f],
            IF ~Known(mem, s.id) THEN <<"raise">>
            ELSE IF ~Listed(mem, s.id, f) \/ ValidIn(mem, s.id, f)
                 THEN <<"last_seen", "raise">>
            ELSE crc_calls(code))
  /\ UNCHANGED <<told, asked>>

Requests ==
  \/ \E n \in Names : registration_request_825(n)
  \/ \E s \in Senders :
       \/ reconnection_request_827(s)
       \/ \E k \in PublicKeys : send_public_key_request_826(s, k)
       \/ \E f \in Files :
            \/ \E first, last \in BOOLEAN :
                 send_file_request_828(s, f, first, last)
            \/ \E code \in {900, 901, 902} : crc_response_900_901_902(s, f, code)

-----------------------------------------------------------------------------
(* Working off the calls.                                                  *)

NextCall(op) == todo # <<>> /\ Head(todo) = op

Return == todo' = Tail(todo) /\ UNCHANGED <<status, req>>
End == todo' = <<>> /\ req' = NoRequest

(* An exception: read() answers it, but out of data_base_handle it ends    *)
(* the process.                                                            *)
Raise ==
  /\ End
  /\ IF status = "starting" THEN status' = "down" /\ mem' = Empty
     ELSE UNCHANGED <<status, mem>>

\* A call that only changes the memory, or one of sql.py.
InMemory(op, m) ==
  /\ NextCall(op) /\ Return
  /\ mem' = m
  /\ UNCHANGED <<db, schema, folders, disk, faults, clientsView>>
InDatabase(op, d) ==
  /\ NextCall(op) /\ Return
  /\ db' = d
  /\ UNCHANGED <<mem, schema, folders, disk, faults, clientsView>>

\* Client(name): a fresh id, and the folder unless it is there.
new_client ==
  /\ NextCall("new_client")
  /\ Root \in folders
  /\ \E id \in Ids \ issued :
       /\ req' = [req EXCEPT !.id = id]
       /\ issued' = issued \cup {id}
  /\ folders' = folders \cup {req.name}
  /\ todo' = Tail(todo)
  /\ UNCHANGED <<status, mem, db, schema, disk, faults, acked, told, asked>>

NewClient(id, n) ==
  [id |-> id, name |-> n, public_key |-> "none", aes_key |-> "none"]
append_client ==
  InMemory("append_client",
           [mem EXCEPT !.clients = @ \cup {NewClient(req.id, req.name)}])
add_client_db ==
  InDatabase("add_client_db",
             [db EXCEPT !.clients = @ \cup {NewClient(req.id, req.name)}])

keep_public_key ==
  InMemory("keep_public_key", WithPublicKey(mem, req.id, req.public_key))
set_public_key ==
  InDatabase("set_public_key", WithPublicKey(db, req.id, req.public_key))
new_aes ==
  \E k \in AesKeys : InMemory("new_aes", WithAesKey(mem, req.id, k))
set_aes_key ==
  InDatabase("set_aes_key", WithAesKey(db, req.id, ClientOf(req.id).aes_key))

last_seen == InDatabase("last_seen", db)
withdraw == InMemory("withdraw", WithValid(mem, req.id, req.file, FALSE))
withdraw_db == InDatabase("withdraw_db", set_valid_crc(db, req.id, FALSE))
mark_valid == InMemory("mark_valid", WithValid(mem, req.id, req.file, TRUE))
mark_valid_db == InDatabase("mark_valid_db", set_valid_crc(db, req.id, TRUE))

NewFile == [id |-> req.id, file |-> req.file, valid |-> FALSE]
append_file ==
  InMemory("append_file", [mem EXCEPT !.files = @ \cup {NewFile}])
list_remove == InMemory("list_remove", Without(mem, req.id, req.file))

\* PRIMARY KEY (client_id, file_name)
add_file_db ==
  /\ ~Listed(db, req.id, req.file)
  /\ InDatabase("add_file_db", [db EXCEPT !.files = @ \cup {NewFile}])
\* c.rowcount == 0 is an error
delete_row ==
  /\ \E r \in db.files : r.file = req.file
  /\ InDatabase("delete_file", delete_file(db, req.file))

Path == <<ClientOf(req.id).name, req.file>>

\* open(path, ...), write
write ==
  /\ NextCall("write") /\ Return
  /\ disk' = disk \cup {Path}
  /\ UNCHANGED <<mem, db, schema, folders, faults, clientsView>>

os_remove ==
  /\ NextCall("os_remove") /\ Return
  /\ Path \in disk
  /\ disk' = disk \ {Path}
  /\ UNCHANGED <<mem, db, schema, folders, faults, clientsView>>

\* RSA.import_key and encrypt
encrypt ==
  /\ NextCall("encrypt")
  /\ ClientOf(req.id).public_key \notin BadKeys
  /\ InMemory("encrypt", mem)

\* A call that finds what it cannot work with.
Refused ==
  \/ NextCall("raise")
  \/ NextCall("add_file_db") /\ Listed(db, req.id, req.file)
  \/ NextCall("delete_file") /\ \A r \in db.files : r.file # req.file
  \/ NextCall("os_remove") /\ Path \notin disk
  \/ NextCall("encrypt") /\ ClientOf(req.id).public_key \in BadKeys
  \/ NextCall("last_packet")   \* no key, wrong padding or size
  \/ NextCall("load_files") /\ schema # "both"   \* no such table

Exception ==
  /\ Refused
  /\ Raise
  /\ UNCHANGED <<db, schema, folders, disk, faults, clientsView>>

-----------------------------------------------------------------------------
(* The answers that tell a client something, and the end of a handler.     *)

Answer(op) ==
  /\ NextCall(op)
  /\ IF Tail(todo) = <<>> THEN End ELSE todo' = Tail(todo) /\ UNCHANGED req
  /\ UNCHANGED <<status, store, faults, issued>>

answer_1600 ==
  /\ Answer("answer_1600")
  /\ acked' = acked \cup {[id |-> req.id, name |-> req.name]}
  /\ UNCHANGED <<told, asked>>

\* 1602 settles both keys, 1605 only the AES key
answer_aes ==
  /\ Answer("answer_aes")
  /\ LET c == ClientOf(req.id) IN
     told' = [told EXCEPT ![req.id] =
                [public_key |-> IF req.code = 826 THEN c.public_key
                                ELSE @.public_key,
                 aes_key |-> c.aes_key]]
  /\ UNCHANGED <<acked, asked>>

\* 1603; there is nothing to decrypt with before the first exchange of keys
last_packet ==
  /\ Answer("last_packet")
  /\ ClientOf(req.id).aes_key # "none"
  /\ asked' = asked \cup {<<req.id, req.file>>}
  /\ UNCHANGED <<acked, told>>

answer_1604 == Answer("answer_1604") /\ UNCHANGED <<acked, told, asked>>
end == Answer("end") /\ UNCHANGED <<acked, told, asked>>

-----------------------------------------------------------------------------
(* data_base_handle, and what can go wrong anywhere.                       *)

Start ==
  /\ status = "down"
  /\ status' = "starting"
  /\ todo' = (IF schema = "absent" THEN create_calls ELSE <<>>) \o load_calls
  /\ UNCHANGED <<req, store, faults, clientsView>>

\* CREATE TABLE takes effect at once, each for itself
Create(op, tables) ==
  /\ NextCall(op) /\ Return
  /\ schema' = tables
  /\ UNCHANGED <<mem, db, folders, disk, faults, clientsView>>
create_clients == Create("create_clients", "clients")
create_files == Create("create_files", "both")

load_clients_MkdirAlways ==  \* mutant: a folder that exists is an error
  /\ NextCall("load_clients") /\ Return
  /\ folders \cap {c.name : c \in db.clients} = {}
  /\ mem' = [mem EXCEPT !.clients = db.clients]
  /\ folders' = folders \cup {c.name : c \in db.clients}
  /\ UNCHANGED <<db, schema, disk, faults, clientsView>>
load_clients ==
  /\ NextCall("load_clients") /\ Return
  /\ db.clients # {} => Root \in folders
  /\ mem' = [mem EXCEPT !.clients = db.clients]
  /\ folders' = folders \cup {c.name : c \in db.clients}
  /\ UNCHANGED <<db, schema, disk, faults, clientsView>>

load_files ==
  /\ schema = "both"
  /\ InMemory("load_files",
              [mem EXCEPT !.files = {r \in db.files : Known(mem, r.id)}])

make_root ==
  /\ NextCall("make_root") /\ Return
  /\ folders' = folders \cup {Root}
  /\ UNCHANGED <<mem, db, schema, disk, faults, clientsView>>

listen ==
  /\ NextCall("listen")
  /\ End
  /\ status' = "up"
  /\ UNCHANGED <<store, faults, clientsView>>

IoCalls == {"new_client", "add_client_db", "set_public_key", "set_aes_key",
            "last_seen", "write", "withdraw_db", "add_file_db", "os_remove",
            "delete_file", "mark_valid_db", "load_clients", "load_files"}

\* database is locked, disk full, permission denied
CallFails ==
  /\ "io" \in FaultKinds /\ faults > 0
  /\ faults' = faults - 1
  /\ \E op \in IoCalls : NextCall(op)
  /\ Raise
  /\ disk' \in {disk} \cup (IF NextCall("write") THEN {disk \cup {Path}} ELSE {})
  /\ UNCHANGED <<db, schema, folders, clientsView>>

\* The process ends; its connections, and the clients waiting, with it.
Die ==
  /\ status # "down" /\ faults > 0
  /\ \/ "crash" \in FaultKinds /\ ~NextCall("create_files")
     \/ "setup" \in FaultKinds /\ NextCall("create_files")
  /\ faults' = faults - 1
  /\ status' = "down"
  /\ mem' = Empty
  /\ End
  /\ asked' = {}
  /\ UNCHANGED <<db, schema, folders, disk, issued, acked, told>>

-----------------------------------------------------------------------------
Init ==
  /\ status = "down" /\ todo = <<>> /\ req = NoRequest
  /\ mem = Empty /\ db = Empty /\ schema = "absent"
  /\ folders = {} /\ disk = {}
  /\ faults = MaxFaults
  /\ issued = {} /\ acked = {} /\ asked = {}
  /\ told = [id \in Ids \cup {Foreign} |-> NoKeys]

Calls ==
  \/ new_client \/ append_client \/ add_client_db
  \/ keep_public_key \/ set_public_key \/ new_aes \/ set_aes_key \/ encrypt
  \/ last_seen \/ write \/ withdraw \/ withdraw_db
  \/ add_file_db \/ append_file \/ last_packet
  \/ mark_valid \/ mark_valid_db \/ os_remove \/ list_remove \/ delete_row
  \/ answer_1600 \/ answer_aes \/ answer_1604 \/ end
  \/ create_clients \/ create_files \/ load_clients \/ load_files
  \/ make_root \/ listen
  \/ Exception

Next == Requests \/ Calls \/ Start \/ CallFails \/ Die

Spec == Init /\ [][Next]_vars

\* The process goes on, and somebody starts it again.
FairSpec == Spec /\ WF_vars(Calls) /\ WF_vars(Start)

-----------------------------------------------------------------------------
(* Properties.                                                             *)

Idle == status = "up" /\ todo = <<>>

\* Every variable has its type.
StoreTypeOK ==
  /\ status \in {"down", "starting", "up"}
  /\ \A s \in {mem, db} : s.clients \subseteq ClientRows
                          /\ s.files \subseteq FileRows
  /\ schema \in {"absent", "clients", "both"}
  /\ folders \subseteq Names \cup {Root}
  /\ disk \subseteq Names \X Files
  /\ faults \in 0..MaxFaults
  /\ issued \subseteq Ids
  /\ acked \subseteq [id : issued, name : Names]
  /\ DOMAIN told = Ids \cup {Foreign}
  /\ asked \subseteq Ids \X Files

\* README.md:9: "Each client must have a unique name": neither the list nor
\* the table ever holds two clients of one name or of one id, through every
\* failed registration and restart (request.py:75-82, server.py:64-68).
NamesUnique ==
  \A s \in {mem, db} : \A c, d \in s.clients :
     c.name = d.name \/ c.id = d.id => c = d

\* A registration that was answered with 1600 is in the table for good, and
\* in the list whenever requests are served (request.py:80-84).
RegistrationsDurable ==
  \A a \in acked : \A s \in {db} \cup (IF status = "up" THEN {mem} ELSE {}) :
     \E c \in s.clients : c.id = a.id /\ c.name = a.name

\* The keys a client was told last are the keys it is met with after any
\* restart: request.py:121-125 and 10-13 save them before they answer.
KeysDurable ==
  \A a \in acked : \A s \in {db} \cup (IF status = "up" THEN {mem} ELSE {}) :
  \A c \in s.clients :
     c.id = a.id =>
       /\ told[a.id].public_key \in {"none", c.public_key}
       /\ told[a.id].aes_key \in {"none", c.aes_key}

\* A file that is not in its client's list has no row either: add_file_db
\* will not meet the primary key, and a new file of any name is accepted
\* (request.py:163-169; README.md:11).
AcceptsNewFiles ==
  Idle => \A r \in db.files : Known(mem, r.id) => Listed(mem, r.id, r.file)

\* server.py:60: a start "gets all the clients and files from the exists db":
\* what it would read is what the lists hold. The conditions of two statements
\* of sql.py name the client only (21) or the file only (44).
RestartRestores == Idle => mem = db

\* Once both tables exist the process always comes up again, wherever it dies
\* and whatever rows, files and folders a half-done handler or start has left
\* (server.py:61-76, clients.py:15-17). Between the two CREATE TABLE statements
\* it may die for good: data_base_handle only looks for the database's file.
ComesUpOnceSetUp == schema = "both" ~> status = "up"
=============================================================================
