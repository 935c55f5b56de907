# A verification of the secure file transfer system

This directory models the file transfer system of `src/`: a Python server
(`src/Server/`) that stores files for registered clients, and a C++ client
(`src/Client/`) that registers or reconnects, sends one file encrypted, and
confirms or rejects it by checksum. The models are TLA+, checked with TLC on
small instances; the theorems are proved with TLAPS for every value of the
constants.

## Inventory

### The server (Python, one thread)

| Part | State | Operations |
|---|---|---|
| `server.py` | the selector, `clients_list` | `accept`, `read` (dispatch, two except branches), `data_base_handle` at the start, the select loop |
| `request.py` | the header of one request | `getHeader`, `header_validation`, the handlers of 825, 826, 827, 828 and 900/901/902, `create_send_aes`, `last_packet`, `last_seen` |
| `clients.py`, `files.py` | `Client` (id, name, public key, AES key, files), `File` (name, path, `valid_crc`) | constructors |
| `sql.py` | `defensive.db` | one function, connection and transaction per update |
| `various_functions.py` | – | `check_id`, `create_decrypted_file`, `encrypt_by_public_key`, `clean_buffer`, conversions |
| `answer.py`, `general.py` | – | answer headers, codes, sizes |
| `cksum.py` | – | `memcrc` |

### The client (C++, one thread, one run per start)

| Part | State | Operations |
|---|---|---|
| `client.cpp` | – | `main`, `read_transfer`, `registering`, `reconnection`, `send_public_key_get_aes`, `get_aes_key_from_server`, `send_file`, `crc_checking`, `the_end`, `general_error_handle` |
| `client_ob.cpp` | id, names, private key, encrypted AES key, checksum | setters and getters |
| `request.cpp` | one request and its failure counter | fields, `send_to_server` |
| `answer.cpp` | one answer | `get_header_from_server`, `read_string_and_check`, `getNumber`, `getEncryptedAes`, `getClientID` |
| `various_functions.cpp` | `me.info`, `priv.key` on disk | writing and reading them, `encrypt_file`, `calculate_total_packets` |
| AES, RSA, Base64 wrappers, `cksum_new.cpp` | keys | thin wrappers; `memcrc` |

### How they interact

Only over TCP, one connection per run of the client. A request is a header of 23
bytes and a payload; an answer a header of 7 bytes and a payload. 825
registers (1600, or 1601 when refused), 826 sends the public key (1602 brings the AES
key), 827 reconnects (1605 with the AES key, or 1606: register instead), 828 is one
packet of the file, and only the last one is answered (1603 with the checksum
of what was decrypted), 900 and 902 end the transfer (1604), 901 announces
another sending and is not answered. Any exception in the server ends in
`clean_buffer` and 1607 (1601 from inside 825). The client counts 1607, 1601
and wrong checksums per request and gives up at `MAX_TRIES`.

### What is hard here

* `recv` is called once per field: a request that has not fully arrived is cut
  and its rest is read as the next header.
* The answers carry no number. Whether an answer belongs to the request the
  client waits for depends on both sides counting alike.
* Several connections of one installation can be live at once (a client that was
  killed leaves its packets in flight) and write to one file.
* Each handler changes memory, database and disk one after the other, and each
  of these calls can raise.
* The client writes `me.info` and `priv.key` separately, after the server has
  registered it; either side may have half of a registration.
* The error path of the server can itself raise, and then the process exits.
* `clean_buffer` leaves a socket blocking, in a server of one thread.
* A restart knows the two tables only, which each handler updates in between, and
  two of the statements touch more rows than the handler means.
* Sizes pass through `int`, 32-bit and 16-bit fields, names through fixed buffers,
  identifiers through hexadecimal text.

### What makes the parts correct

| Part | Property |
|---|---|
| Handlers | a file marked valid is whole and decrypted; every request that calls for an answer gets one, no other gets any |
| Client | every run ends; the limit of sendings is exact; what it reports is what the server recorded |
| Both | the AES key agrees; a client that reports success has its file at the server; an installation can come back unless its files and the server's records contradict each other; list and table agree, so a restart changes nothing |
| Store | names are unique; what a client was told of its registration and keys survives a restart; list and table hold the same files; a process that was set up comes up again; an update touches only the file it is about |
| Event loop | the thread never waits for a client that waits for it; everybody is answered |
| Packets | the packets put together are the file, for every size the README of the program allows |
| Checksum | both `memcrc` compute the CRC of POSIX `cksum`; small damage is always seen |
| Formats | what is written is what the other side reads, through `me.info`, padding and byte order |

`PROJECT.json` lists every hazard at its line, with the properties that cover
it, or why none does yet.

## Modules

| Module | Models |
|---|---|
| `Protocol` | codes, requests, answers, and the content of the uploaded file packet by packet |
| `Connection` | the TCP connections and the budget of faults (external; no code) |
| `TransferServer` | the select loop and all handlers, for one client name and one file |
| `TransferClient` | the client program, run after run in one directory |
| `TransferSession` | both together: initial situations, fairness, all properties |
| `Upload` | abstract specification: what one run promises about the file |
| `ServerStore` | `clients_list`, `defensive.db` and the folders, for several clients and files, call by call |
| `EventLoop` | `select`, `accept`, `read`, `recv`, `clean_buffer` with several clients |
| `Packets` | cutting into packets and joining, with the widths of the integers |
| `Fields` | numbers, padded names and identifiers on the wire and in `me.info` |
| `Cksum`, `CrcTables` | `memcrc` of both programs, the polynomial division it is compared with, and the tables they use |
| `MC...` | values of the constants for TLC, one module per specification |
| `TransferSession_proofs` | theorems about the session: types, list and table, verdicts, the refinement of `Upload`; the lemmas on what each action does, which the next two use |
| `Lockout_proofs`, `Lockstep_proofs` | theorems about the session: successes that last, lockouts that are final; client and server in step over a network that only damages packets and over storage that fails |
| `ServerStore_proofs`, `EventLoop_proofs`, `Packets_proofs`, `Cksum_proofs`, `Fields_proofs` | theorems about the other components |

The session is the composition; the others each take one concern the session
abstracts from and model it in full: its one client and one file are many in `ServerStore`, its handlers
there sequences of calls with a crash between any two, its `split` is the piecewise `recv` of `EventLoop`, its packets are
the slices of `Packets`, its ids and names the bytes of `Fields`, its checksum that tells
contents apart the CRC of `Cksum`.

### From code to actions: the session

Server: one action per request code (`registration_request_825`,
`reconnection_request_827`, `send_public_key_request_826`,
`send_file_request_828`, `crc_response_900_901_902`). The server is single threaded, so a handler
is one action; what an exception leaves half done is a disjunct of it (`IoError`).
`ReadGarbage` and `ReadShort` are the header that is no header and the request
that raises before anything is done. `Raise` is the except branch: drain what has
arrived (`Cleaned`), answer. `ServerExit` is the exception that escapes
`read`; `Restart` starts the process again and builds the lists from the tables, as `data_base_handle` does.
`Updated`, `set_valid_crc`, `add_file_db` and `delete_file` are the statements of `sql.py`, as far as they reach this client's two rows. `EndOfStream` and `ReadReset` are the
two ends of a connection.

Client: every function that sends and then waits is cut at the wait, e.g.
`reconnection` is `SendReconnect` and `OnReconnectAnswer`, `registering` is
`SendRegistration` and `OnRegistrationAnswer`. `pc` is where the program is.
`send_public_key_get_aes` has three steps more, because it may be killed between the
two files. `SendPacket` is one turn of the loop in `send_file`. `failures` is
`_num_of_failures` of the request that is being tried: `send_file_request` keeps its count over
sendings, `finish_request` is a new object and starts at 0.

| Variable | In the code |
|---|---|
| `registered`, `nul_id` | `client_id` of the `Client` of that name; whether it holds a zero byte |
| `public_key`, `aes_key` | its keys; a number per generated key |
| `file` | the `File` object: absent, `valid_crc` False or True |
| `disk` | the content at `file.path` |
| `table` | the row of the name in `clients` (id, public key, AES key) and of the file in `files` (absent, or its `valid_crc`) |
| `stream`, `answers`, `link` | the two directions and the state of each socket |
| `me_info`, `priv_key`, `last_pair` | the files of the installation; the newest pair generated |
| `client_id`, `my_pair`, `session_key`, `verdict` | fields of the client's objects |

The initial situations are those the program can be in: both sides new (`fresh`), registered by an
earlier run (`known`), the name taken by somebody else (`taken`), the database
removed (`forgotten`), or removed and the name taken since (`usurped`).

### From code to actions: the other modules

* `ServerStore`. A request becomes the sequence of calls its handler makes (`todo`: the operators
  `registration_calls`, `public_key_calls`, `listed_packet_calls`, `crc_calls` ...), in the order of
  `request.py`; each call is an action with the name of the function or statement (`add_client_db`,
  `set_aes_key`, `list_remove` ...). `CallFails` lets a call that touches database or disk raise, `Exception` is a call that
  finds what it cannot work with (the primary key, a missing row or file, a key `import_key` refuses, a missing table), `Die` is the
  end of the process between two calls. `Start` and the calls behind it are `data_base_handle`. `acked`, `told` and `asked` are
  what the clients were answered; the code has no such variables.
* `EventLoop`. One `recv` per field; `recv_nothing` is the `BlockingIOError` of a non-blocking socket or the
  empty string of an ended one. `events` is the list `sel.select()` returned: what is in it is served before the next call.
* `Packets`. `Prepare` is `send_file` up to its loop, `SendPacket` one turn together with
  `send_file_request_828` on the other side (`Receive`), `AllSent` the wait for 1603.
* `Fields`. One registered client comes back: `create_me_info`, `read_transfer`, `reconnection`, the packet, and the checks of
  the answer in `crc_checking`. The cutting of each field is done by position, as both programs do.
* `Cksum`. `NextByte` and `NextLengthByte` are the two loops of `memcrc`, taken by client and server in step so that the registers can be compared;
  `Return` is the complement. A word is the set of its bits that are 1.

### Abstractions

* A key is the number of its generation, a ciphertext matches a key or not,
  a checksum tells the right content from any other (no collisions).
* A request is sent whole; a fault `split` makes one `recv` return early. What a cut
  request does is: raise before acting (`ReadShort`), act with a short last field, or hit
  nothing that concerns this file. The rest of it (`cut`) is read as one header that is
  refused. After an error the connection is blocking, which makes the server
  wait for missing bytes instead of raising; for a single installation this delays
  the refusal until the client's next request or its end and adds no
  outcome (for several clients see `EventLoop`).
* A packet can be altered on its way (`noise`); this stands for everything
  that makes the server's content differ from the client's.
* `last_packet` on content that is not the whole file: padding wrong (nothing
  overwritten), size wrong (overwritten), or checksum wrong. The last needs
  a content of the announced size.
* A call to the file system or the database may fail (`io`), after every prefix of the
  handler's effects on the objects, the tables and the disk: a write may leave any shorter content, an update in memory may lack its row, a row its entry in
  the list. A process of the session dies in the select loop only, when a reset escapes `read`; dying inside a handler is in `ServerStore`.
* A client may be killed (`kill`) between any two of its steps. Its earlier sends are
  still delivered; unread answers turn the end of the connection into a reset.
* Runs of one installation follow each other; one name, one file. The exits on a malformed
  `transfer.info`, a name that does not match `me.info`, or a missing file end a run like a kill does.
* After a lost registration the name is registered again under an identifier that the model calls "new" again; nobody was told the lost one. Likewise an AES key
  that a restart takes back may be numbered again.
* A file of the session that is listed always has its row. Only another client's 902 can take it away (`sql.py:44`), which `ServerStore` has.
* `ServerStore`: a file is on the disk or not, its content is the session's concern. `uuid4` never repeats an
  identifier. Clients judge (900 to 902) only what was answered with 1603. A `sendall` that raises is in `TransferServer`, not
  here. The half-written file `sqlite3` may leave before the first table is not modelled.
* `EventLoop`: fields arrive whole, requests are all of one length and answered; exit and reset are in `TransferServer`.
* `Packets`: a content is a number of bytes and whether they are the right ones; encryption is the length it produces.
* `Fields`: a packet is the only one of its file.

## Runs

The runs of the session are bounded by `TotalPackets` packets, `MaxTries`
for `MAX_TRIES`, `MaxRuns` runs of the client, `MaxFaults` faults in all, in this order:

| Run | Bounds | Faults | Checks |
|---|---|---|---|
| `one_run` | 2, 3, 1, 3 | all | `TypeOK`, `VerdictAgreement`, `SuccessLasts`, `RunsEnd`, `IsUpload` |
| `damaged_packets` | 2, 3, 2, 4 | noise | `RestartReadsBack`, `VerifiedMeansIntact`, `KeyAgreement`, `Lockstep`, `OrderlyEnd` |
| `failing_storage` | 1, 3, 2, 4 | io | `SuccessIsIntact`, `KeyAgreement`, `Lockstep` |
| `repeated_runs` | 1, 2, 2, 3 | all | `ListAndRows`, `LockoutIsFinal`, `RetrySucceeds` |
| `stale_packets` | 2, 3, 2, 1 | kill | finds `VerifiedMeansIntact` violated |

Two packets are the least with a first that is not the last; three tries separate the first, a middle and the last failure; as many faults as tries let
every limit be reached; two runs let a run meet what an earlier one left, its packets, records and rows included.
`damaged_packets` has a fault to spare after a deletion, so that a second run meets damage too. `failing_storage` has one for each request of a run or all of them
for one request; it has one packet because with two, two failing calls suffice to break `Lockstep` (see Deviations). `repeated_runs` has three faults because
the hard cases take three: a call that fails between list and table, a client killed so that its connection is reset and the server exits, and one for what the run after the restart meets; it has one packet to
keep that within minutes. Where the identifier
matters, ids with and without a zero byte are both tried; `repeated_runs` uses plain ones, as a zero byte is a lockout by itself.

| Run | Bounds | Checks |
|---|---|---|
| `store_clients` | 2 names, 3 identifiers, 3 public keys (one bad), 2 AES keys, 2 faults of every kind, no files | `StoreTypeOK`, `NamesUnique`, `RegistrationsDurable`, `KeysDurable` |
| `store_files` | 1 name, 2 identifiers, 2 files, 2 crashes, the first start included | `AcceptsNewFiles`, `ComesUpOnceSetUp` |
| `restart_reads` | 2 names, 2 files, no fault | finds `RestartRestores` violated |
| `event_loop` | 2 clients, requests of 3 fields, 2 tries | `NoEmbrace`, `EveryoneAnswered` |
| `packets` | packets of 4, blocks of 2, headers of 5, at most 7 packets, `int` up to 63; all sizes until 32 bits (here 7) start again | `LastMeansWhole`, `LastPacketSent`, `SizeLimit` |
| `fields` | ids of 2 bytes, fields of 4, names up to 3 | `RequestUnderstood`, `TurnedAwayRightly` |
| `checksum` | the real tables; damage of one byte, of four, none; lengths 0, 1, 255, 256, 260 | `BurstFound`, `ChecksumIsPosix` |

`store_clients`: a third identifier is there for a name registered again after a lost registration; two faults
are a failed call and a crash, or two of one kind. `store_files` has one owner, and what a second one changes is the concern of `restart_reads`; it has only crashes,
because a failing `delete_file` breaks `AcceptsNewFiles` (see Deviations). `event_loop`: three fields let a request be cut before its second and
before its last field; two clients are enough for one to be kept waiting by the other. `packets` scales the widths down so that all their limits are met
and passed; the theorems cover the real ones. `fields` has bytes on both sides of each boundary of a hexadecimal digit, names at,
one above and two above the limits, and a length of two bytes. `checksum` has lengths of none, one and two
length bytes; that both tables are the same, entry for entry, is part of `TableAssumption`. No run needs symmetry.

Runs that do not check deadlock: `packets`, `fields` and `checksum` are single computations that end.

### The properties

* `VerdictAgreement`: after `the_end` with 900 the server has the file marked valid, in the list and in the table; after 902
  neither record, row nor file is left. Extra answers from split requests make the client's
  bookkeeping drift, and still this holds, for one run.
* `RestartReadsBack`: as long as no call fails, the tables hold what the lists hold whenever the server waits, and every file of the tables is on the disk; so a reset that ends
  the server, in the middle of whatever transfer, changes nothing.
* `ListAndRows`: what is left of that when calls fail. A client with a row is listed under the row's id, and a listed file has its row: the handlers write list and table in an order
  in which a restart may forget a client nobody was told of, or list a deleted file again, but never loses a file nor gives a name a second id.
* `VerifiedMeansIntact`: a file marked valid is whole and decrypted. It holds over damaging networks, overwriting transfers included. It does not hold once a killed run's packets are in flight (`stale_packets`),
  nor when calls fail (see Deviations).
* `SuccessIsIntact`: when a client reports success, its file is whole and decrypted at the server. This is what failing storage leaves of `VerifiedMeansIntact`: wrong marks are possible, but
  only of runs that did not report success.
* `KeyAgreement`: the client encrypts with the newest AES key of the server.
* `Lockstep`: exactly one request-or-answer is outstanding while the client waits, none while it
  does not, so no answer is taken for another. Split requests break it (they are answered twice), so it is stated
  without them.
* `OrderlyEnd`: over a network that only damages packets, runs end verified, or deleted or given
  up after `MAX_TRIES` damaged sendings and no sooner.
* `LockoutIsFinal`: when `me.info` and `priv.key` contradict the row of the name, and neither list nor row has a key of the installation, no later
  run ever succeeds, restarts or not; nothing in the protocol repairs it. A name that is only in the list is no lockout: the next restart frees it.
* `SuccessLasts`: an installation that has just succeeded is not locked out, whatever failed on the way and although the server may have restarted since. It holds for a run, and for any number of them while no call
  fails.
* `RetrySucceeds`: a run without further faults succeeds, whatever earlier runs left, unless `priv.key` is missing, the server's *list* contradicts the installation (`Misfit`), or a
  row without an entry in the list refuses the file (`LeftRow`). The last two may end with a restart.
* `RunsEnd`: every run ends, under every fault.
* `IsUpload`: the run implements `Upload`: stored unverified, decided once by the client,
  settled once by the server as decided and untouched since, reported only after that. The record is the row, which a restart reads; it is settled when list and row are.
* `NamesUnique`: neither list nor table ever holds two clients of one name, although uniqueness is only checked in
  the list, and the two differ after a failed insert.
* `RegistrationsDurable`, `KeysDurable`: a registration answered with 1600, and the keys of the newest answered exchange,
  are in the table from then on, whichever call fails and whenever the process dies.
* `AcceptsNewFiles`: between requests a file that is not in the list has no row, so the primary key refuses no upload, wherever the process died before.
* `ComesUpOnceSetUp`: once the database has its tables the process always comes up again, whatever folders, rows and files it finds.
* `NoEmbrace`: the server is never blocked in `recv` for a client that waits for an answer while nothing is on its way.
  The blocking socket makes this possible in principle: a request refused in its middle leaves a rest that the next `recv`s take for a whole request.
* `EveryoneAnswered`: under all arrivals in pieces, each client's request is answered, or the client gives up after `MAX_TRIES` errors.
* `LastMeansWhole`: the packet whose number equals the total completes the encrypted file, each byte once and in order.
* `LastPacketSent`: a client that waits for the checksum has sent exactly one such packet, unless its size is not a positive `int`.
* `SizeLimit`: which sizes are refused.
* `RequestUnderstood`: the server reads what the client was registered with and put in.
* `TurnedAwayRightly`: a client that comes back is refused only for names too long, or for a zero byte in its identifier.
* `ChecksumIsPosix`: both loops, with both tables, compute the division by the polynomial.
* `BurstFound`: damage confined to four bytes in a row changes the checksum.
* `RestartRestores`: what `server.py:60` promises of a start, for several files; see Findings.

### Fairness

`FairSpec` assumes weak fairness of the client's steps (a sequential program that goes on unless it
waits in `read`), of each connection's service (`sel.select` is level triggered and reports a readable socket until it
is served, and the loop serves all it reports), and of the restart of a server that died (an operator). It is not assumed that anybody starts the client, that faults occur or that they do not.

`ServerStore` assumes that the process goes on with its calls and that an operator starts it again. `EventLoop` assumes the same of the
one server thread as a whole (not of each connection: that each is served is what `EveryoneAnswered` shows), that clients go on until they wait, and
that the network delivers what was sent.

### Findings

1. `stale_packets`: a killed run's packets are appended to the file between the new run's checksum and
   its 900; the file is then marked valid and is not what was checked (`request.py:192`).
2. `restart_reads`: `set_valid_crc` has no file name in its condition (`sql.py:21`): confirming one file marks all
   files of the client valid in the table. The list and what a restart reads differ without any fault.

### Deviations

Other places where the code does something else than its documentation says, met while modelling. The models contain
the behaviour, the properties are stated so that they hold with it.

* Four sendings that fail in decryption or size are answered 1607, and the client exits without 902; `README.md:13` of the program says the
  server deletes the file. `OrderlyEnd` knows both ends.
* `read_string_and_check` cuts an id at its first zero byte and refuses it (`answer.cpp:44`); about one id in eighteen has one. `TurnedAwayRightly` bounds the harm.
* An overwriting first packet is written (`request.py:147-150`) before the old mark is withdrawn (`158`). If the write, `last_seen` (`152`) or the process fails in
  between, other content stays marked valid: one failing call in a second run violates `VerifiedMeansIntact`.
* An error in a packet that is not the last is answered while the client still sends (`server.py:55-58`). From then on the client reads every answer one request early, and
  a second failing call lets its 900 mark half of a later sending: two failing calls and two packets violate `VerifiedMeansIntact` in one run, three `SuccessIsIntact`.
* A failing `set_public_key` leaves a newer key in the list than in the table (`request.py:121-122`). A client killed while it waits for the answer reconnects and succeeds with that key, and
  the next restart locks it out: `SuccessLasts` is violated in a second run.
* A process that dies between the two `CREATE TABLE` (`sql.py:30-32`) never comes up again: `data_base_handle` finds the file (`server.py:62`) and
  selects from a missing table at every start. `ComesUpOnceSetUp` is about all other ends; `store_files` and `store_clients` include this one.
* `delete_file` deletes the rows of a file name for all clients (`sql.py:44`); the others' files are in their lists until a restart and unknown after it. `README.md:19`
  speaks of a folder per client. Two clients with a file of one name are enough, without any fault. `RestartRestores` would be violated by this too.
* `delete_file` comes after `list.remove` (`request.py:201-202`). If it fails, the row stays, and its primary key refuses every later upload of the name (`request.py:168`) until
  a restart lists it again, the file being gone; `README.md:11` promises overwriting. The session has this state (`LeftRow`); with one failing call `AcceptsNewFiles` is violated.
* A name whose `add_client_db` failed (`request.py:81-82`) is taken until the server is started again.
* `README.md:15` puts the limit of a file at 4096 * (2^16 - 1) bytes; the padding counts too, so sizes up to a block below it are refused. Sizes whose encryption is no positive `int` are sent as nothing at all, and the client waits for an answer.
* `client.cpp:113` refuses a file name of exactly 255 characters; longer ones end the program in `strcpy_s`.
* `clean_buffer` ends with a blocking socket (`various_functions.py:60`), `accept` starts with a non-blocking one (`server.py:25`). A client that sends half a request after an error and stalls without closing stops the server for everybody; `EveryoneAnswered` holds for clients that do not stall.

## Proofs

`TransferSession_proofs` proves, from the assumptions on the constants alone:

* `TypeCorrect`: `Spec => []TypeOK`.
* `ListKeepsToRows`: `Spec => []ListAndRows`, under every fault.
* `RestartsReadBack`: when no call fails (`"io" \notin FaultKinds`), `Spec => []RestartReadsBack`.
* `VerdictsAgree`: with `MaxRuns = 1`, `Spec => []VerdictAgreement`.

The first three rest on `TypesAndRecords`, which is inductive: `TypeOK`, which contains that a
failure counter stays below `MaxTries` and that `the_end` runs only with a verdict of 900 or 902, both needed for its own preservation, and `RowsFit`. That says what list and table share
whatever fails (a client with a row is listed under its id, a listed file has a row, both kept by a restart), and that they share everything if nothing fails. The hypothesis of `RestartsReadBack` is needed: every one of
`request.py:82`, `122`, `159`, `193` and `202` leaves list and table different when it fails.

`VerdictAgreement` is not inductive, because requests may be on their way when the client ends.
`VerdictInv` adds what makes it so. The stream holds nothing behind the first 900 or 902 but copies of it
(`FollowedBy`), since from then on the client only repeats that request. Once the client has been thanked, or the 1604 is on its
way (`Thanked`), object and row are settled as the verdict says and the *whole* stream consists of such copies (`Only`): the handler that thanked
read the first of them. A copy finds the file verified or absent and is refused without effect. The lemmas:

* `EndOf` and its lemmas: whatever a handler, a split or `clean_buffer` leaves of a stream is an end of it, code by code.
  `FollowedBy` and `Only` survive that (`EndKeeps`) and the client's appends (`AppendKeeps`).
* `ServerEffect` and one lemma per handler: at most one answer is added, with which code; 1604 only by 900 or 902 on an unverified file (`CrcResponseStep`).
* `QuietServerStep`, `QuietClientStep`: all steps but three (the thanks, the verdict, the start) keep `VerdictInv` for the same reason.

Why one run: with two, a stale connection can change the file after the report (finding 1 has the same cause).

It also proves `RunIsUpload`: with `MaxRuns = 1`, `Spec => IsUpload`, under every fault. Each step of the session maps to a step of `Upload` or to a stutter
(`AbstractStep`). The mapping needs more than `VerdictInv`: before the verdict neither object nor row is ever marked valid, a row marked valid has its object marked, and the client cannot hold or be sent a 1603 while the file is absent, so
that a decision to keep or drop always finds something stored; after 900 the file is never absent, after 902 never verified, whatever a failing `set_valid_crc` or `delete_file` and the restart after it leave; and once list and row are settled nothing but copies of the
verdict is left in the stream, so no packet reaches a settled file. `ClientKind` sorts the steps of the client by what they mean for an upload (goes on, fails, reports, repeats, decides), `RecordEffect` the
handlers by what they do to the record.

`Lockout_proofs` proves, for every number of runs:

* `SuccessesLast`: when no call fails, under every other fault, `Spec => []SuccessLasts`. With failing calls it is checked for one run, and false for more (see Deviations).
* `LockoutsAreFinal`: `Spec => LockoutIsFinal`, under every fault, restarts from the tables included.

`SuccessesLast` needs `LockInv`: which connections can still hold requests and answers (`Linked`); the id of a
registration is told to one run only (`Naming`); public keys on their way are numbered upwards, newer than the server's and not newer than `priv.key` (`KeysSent`), so no late 826 of an
old run takes a key back; and what an unread answer allows the client to become (`Heard`). A success needs id and key that fit (`Fits`), the list's and, as nothing failed, the table's.

A lockout at rest is no single state predicate that every
step keeps: the next run reconnects, is told 1605 or 1606, perhaps registers or makes new keys, and all of that must come to nothing. `Doom` is what is kept: `Keyless` (`me.info` without `priv.key`, and a program that gets no further
than its first step), or `Stuck`: the name is in the table under an id or with keys that are not the installation's (`Shut`), and neither an 826 under way nor an unread answer could change that (`TellsNothing`). Since list and table
may differ here, the id is the row's, which the list has too (`RowsFit`), and the key neither of the two, as a reconnection uses the one now and the other after a restart. A success would need an answer that `Doom` excludes.

`Lockstep_proofs` proves, for a network that only damages packets and identifiers without zero byte (`NoiseOnly`: `FaultKinds \subseteq {"noise"}` and `NulIds = {FALSE}`), and for every number of runs, packets, tries and
damages, from every initial situation:

* `VerifiedFilesAreIntact`: `Spec => []VerifiedMeansIntact`; `KeysAgree`: `Spec => []KeyAgreement`; `ClientAndServerInStep`: `Spec => []Lockstep`; `RunsEndInOrder`: `Spec => []OrderlyEnd`;
  `VerdictsAgreeOverDamagedPackets`: `Spec => []VerdictAgreement`.

None of the five is inductive; one invariant, `DamageInv`, carries them all. `Dialog` says for each place of the client what exactly is in the two directions of its connection and what the server has recorded by then. For a sending that is
`Flight(w, k, q)`: of q packets sent k are on the disk, in order and under this run's key, the others are in the stream in order, behind the 901 while it is unread (w = 1). Damage is paid for: the faults spent are at least the
failures counted (`Counted`), and more than that as soon as a packet of the current sending is damaged. So a checksum that differs raises the count to no more than the damage done, and 902 or giving up means `MAX_TRIES` damages. A sending without damage,
decrypted, is the file (`WholeSending`). `Standing` says that between registrations the name is free, somebody else's, or fits the installation's files, which gives the agreement on keys. `Wired`: no connection but the current run's holds anything, and the server is up.
The hypotheses are those of the run `damaged_packets`. They are needed: kills break `VerifiedMeansIntact` (finding 1), splits `Lockstep`, a zero byte in an id ends a run that nobody damaged.
`VerdictAgreement` over several runs needs one fact more (`Vacant`): a file without a record is not on the disk. It holds because the packets come in order, so the handler never writes a later packet of a file nobody knows.

The second part of `Lockstep_proofs` is about storage that fails (`StorageOnly`: `FaultKinds \subseteq {"io"}` and `TotalPackets = 1`), whichever call of a handler to the database or the file system it is, and with identifiers that hold zero bytes, so that connections
are reset and the server dies and is started again:

* `InStepOverFailingStorage`: `Spec => []Lockstep`; `SuccessesAreIntact`: `Spec => []SuccessIsIntact`; `VerdictsAgreeOverFailingStorage`: `Spec => []VerdictAgreement`;
  `KeysAgreeOverFailingStorage`: `Spec => []KeyAgreement`, all for any number of runs, faults and restarts, overwriting transfers included.

Which answer comes next cannot be said here, since every handler may fail after any of its writes. `StorageInv` says instead that client and server take turns (`Turns`: the request the client's place calls for, or a single answer, and on no other connection anything,
`Apart`), and that what an unread answer says is so (`Credible`: a key told is the server's as long as the connection lasts, a checksum that matches was taken of the content on the disk, a thanks means file and row are marked), hence also what the client concluded from it (`Founded`). One lemma per handler shows that it
answers once, with something credible, wherever it fails. A checksum stays true until the thanks because the client writes nothing in between, and no other connection holds packets. The hypotheses are those of the run `failing_storage`, and needed: with two packets a failing first one is answered with 1607, the
second with another, while the client reads one. `Lockstep` is violated, and with a third failing call `SuccessIsIntact`. `VerifiedMeansIntact` is false here even with one packet (see Deviations).
Without noise no checksum differs, so the 902 half of `VerdictAgreement` is `VerdictsAgreeOverDamagedPackets`'s.

`ServerStore_proofs` proves for any number of names, identifiers, files, keys and faults:

* `TypesHold`: `Spec => []StoreTypeOK`; `NamesAreUnique`: `Spec => []NamesUnique`; `RegistrationsAreDurable`: `Spec => []RegistrationsDurable`; `KeysAreDurable`: `Spec => []KeysDurable`, all with failing calls and crashes between any two calls.
* `NewFilesAreAccepted`: `Spec => []AcceptsNewFiles` when no call fails (`"io" \notin FaultKinds`; crashes are allowed). The code needs that: a failing `delete_file` leaves a row without an entry in the list, and its primary key refuses the next upload.

The invariant has to know where a handler is: `Program` says that `todo` is an end of the sequence of calls of the request at hand, for every handler and every branch of it. With that, `Store` can say what list and table share at each
point: ids and names are unique in each, every client of the table is in the list of a process that serves, what was acknowledged is in the table. `Registration`, `Exchange` and `Upload` say
what the calls done so far have left and what those still to come will find; one lemma per call shows that the call leads from the one to the other.
`RowsListed` is the strengthening of the conditional theorem.

`EventLoop_proofs` proves `NobodyWaitsForEachOther`: `Spec => []NoEmbrace`, for any number of clients and fields and any number of tries. The invariant counts fields: what is on its way to the server or in the socket, together with what
the handler has read, is a whole request for every client that waits and has no answer yet (`Owed`), since `clean_buffer` throws nothing away without an answer following; and a handler in `recv` has not read a whole request (`Reading`).

`Packets_proofs` proves for every packet size, block size, number of packets and width of `int`, and files of every size:

* `LastIsLast`: `Spec => []LastMeansWhole`; `OneLastPacket`: `Spec => []LastPacketSent`; `Limit`: `Spec => []SizeLimit`.

The invariant ties the loop's four counters together: after `packet_number - 1` packets, `begin` and the server's bytes are that multiple of `PacketMax`, and the counter is the encrypted
size less that multiple. That the last packet has the number `total_packets` is then `RoundedUp`: a size lies above the multiple of `PacketMax` before its last packet and
not above the one after. `EncryptedSize` bounds what padding adds. The assumptions on the constants are that a header and a packet fit an `int`, that the largest packet number is below the largest `int`,
and that blocks divide 2^32.

`Cksum_proofs` proves, for files of every length:

* `BurstsAreFound`: `Spec => []BurstFound`; `ChecksumsArePosix`: `Spec => []ChecksumIsPosix`.

`BurstsAreFound` uses one fact about the tables, that their entries differ pairwise in the low byte (`TableAssumption`, which TLC evaluates on the tables of the code). With it a turn of the loop
is injective in the register (`TurnInjective`): registers that differ keep differing while equal bytes are read. That is not enough while damaged bytes are read, so the invariant `Burst` says where
they differ: after the first damaged byte in the lowest 8 bits (`FirstDamage`), after each further one in the lowest 16, 24, 32 (`NextDamage`); bits that low are
not shifted out before four bytes are over.

`ChecksumsArePosix` uses one more, that the entry of a byte is the remainder of that byte (also in `TableAssumption`). `DivideBits` shows that dividing is linear in its bits: eight steps on a register are eight steps on its upper
byte, which is the table's entry, and a shift of the rest. So a turn of the loop divides one more byte (`TurnDivides`), the register is at each moment the remainder of the bytes read so far (`OnTheWay`), and the bytes of the length
the second loop shifts out of `n` are those `LengthBytes` lists (`LengthBytesStep`).

The recursions in these definitions are recursive functions. The induction theorems of the library take an operator and cannot be instantiated; instead `LeastNumber` takes the least
number of a set from `WFMin` and `NatLessThanWellFounded`, and `Induction` (no number is the least without a property) and `Recursion` (a function defined step by step exists and takes its steps) follow, stated about sets and functions.

`Fields_proofs` proves, for all sizes of identifiers and of the name fields and all identifiers, names, paths and contents:

* `RequestsAreUnderstood`: `Spec => []RequestUnderstood`; `NobodyIsTurnedAwayWrongly`: `Spec => []TurnedAwayRightly`.

`FieldsInv` says for each place of the client what the last message is, as a concatenation of its fields, and that the client's identifier is the one it was registered with. The lemmas are about the conversions: two hexadecimal digits for each byte come back
as that byte (`HexAndBack`), `NumberIn` undoes `Number` for one, two and four bytes (`NumberRead1`, `NumberRead2`, `NumberRead4`), stripping or cutting a padded name gives the name (`PaddingStripped`, `PaddingCut`), a field cut from a concatenation at the sum of
the sizes before it is the field put there (`FieldAt`). `FieldsAssumption` says of the constants what the code relies on: identifiers consist of `ID_SIZE` bytes, names are lines of text without a zero byte, the longest name allowed is shorter than its field, and
a packet with its header is below 2^24 bytes (`PACKET_MAX_SIZE` is 4096). Identifiers may hold zero bytes; the theorem says what happens then.

Only model-checked:

* the liveness properties `RunsEnd`, `RetrySucceeds`, `ComesUpOnceSetUp`, `EveryoneAnswered`: liveness under fairness is beyond TLAPS.

## Plan

1. Done: the models of the session, store, event loop, packets, fields and checksum; every invariant and action property the runs check is proved, under the hypotheses of its run or weaker ones, but for `SuccessLasts`, which is proved without failing calls and only checked with them.
2. `IsUpload` for several runs, under the hypotheses that keep connections apart (no kills): `Upload` describes one run and would have to start over with each.
3. `VerdictAgreement` for files of several packets over failing storage: answers are then not one to a request, so `Turns` would have to count them.

## Not modelled

* Cryptography: stateless wrappers around Crypto++ (`AESWrapper`, `RSAWrapper`, `Base64Wrapper`). Whether keys match is in the session, the length of a
  ciphertext in `Packets`, a key that cannot be imported in `ServerStore`; there is no further state or control to model.
* Base64 in `me.info` and `priv.key`, UTF-8 of names: library calls, inverse to each other.
* The seven further tables of `cksum_new.cpp` and both `readfile` functions: nothing calls them.
* The text of messages, `last_seen_date` (that writing it may fail is modelled), `port.info`, the order of lines in `transfer.info`.
* The version field of headers beyond its being sent and read: both programs send 3.
* Two client processes at the same time in one directory.
