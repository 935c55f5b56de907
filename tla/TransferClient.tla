--------------------------- MODULE TransferClient ---------------------------
(***************************************************************************)
(* Client/: one installation of the client program, a directory with a     *)
(* transfer.info and, once it registered, a me.info and a priv.key. Each   *)
(* run of the program connects, registers or reconnects, sends the file    *)
(* and ends; the directory stays. The program is sequential and blocks in  *)
(* get_header_from_server whenever it waits for an answer.                 *)
(***************************************************************************)
EXTENDS Connection

VARIABLES
  run,            \* number of the current run, or of the last one
  pc,             \* where the program is, "off" when it does not run
  outcome,        \* how the last run ended, "running" during a run
  failures,       \* _num_of_failures of the request being tried
  packet_number,  \* loop variable of send_file
  verdict,        \* code of finish_request
  client_id,      \* client.getClientID()
  my_pair,        \* key pair of client.getPrivateKey()
  session_key,    \* AES key behind client.getEncryptedAes()
  me_info,        \* id in me.info, "none" when there is no such file
  priv_key,       \* key pair in priv.key, 0 when there is no such file
  last_pair       \* the newest key pair ever generated

clientVars == <<run, pc, outcome, failures, packet_number, verdict, client_id,
                my_pair, session_key, me_info, priv_key, last_pair>>
filesOfClient == <<me_info, priv_key, last_pair>>
keysOfClient == <<client_id, my_pair, session_key>>

Waiting == {"await_825", "await_826", "await_827", "await_828", "await_end"}
Places == Waiting \cup
  {"off", "register", "reconnect", "make_keys", "save_key", "send_key",
   "send_file"}
Outcomes ==
  {"none", "running", "killed",
   "success", "deleted",       \* the_end
   "no_private_key",           \* read_priv_key
   "too_many_tries",           \* general_error_handle
   "too_many_sends",           \* the same, for the file request
   "unrecognized",             \* an answer code that is not expected
   "wrong_information",        \* read_string_and_check
   "cannot_decrypt",           \* RSAPrivateWrapper::decrypt throws
   "connection_failed"}        \* boost::asio::read throws

ClientTypeOK ==
  /\ run \in 0..MaxRuns
  /\ pc \in Places /\ (run = 0 => pc = "off")
  /\ outcome \in Outcomes
  /\ failures \in 0..(MaxTries - 1)
  /\ packet_number \in 1..TotalPackets
  /\ verdict \in CrcCodes \cup {0}
  /\ pc = "await_end" => verdict \in FinishCodes
  /\ client_id \in Ids
  /\ my_pair \in Nat /\ session_key \in Nat
  /\ me_info \in Ids
  /\ priv_key \in Nat /\ last_pair \in Nat

-----------------------------------------------------------------------------
(* Using the connection, and leaving.                                      *)

\* send_to_server; an exception of write is only printed.
SendToServer(r) ==
  /\ stream' = IF link[run] = "open"
               THEN [stream EXCEPT ![run] = Append(@, r)] ELSE stream
  /\ UNCHANGED <<link, faults>>

Answered == answers[run] # <<>>
Received == Head(answers[run])
TakeAnswer ==
  /\ answers' = [answers EXCEPT ![run] = Tail(@)]
  /\ UNCHANGED <<stream, link, faults>>

(* The process ends: what it has sent is still delivered, but bytes it did *)
(* not read turn the end of the connection into a reset.                   *)
Leave(how, unread) ==
  /\ pc' = "off"
  /\ outcome' = how
  /\ link' = [link EXCEPT ![run] = IF @ # "open" THEN "gone"
                                   ELSE IF unread THEN "reset" ELSE "closed"]
  /\ answers' = [answers EXCEPT ![run] = <<>>]
  /\ UNCHANGED stream

\* exit(1) on the answer at hand, with its payload left unread or not.
Exit(how, payloadLeft) ==
  /\ Leave(how, payloadLeft \/ Tail(answers[run]) # <<>>)
  /\ UNCHANGED <<run, failures, packet_number, verdict, keysOfClient,
                 filesOfClient, faults>>

\* request.getNumFailurs() after request.addFailure()
Failed_Uncounted == failures  \* mutant: addFailure is missing
Failed == failures + 1

\* general_error_handle, with the request tried again at "again".
GeneralError(again, how) ==
  \/ /\ Failed = MaxTries
     /\ Exit(how, FALSE)
  \/ /\ Failed # MaxTries
     /\ failures' = Failed
     /\ pc' = again
     /\ TakeAnswer
     /\ UNCHANGED <<run, outcome, packet_number, verdict, keysOfClient,
                    filesOfClient>>

Unrecognized(expected) ==
  /\ Received.code \notin expected
  /\ Exit("unrecognized", Received.code \notin BareAnswers)

(* read_string_and_check drops everything from the first zero byte on      *)
(* before it compares, so an id that holds one is never found equal.       *)
IdChecked(nul_id) == Received.id = client_id /\ ~nul_id

WrongId(nul_id) ==
  /\ ~IdChecked(nul_id)
  /\ Exit("wrong_information", Received.code # THANK_YOU_1604)

-----------------------------------------------------------------------------
(* main and read_transfer: connect, then register or reconnect.            *)

StartRun ==
  /\ pc = "off" /\ run < MaxRuns
  /\ run' = run + 1
  /\ link' = [link EXCEPT ![run + 1] = "open"]
  /\ failures' = 0
  /\ verdict' = 0
  /\ packet_number' = 1
  /\ client_id' = "none" /\ my_pair' = 0 /\ session_key' = 0
  /\ pc' = IF me_info = "none" THEN "register" ELSE "reconnect"
  /\ outcome' = "running"
  /\ UNCHANGED <<stream, answers, faults, filesOfClient>>

\* reconnection, up to the answer.
SendReconnect ==
  /\ pc = "reconnect"
  /\ \/ /\ priv_key = 0
        /\ Leave("no_private_key", answers[run] # <<>>)
        /\ UNCHANGED <<keysOfClient, faults>>
     \/ /\ priv_key # 0
        /\ my_pair' = priv_key
        /\ client_id' = me_info
        /\ SendToServer(Request(RECONNECT_827, me_info))
        /\ pc' = "await_827"
        /\ UNCHANGED <<outcome, session_key, answers>>
  /\ UNCHANGED <<run, failures, packet_number, verdict, filesOfClient>>

(* get_aes_key_from_server and the first lines of send_file, where the AES *)
(* key is decrypted.                                                       *)
GetAesKey(nul_id) ==
  \/ WrongId(nul_id)
  \/ /\ IdChecked(nul_id) /\ Received.pair # my_pair
     /\ Exit("cannot_decrypt", FALSE)
  \/ /\ IdChecked(nul_id) /\ Received.pair = my_pair
     /\ session_key' = Received.key
     /\ failures' = 0
     /\ packet_number' = 1
     /\ pc' = "send_file"
     /\ TakeAnswer
     /\ UNCHANGED <<run, outcome, verdict, client_id, my_pair, filesOfClient>>

\* reconnection, from the answer on.
OnReconnectAnswer(nul_id) ==
  /\ pc = "await_827" /\ Answered
  /\ \/ /\ Received.code = GENERAL_ERROR_1607
        /\ GeneralError("reconnect", "too_many_tries")
     \/ /\ Received.code = INVALID_RECONNECT_1606
        /\ failures' = 0
        /\ pc' = "register"
        /\ TakeAnswer
        /\ UNCHANGED <<run, outcome, packet_number, verdict, keysOfClient,
                       filesOfClient>>
     \/ /\ Received.code = VALID_RECONNECT_1605
        /\ GetAesKey(nul_id)
     \/ Unrecognized({GENERAL_ERROR_1607, INVALID_RECONNECT_1606,
                      VALID_RECONNECT_1605})

\* registering, up to the answer.
SendRegistration ==
  /\ pc = "register"
  /\ SendToServer(Request(REGISTERING_825, "none"))
  /\ pc' = "await_825"
  /\ UNCHANGED <<run, outcome, failures, packet_number, verdict, keysOfClient,
                 filesOfClient, answers>>

\* registering, from the answer on.
OnRegistrationAnswer ==
  /\ pc = "await_825" /\ Answered
  /\ \/ /\ Received.code \in {GENERAL_ERROR_1607, REGISTERING_FAILED_1601}
        /\ GeneralError("register", "too_many_tries")
     \/ /\ Received.code = REGISTERING_DONE_1600
        /\ client_id' = Received.id
        /\ failures' = 0
        /\ pc' = "make_keys"
        /\ TakeAnswer
        /\ UNCHANGED <<run, outcome, packet_number, verdict, my_pair,
                       session_key, filesOfClient>>
     \/ Unrecognized({GENERAL_ERROR_1607, REGISTERING_FAILED_1601,
                      REGISTERING_DONE_1600})

-----------------------------------------------------------------------------
(* send_public_key_get_aes: it generates a key pair and writes two files   *)
(* before the request goes; tried again, it does all of that again.        *)

CreateMeInfo ==
  /\ pc = "make_keys"
  /\ last_pair' = last_pair + 1
  /\ my_pair' = last_pair + 1
  /\ me_info' = client_id
  /\ pc' = "save_key"
  /\ UNCHANGED <<run, outcome, failures, packet_number, verdict, client_id,
                 session_key, priv_key, connectionVars>>

CreatePrivKeyFile ==
  /\ pc = "save_key"
  /\ priv_key' = my_pair
  /\ pc' = "send_key"
  /\ UNCHANGED <<run, outcome, failures, packet_number, verdict, keysOfClient,
                 me_info, last_pair, connectionVars>>

SendPublicKey ==
  /\ pc = "send_key"
  /\ SendToServer(PublicKeyRequest(client_id, my_pair))
  /\ pc' = "await_826"
  /\ UNCHANGED <<run, outcome, failures, packet_number, verdict, keysOfClient,
                 filesOfClient, answers>>

OnPublicKeyAnswer(nul_id) ==
  /\ pc = "await_826" /\ Answered
  /\ \/ /\ Received.code = GENERAL_ERROR_1607
        /\ GeneralError("make_keys", "too_many_tries")
     \/ /\ Received.code = GET_PUBLIC_KEY_SEND_AES_1602
        /\ GetAesKey(nul_id)
     \/ Unrecognized({GENERAL_ERROR_1607, GET_PUBLIC_KEY_SEND_AES_1602})

-----------------------------------------------------------------------------
(* send_file, crc_checking and the_end.                                    *)

\* One turn of the loop over the packets; nothing is read in between.
SendPacket ==
  /\ pc = "send_file"
  /\ \E damaged \in {d \in BOOLEAN : d => Fault("noise")} :
       /\ stream' = IF link[run] = "open"
                    THEN [stream EXCEPT ![run] =
                            Append(@, PacketRequest(client_id, packet_number,
                                                    session_key, damaged))]
                    ELSE stream
       /\ faults' = IF damaged THEN faults - 1 ELSE faults
  /\ IF packet_number < TotalPackets
     THEN packet_number' = packet_number + 1 /\ pc' = pc
     ELSE packet_number' = 1 /\ pc' = "await_828"
  /\ UNCHANGED <<run, outcome, failures, verdict, keysOfClient, filesOfClient,
                 answers, link>>

\* The code crc_checking answers a checksum with.
FinishCode_Forever(match) ==  \* mutant: no limit on the sendings
  IF match THEN VALID_CRC_900 ELSE WRONG_CRC_TRY_AGAIN_901
FinishCode_OneEarly(match) ==  \* mutant: the limit is one too low
  IF match THEN VALID_CRC_900
  ELSE IF Failed + 1 = MaxTries THEN WRONG_CRC_4TH_902
  ELSE WRONG_CRC_TRY_AGAIN_901
FinishCode(match) ==
  IF match THEN VALID_CRC_900
  ELSE IF Failed = MaxTries THEN WRONG_CRC_4TH_902
  ELSE WRONG_CRC_TRY_AGAIN_901

SendFinishRequest(code) ==
  /\ stream' = IF link[run] = "open"
               THEN [stream EXCEPT ![run] = Append(@, Request(code, client_id))]
               ELSE stream
  /\ answers' = [answers EXCEPT ![run] = Tail(@)]
  /\ UNCHANGED <<link, faults>>

OnCrcAnswer(nul_id) ==
  /\ pc = "await_828" /\ Answered
  /\ \/ /\ Received.code = GENERAL_ERROR_1607
        /\ GeneralError("send_file", "too_many_sends")
     \/ /\ Received.code = VALID_FILE_AND_CRC_1603
        /\ \/ WrongId(nul_id)
           \/ /\ IdChecked(nul_id)
              /\ LET code == FinishCode(Received.match) IN
                 /\ SendFinishRequest(code)
                 /\ verdict' = code
                 \* finish_request is a new Request with no failures, the
                 \* file request keeps its own
                 /\ IF code = WRONG_CRC_TRY_AGAIN_901
                    THEN failures' = Failed /\ pc' = "send_file"
                    ELSE failures' = 0 /\ pc' = "await_end"
              /\ UNCHANGED <<run, outcome, packet_number, keysOfClient,
                             filesOfClient>>
     \/ Unrecognized({GENERAL_ERROR_1607, VALID_FILE_AND_CRC_1603})

OnFinalAnswer(nul_id) ==
  /\ pc = "await_end" /\ Answered
  /\ \/ /\ Received.code = GENERAL_ERROR_1607
        /\ \/ /\ Failed = MaxTries
              /\ Exit("too_many_tries", FALSE)
           \/ /\ Failed # MaxTries
              /\ failures' = Failed
              /\ SendFinishRequest(verdict)
              /\ UNCHANGED <<run, pc, outcome, packet_number, verdict,
                             keysOfClient, filesOfClient>>
     \/ /\ Received.code = THANK_YOU_1604
        /\ \/ WrongId(nul_id)
           \/ /\ IdChecked(nul_id)
              /\ Exit(IF verdict = VALID_CRC_900 THEN "success" ELSE "deleted",
                      FALSE)
     \/ Unrecognized({GENERAL_ERROR_1607, THANK_YOU_1604})

-----------------------------------------------------------------------------
\* The server is gone: boost::asio::read throws, and the program exits.
ReadFails ==
  /\ pc \in Waiting /\ link[run] = "lost"
  /\ Leave("connection_failed", FALSE)
  /\ UNCHANGED <<run, failures, packet_number, verdict, keysOfClient,
                 filesOfClient, faults>>

\* The process is killed.
Kill ==
  /\ pc # "off" /\ Fault("kill")
  /\ Leave("killed", answers[run] # <<>>)
  /\ faults' = faults - 1
  /\ UNCHANGED <<run, failures, packet_number, verdict, keysOfClient,
                 filesOfClient>>

ClientStep(nul_id) ==
  \/ SendReconnect
  \/ OnReconnectAnswer(nul_id)
  \/ SendRegistration
  \/ OnRegistrationAnswer
  \/ CreateMeInfo
  \/ CreatePrivKeyFile
  \/ SendPublicKey
  \/ OnPublicKeyAnswer(nul_id)
  \/ SendPacket
  \/ OnCrcAnswer(nul_id)
  \/ OnFinalAnswer(nul_id)
  \/ ReadFails
=============================================================================
