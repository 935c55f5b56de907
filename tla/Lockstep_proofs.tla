-------------------------- MODULE Lockstep_proofs --------------------------
(***************************************************************************)
(* Client and server in step. Over a network that only damages packets,    *)
(* for every number of runs, packets, tries and damages, they answer each  *)
(* other in turn, agree on the AES key and on the verdict, mark only       *)
(* intact files valid, and no run ends badly without reason. Over storage  *)
(* that fails, and a server that starts again from its tables, they stay   *)
(* in step for a file of one packet, agree on key and verdict, and a       *)
(* success means an intact file.                                           *)
(***************************************************************************)
EXTENDS TransferSession_proofs, FiniteSetTheorems

KeyMaking == {"make_keys", "save_key", "send_key", "await_826"}
InSession == {"send_file", "await_828", "await_end"}

Spent == MaxFaults - faults

(* Only the current run has a connection in use, and the server never      *)
(* fails.                                                                  *)
Wired ==
  /\ up /\ ~nul_id
  /\ \A c \in Conns : c > run => link[c] = "idle"
  /\ \A c \in Conns : c # run \/ pc = "off" =>
       stream[c] = <<>> /\ answers[c] = <<>> /\ link[c] \in {"idle", "closed", "gone"}
  /\ pc # "off" => link[run] = "open" /\ outcome = "running"

\* The files of the installation are what the server has recorded.
Matched ==
  /\ registered # "none" /\ registered = me_info
  /\ 0 < priv_key /\ public_key = priv_key

(* Between two registrations the name is free, somebody else's, or fits.   *)
Standing ==
  /\ me_info \in {"none", "old", "new"}
  /\ pc # "save_key" /\ me_info # "none" => 0 < priv_key
  /\ pc \in {"off", "reconnect", "await_827"} => registered \in {"none", "other"} \/ Matched
  /\ pc \in {"reconnect", "await_827"} => me_info # "none"
  /\ pc = "await_827" => client_id = me_info /\ my_pair = priv_key
  /\ pc = "register" => registered \in {"none", "other"}
  /\ pc \in KeyMaking => registered = "new" /\ client_id = "new"
  /\ pc \in KeyMaking \ {"make_keys"} => me_info = "new" /\ 0 < my_pair
  /\ pc \in {"send_key", "await_826"} => my_pair = priv_key
  /\ pc \in InSession => Matched /\ client_id = registered /\ session_key = aes_key

\* The two directions of the current connection.
Pending == stream[run]
Got == answers[run]

Ready == Pending = <<>> /\ Got = <<>>
Asked(r) == Pending = <<r>> /\ Got = <<>>
Told(a) == Pending = <<>> /\ Got = <<a>>

\* r is packet n of the file as this run encrypts it.
Packet(r, n) ==
  /\ r.code = SEND_FILE_828 /\ r.id = client_id /\ ~r.cut
  /\ r.packet = n /\ r.key = session_key

\* k packets of this run are on the disk.
Stored(content, k) ==
  /\ Len(content) = k
  /\ \A i \in 1..k : /\ content[i].packet = i /\ content[i].key = session_key
                     /\ content[i].state \in {"cipher", "damaged"}

(* Of this sending q packets were sent and k written; w = 1 while the 901  *)
(* that announced it is unread. Damage has been paid for.                  *)
Flight(w, k, q) ==
  /\ Len(Pending) = w + (q - k)
  /\ \A i \in 1..(q - k) : Packet(Pending[w + i], k + i)
  /\ w = 1 => /\ Pending[1] = Request(WRONG_CRC_TRY_AGAIN_901, client_id)
              /\ k = 0 /\ file = "unverified"
  /\ k > 0 => file = "unverified" /\ Stored(disk, k)
  /\ \/ Spent > failures
     \/ /\ \A i \in 1..(q - k) : ~Pending[w + i].damaged
        /\ k > 0 => \A i \in 1..k : disk[i].state = "cipher"

(* What client and server have said to each other and not yet heard.       *)
Dialog ==
  /\ pc \in {"register", "reconnect", "make_keys", "save_key", "send_key"} => Ready
  /\ pc = "await_825" =>
       \/ Asked(Request(REGISTERING_825, "none")) /\ registered \in {"none", "other"}
       \/ Told(Answer(REGISTERING_DONE_1600, "new")) /\ registered = "new"
       \/ Told(Answer(REGISTERING_FAILED_1601, "none")) /\ registered = "other"
  /\ pc = "await_826" =>
       \/ Asked(PublicKeyRequest(client_id, my_pair))
       \/ /\ Told(AesAnswer(GET_PUBLIC_KEY_SEND_AES_1602, client_id, aes_key, my_pair))
          /\ public_key = my_pair
  /\ pc = "await_827" =>
       \/ Asked(Request(RECONNECT_827, client_id))
       \/ Told(AesAnswer(VALID_RECONNECT_1605, client_id, aes_key, my_pair)) /\ Matched
       \/ Told(Answer(INVALID_RECONNECT_1606, client_id)) /\ registered = "none"
       \/ Told(Answer(GENERAL_ERROR_1607, "none")) /\ registered = "other"
  /\ pc = "send_file" =>
       /\ Got = <<>>
       /\ \E w \in {0, 1}, k \in 0..(packet_number - 1) : Flight(w, k, packet_number - 1)
  /\ pc = "await_828" =>
       \/ /\ Got = <<>>
          /\ \E w \in {0, 1}, k \in 0..(TotalPackets - 1) : Flight(w, k, TotalPackets)
       \/ /\ file = "unverified" /\ IntactFile(disk)
          /\ Told(CrcAnswer(client_id, TRUE))
       \/ /\ file = "unverified" /\ Spent > failures
          /\ \/ Told(CrcAnswer(client_id, FALSE))
             \/ Told(Answer(GENERAL_ERROR_1607, "none"))
  /\ pc = "await_end" =>
       /\ \/ Asked(Request(verdict, client_id)) /\ file = "unverified"
          \/ /\ Told(Answer(THANK_YOU_1604, client_id))
             /\ file = IF verdict = VALID_CRC_900 THEN "verified" ELSE "absent"
       /\ verdict = VALID_CRC_900 => IntactFile(disk)
       /\ verdict = WRONG_CRC_4TH_902 => Spent >= MaxTries

Counted ==
  /\ pc \in {"send_file", "await_828"} => Spent >= failures
  /\ pc = "await_828" => packet_number = 1

DamageInv ==
  /\ Wired /\ Standing /\ Dialog /\ Counted
  /\ VerifiedMeansIntact /\ OrderlyEnd

NoiseOnly == FaultKinds \subseteq {"noise"} /\ NulIds = {FALSE}

-----------------------------------------------------------------------------
(* What the server does with the only request there is, or with the first  *)
(* of several.                                                             *)

LEMMA NoSplit ==
  ASSUME NoiseOnly
  PROVE  Splits = {FALSE} /\ ~Fault("split") /\ ~Fault("io") /\ ~Fault("kill")
BY DEF NoiseOnly, Splits, Fault

\* The request is answered with a, and nothing is left of it.
Replied(a) ==
  /\ stream' = [stream EXCEPT ![run] = <<>>]
  /\ answers' = [answers EXCEPT ![run] = <<a>>]
  /\ UNCHANGED <<up, link, faults>>

\* It is not answered.
Skipped ==
  /\ stream' = [stream EXCEPT ![run] = Tail(@)]
  /\ UNCHANGED <<up, link, faults, answers>>

LEMMA InUse ==
  ASSUME TypeOK, Wired, pc # "off"
  PROVE  /\ run \in Conns /\ run > 0 /\ link[run] = "open"
         /\ stream \in [Conns -> Seq(Requests)] /\ Pending \in Seq(Requests)
         /\ answers \in [Conns -> Seq(Answers)] /\ Got \in Seq(Answers)
BY DEF TypeOK, ConnectionTypeOK, ClientTypeOK, Conns, Wired, Pending, Got

LEMMA SendReplied ==
  ASSUME TypeOK, Wired, pc # "off", Got = <<>>, NEW a, Send(run, <<>>, a)
  PROVE  /\ stream' = [stream EXCEPT ![run] = <<>>]
         /\ answers' = [answers EXCEPT ![run] = <<a>>]
         /\ UNCHANGED <<up, link>>
<1>1. Append(Got, a) = <<a>>
  OBVIOUS
<1> QED
  BY <1>1, InUse DEF Send, Got

LEMMA RestIsNone ==
  ASSUME TypeOK, Wired, pc # "off", Len(Pending) = 1
  PROVE  Rest(run, FALSE) = <<>> /\ Head(Pending) = Pending[1] /\ Pending # <<>>
<1>1. Pending \in Seq(Requests)
  BY InUse
<1>2. Pending # <<>> /\ Head(Pending) = Pending[1]
  BY <1>1
<1>3. Tail(Pending) \in Seq(Requests) /\ Len(Tail(Pending)) = 0
  BY <1>1, <1>2, HeadTailProperties
<1>4. Tail(Pending) = <<>>
  BY <1>3, EmptySeq
<1> QED
  BY <1>2, <1>4 DEF Rest, Pending

LEMMA ReplyReplied ==
  ASSUME TypeOK, Wired, pc # "off", Len(Pending) = 1, Got = <<>>, NEW a, Reply(run, FALSE, a)
  PROVE  Replied(a)
<1>1. Send(run, <<>>, a) /\ faults' = faults
  BY RestIsNone DEF Reply, FaultsLeft
<1> QED
  BY <1>1, SendReplied DEF Replied

LEMMA RaiseReplied ==
  ASSUME NoiseOnly, TypeOK, Wired, pc # "off", Len(Pending) = 1, Got = <<>>, NEW code,
         Raise(run, Rest(run, FALSE), FaultsLeft(FALSE), code)
  PROVE  Replied(Answer(code, "none"))
<1>1. PICK d \in Cleaned(<<>>, faults) :
         Send(run, d[1], Answer(code, "none")) /\ faults' = d[2]
  BY RestIsNone DEF Raise, FaultsLeft
<1>2. d = <<Suffix(<<>>, 1), faults>>
  <2>1. "split" \notin FaultKinds /\ 1..(Len(<<>>) + 1) = {1}
    BY DEF NoiseOnly
  <2> QED
    BY <1>1, <2>1 DEF Cleaned
<1>3. Suffix(<<>>, 1) = <<>>
  BY DEF Suffix
<1>4. d[1] = <<>> /\ d[2] = faults
  BY <1>2, <1>3
<1> QED
  BY <1>1, <1>4, SendReplied DEF Replied

LEMMA ErrorReplied ==
  ASSUME NoiseOnly, TypeOK, Wired, pc # "off", Len(Pending) = 1, Got = <<>>, Error(run, FALSE)
  PROVE  Replied(Answer(GENERAL_ERROR_1607, "none"))
BY RaiseReplied DEF Error

LEMMA NoAnswerSkipped ==
  ASSUME NoAnswer(run, FALSE)
  PROVE  Skipped
BY DEF NoAnswer, Skipped, Rest, FaultsLeft

LEMMA NothingToRead ==
  ASSUME Wired, pc # "off", Pending = <<>>
  PROVE  ~ServerStep(run)
BY DEF Wired, Pending, ServerStep, ReadGarbage, ReadShort, Readable, EndOfStream, ReadReset,
       registration_request_825, reconnection_request_827, send_public_key_request_826,
       send_file_request_828, crc_response_900_901_902

LEMMA HandlerOf ==
  ASSUME NoiseOnly, Wired, pc # "off", ~Head(Pending).cut, ServerStep(run)
  PROVE  LET code == Head(Pending).code IN
         \/ registration_request_825(run) /\ code = REGISTERING_825
         \/ reconnection_request_827(run) /\ code = RECONNECT_827
         \/ send_public_key_request_826(run) /\ code = SEND_PUBLIC_KEY_826
         \/ send_file_request_828(run) /\ code = SEND_FILE_828
         \/ crc_response_900_901_902(run) /\ code \in CrcCodes
BY NoSplit DEF Wired, Pending, ServerStep, ReadGarbage, ReadShort, Readable, EndOfStream,
       ReadReset, registration_request_825, reconnection_request_827,
       send_public_key_request_826, send_file_request_828, crc_response_900_901_902

(* A step of the server for the current run leaves the connections in      *)
(* order.                                                                  *)
LEMMA ServedWired ==
  ASSUME TypeOK, Wired, pc # "off", UNCHANGED clientVars, ~nul_id',
         Skipped \/ \E a : Replied(a)
  PROVE  Wired'
<1>1. run \in Conns /\ UNCHANGED <<run, pc, outcome, up, link>>
  BY InUse DEF clientVars, Skipped, Replied
<1>2. \A c \in Conns : c # run => stream'[c] = stream[c] /\ answers'[c] = answers[c]
  BY InUse DEF Skipped, Replied
<1> QED
  BY <1>1, <1>2 DEF Wired

LEMMA RepliedTold ==
  ASSUME TypeOK, Wired, pc # "off", UNCHANGED clientVars, NEW a, Replied(a)
  PROVE  Pending' = <<>> /\ Got' = <<a>>
BY InUse DEF Replied, Pending, Got, clientVars

LEMMA CodesDiffer ==
  /\ REGISTERING_825 \notin CrcCodes \cup {RECONNECT_827, SEND_PUBLIC_KEY_826, SEND_FILE_828}
  /\ RECONNECT_827 \notin CrcCodes \cup {REGISTERING_825, SEND_PUBLIC_KEY_826, SEND_FILE_828}
  /\ SEND_PUBLIC_KEY_826 \notin CrcCodes \cup {REGISTERING_825, RECONNECT_827, SEND_FILE_828}
  /\ SEND_FILE_828 \notin CrcCodes \cup {REGISTERING_825, RECONNECT_827, SEND_PUBLIC_KEY_826}
  /\ FinishCodes = {VALID_CRC_900, WRONG_CRC_4TH_902}
  /\ CrcCodes = {VALID_CRC_900, WRONG_CRC_TRY_AGAIN_901, WRONG_CRC_4TH_902}
  /\ VALID_CRC_900 # WRONG_CRC_4TH_902 /\ WRONG_CRC_TRY_AGAIN_901 \notin FinishCodes
BY DEF CrcCodes, FinishCodes, REGISTERING_825, RECONNECT_827, SEND_PUBLIC_KEY_826,
       SEND_FILE_828, VALID_CRC_900, WRONG_CRC_TRY_AGAIN_901, WRONG_CRC_4TH_902

LEMMA RegistrationAnswered ==
  ASSUME NoiseOnly, TypeOK, DamageInv, pc = "await_825", ServerStep(run), UNCHANGED clientVars
  PROVE  DamageInv'
<1> DEFINE r == Request(REGISTERING_825, "none")
<1>1. Asked(r) /\ registered \in {"none", "other"}
  <2>1. Pending # <<>>
    BY NothingToRead DEF DamageInv
  <2> QED
    BY <2>1 DEF DamageInv, Dialog, Told
<1>2. r.code = REGISTERING_825 /\ ~r.cut
  BY DEF Request
<1> HIDE DEF r
<1>3. Len(Pending) = 1 /\ Pending[1] = r /\ Got = <<>> /\ Head(Pending) = r
  BY <1>1 DEF Asked
<1>4. registration_request_825(run)
  <2>1. \/ registration_request_825(run)
        \/ r.code \in CrcCodes \cup {RECONNECT_827, SEND_PUBLIC_KEY_826, SEND_FILE_828}
    BY <1>2, <1>3, HandlerOf DEF DamageInv
  <2> QED
    BY <1>2, <2>1, CodesDiffer
<1>5. /\ UNCHANGED <<public_key, aes_key, file, disk>> /\ ~nul_id'
      /\ \/ /\ registered = "none" /\ registered' = "new"
            /\ Replied(Answer(REGISTERING_DONE_1600, "new"))
         \/ /\ registered = "other" /\ registered' = "other"
            /\ Replied(Answer(REGISTERING_FAILED_1601, "none"))
  <2>1. PICK split \in Splits :
          \/ /\ NameTaken
             /\ Raise(run, Rest(run, split), FaultsLeft(split), REGISTERING_FAILED_1601)
             /\ UNCHANGED storeVars
          \/ /\ ~NameTaken /\ registered' = "new" /\ nul_id' \in NulIds
             /\ Reply(run, split, Answer(REGISTERING_DONE_1600, "new"))
             /\ UNCHANGED <<public_key, aes_key, file, disk>>
          \/ split
          \/ IoError(run, split, REGISTERING_FAILED_1601)
    BY <1>4 DEF registration_request_825, storeVars
  <2>2. split = FALSE /\ ~IoError(run, split, REGISTERING_FAILED_1601)
    BY NoSplit DEF IoError
  <2>3. TypeOK /\ Wired /\ pc # "off"
    BY DEF DamageInv
  <2>4. CASE /\ NameTaken /\ UNCHANGED storeVars
             /\ Raise(run, Rest(run, FALSE), FaultsLeft(FALSE), REGISTERING_FAILED_1601)
    <3>1. Replied(Answer(REGISTERING_FAILED_1601, "none"))
      BY <1>3, <2>3, <2>4, RaiseReplied
    <3> QED
      BY <1>1, <2>3, <2>4, <3>1 DEF NameTaken, storeVars, Wired
  <2>5. CASE /\ ~NameTaken /\ registered' = "new" /\ nul_id' \in NulIds
             /\ Reply(run, FALSE, Answer(REGISTERING_DONE_1600, "new"))
             /\ UNCHANGED <<public_key, aes_key, file, disk>>
    <3>1. Replied(Answer(REGISTERING_DONE_1600, "new"))
      BY <1>3, <2>3, <2>5, ReplyReplied
    <3> QED
      BY <1>1, <2>5, <3>1 DEF NameTaken, NoiseOnly
  <2> QED
    BY <2>1, <2>2, <2>4, <2>5
<1>6. Wired'
  BY <1>5, ServedWired DEF DamageInv
<1>7. /\ UNCHANGED <<run, pc, outcome, failures, client_id, my_pair, me_info, priv_key>>
      /\ UNCHANGED <<up, faults>>
  BY <1>5 DEF clientVars, Replied
<1>8. Dialog'
  <2>1. CASE registered = "none"
    <3>1. Pending' = <<>> /\ Got' = <<Answer(REGISTERING_DONE_1600, "new")>>
      BY <1>5, <2>1, RepliedTold DEF DamageInv
    <3> QED
      BY <1>5, <1>7, <2>1, <3>1 DEF Dialog, Told
  <2>2. CASE registered = "other"
    <3>1. Pending' = <<>> /\ Got' = <<Answer(REGISTERING_FAILED_1601, "none")>>
      BY <1>5, <2>2, RepliedTold DEF DamageInv
    <3> QED
      BY <1>5, <1>7, <2>2, <3>1 DEF Dialog, Told
  <2> QED
    BY <1>1, <2>1, <2>2
<1>9. Standing'
  BY <1>5, <1>7 DEF DamageInv, Standing, KeyMaking, InSession
<1>10. Counted' /\ VerifiedMeansIntact' /\ OrderlyEnd'
  BY <1>5, <1>6, <1>7 DEF DamageInv, Counted, VerifiedMeansIntact, OrderlyEnd, Wired
<1> QED
  BY <1>6, <1>8, <1>9, <1>10 DEF DamageInv

LEMMA PublicKeyAnswered ==
  ASSUME NoiseOnly, TypeOK, DamageInv, pc = "await_826", ServerStep(run), UNCHANGED clientVars
  PROVE  DamageInv'
<1> DEFINE r == PublicKeyRequest(client_id, my_pair)
           a == AesAnswer(GET_PUBLIC_KEY_SEND_AES_1602, client_id, aes_key + 1, my_pair)
<1>1. Asked(r) /\ registered = "new" /\ client_id = "new"
  <2>1. Pending # <<>>
    BY NothingToRead DEF DamageInv
  <2> QED
    BY <2>1 DEF DamageInv, Dialog, Told, Standing, KeyMaking
<1>2. r.code = SEND_PUBLIC_KEY_826 /\ r.id = client_id /\ r.pair = my_pair /\ ~r.cut
  BY DEF PublicKeyRequest, Request
<1> HIDE DEF r
<1>3. Len(Pending) = 1 /\ Got = <<>> /\ Head(Pending) = r
  BY <1>1 DEF Asked
<1>4. send_public_key_request_826(run)
  <2>1. \/ send_public_key_request_826(run)
        \/ r.code \in CrcCodes \cup {REGISTERING_825, RECONNECT_827, SEND_FILE_828}
    BY <1>2, <1>3, HandlerOf DEF DamageInv
  <2> QED
    BY <1>2, <2>1, CodesDiffer
<1>5. /\ UNCHANGED <<registered, nul_id, file, disk>>
      /\ public_key' = my_pair /\ aes_key' = aes_key + 1 /\ Replied(a)
  <2>1. IdMatches(run)
    BY <1>1, <1>2, <1>3 DEF IdMatches, Pending
  <2>2. PICK split \in Splits :
          \/ ~IdMatches(run)
          \/ /\ public_key' = Head(stream[run]).pair
             /\ \E row : create_send_aes(run, split, GET_PUBLIC_KEY_SEND_AES_1602,
                                         Head(stream[run]).pair, row)
          \/ split
          \/ IoError(run, split, GENERAL_ERROR_1607)
    <3>1. PICK split \in Splits :
            \/ ~IdMatches(run)
            \/ /\ ~split
               /\ public_key' = (IF split THEN -1 ELSE Head(stream[run]).pair)
               /\ \E row : create_send_aes(run, split, GET_PUBLIC_KEY_SEND_AES_1602,
                              IF split THEN -1 ELSE Head(stream[run]).pair, row)
            \/ split
            \/ IoError(run, split, GENERAL_ERROR_1607)
      BY <1>4 DEF send_public_key_request_826
    <3> QED
      BY <3>1
  <2>3. split = FALSE /\ ~IoError(run, split, GENERAL_ERROR_1607)
    BY NoSplit DEF IoError
  <2>4. Reply(run, FALSE, a) /\ public_key' = my_pair /\ aes_key' = aes_key + 1
    BY <1>1, <1>2, <1>3, <2>1, <2>2, <2>3 DEF create_send_aes, Pending
  <2>5. Replied(a)
    BY <1>3, <2>4, ReplyReplied DEF DamageInv
  <2> QED
    BY <1>4, <2>4, <2>5 DEF send_public_key_request_826
<1> HIDE DEF a
<1>6. Wired'
  BY <1>5, ServedWired DEF DamageInv, Wired
<1>7. /\ UNCHANGED <<run, pc, outcome, failures, client_id, my_pair, me_info, priv_key>>
      /\ UNCHANGED <<up, faults>>
  BY <1>5 DEF clientVars, Replied
<1>8. Dialog'
  <2>1. Pending' = <<>> /\ Got' = <<a>>
    BY <1>5, RepliedTold DEF DamageInv
  <2> QED
    BY <1>5, <1>7, <2>1 DEF Dialog, Told, a
<1>9. Standing'
  BY <1>5, <1>7 DEF DamageInv, Standing, KeyMaking, InSession
<1>10. Counted' /\ VerifiedMeansIntact' /\ OrderlyEnd'
  BY <1>5, <1>6, <1>7 DEF DamageInv, Counted, VerifiedMeansIntact, OrderlyEnd, Wired
<1> QED
  BY <1>6, <1>8, <1>9, <1>10 DEF DamageInv

LEMMA ReconnectionAnswered ==
  ASSUME NoiseOnly, TypeOK, DamageInv, pc = "await_827", ServerStep(run), UNCHANGED clientVars
  PROVE  DamageInv'
<1> DEFINE r == Request(RECONNECT_827, client_id)
           a == AesAnswer(VALID_RECONNECT_1605, client_id, aes_key + 1, my_pair)
<1>1. /\ registered \in {"none", "other"} \/ Matched
      /\ client_id = me_info /\ me_info \in {"old", "new"} /\ my_pair = priv_key
  BY DEF DamageInv, Standing
<1>2. Asked(r)
  <2>1. Pending # <<>>
    BY NothingToRead DEF DamageInv
  <2> QED
    BY <2>1 DEF DamageInv, Dialog, Told
<1>3. r.code = RECONNECT_827 /\ r.id = client_id /\ ~r.cut
  BY DEF Request
<1> HIDE DEF r
<1>4. Len(Pending) = 1 /\ Got = <<>> /\ Head(Pending) = r
  BY <1>2 DEF Asked
<1>5. reconnection_request_827(run)
  <2>1. \/ reconnection_request_827(run)
        \/ r.code \in CrcCodes \cup {REGISTERING_825, SEND_PUBLIC_KEY_826, SEND_FILE_828}
    BY <1>3, <1>4, HandlerOf DEF DamageInv
  <2> QED
    BY <1>3, <2>1, CodesDiffer
<1>6. /\ UNCHANGED <<registered, nul_id, public_key, file, disk>>
      /\ \/ Matched /\ aes_key' = aes_key + 1 /\ Replied(a)
         \/ registered = "none" /\ Replied(Answer(INVALID_RECONNECT_1606, client_id))
         \/ registered = "other" /\ Replied(Answer(GENERAL_ERROR_1607, "none"))
  <2>1. IdMatches(run) <=> registered # "none" /\ registered = client_id
    BY <1>3, <1>4 DEF IdMatches, Pending
  <2>2. PICK split \in Splits :
          \/ NameTaken /\ ~IdMatches(run) /\ Error(run, split)
          \/ /\ ~NameTaken \/ split \/ (IdMatches(run) /\ public_key <= 0)
             /\ Reply(run, split, Answer(INVALID_RECONNECT_1606, Head(stream[run]).id))
          \/ /\ IdMatches(run) /\ public_key > 0
             /\ create_send_aes(run, split, VALID_RECONNECT_1605, public_key, table)
          \/ IoError(run, split, GENERAL_ERROR_1607)
    BY <1>5 DEF reconnection_request_827
  <2>3. split = FALSE /\ ~IoError(run, split, GENERAL_ERROR_1607)
    BY NoSplit DEF IoError
  <2>4. TypeOK /\ Wired /\ pc # "off"
    BY DEF DamageInv
  <2>5. CASE Matched
    <3>1. /\ registered # "none" /\ registered = client_id /\ public_key = my_pair
          /\ public_key > 0
      BY <1>1, <2>5 DEF Matched
    <3>2. ~(public_key <= 0)
      BY <3>1 DEF TypeOK, ServerTypeOK
    <3>3. aes_key' = aes_key + 1 /\ Reply(run, FALSE, a)
      BY <2>1, <2>2, <2>3, <3>1, <3>2 DEF NameTaken, create_send_aes
    <3>4. Replied(a)
      BY <1>4, <2>4, <3>3, ReplyReplied
    <3> QED
      BY <1>5, <2>5, <3>3, <3>4 DEF reconnection_request_827
  <2>6. CASE registered = "none"
    <3>1. Reply(run, FALSE, Answer(INVALID_RECONNECT_1606, client_id))
      BY <1>3, <1>4, <2>1, <2>2, <2>3, <2>6 DEF NameTaken, Pending
    <3>2. Replied(Answer(INVALID_RECONNECT_1606, client_id))
      BY <1>4, <2>4, <3>1, ReplyReplied
    <3> QED
      BY <1>5, <2>6, <3>2 DEF reconnection_request_827
  <2>7. CASE registered = "other"
    <3>1. Error(run, FALSE)
      BY <1>1, <2>1, <2>2, <2>3, <2>7 DEF NameTaken
    <3>2. Replied(Answer(GENERAL_ERROR_1607, "none"))
      BY <1>4, <2>4, <3>1, ErrorReplied
    <3> QED
      BY <1>5, <2>7, <3>2 DEF reconnection_request_827
  <2> QED
    BY <1>1, <2>5, <2>6, <2>7
<1> HIDE DEF a
<1>7. Wired'
  BY <1>6, ServedWired DEF DamageInv, Wired
<1>8. /\ UNCHANGED <<run, pc, outcome, failures, client_id, my_pair, me_info, priv_key>>
      /\ UNCHANGED <<up, faults>>
  BY <1>6 DEF clientVars, Replied
<1>9. Matched' <=> Matched
  BY <1>6, <1>8 DEF Matched
<1>10. Dialog'
  <2>1. Wired /\ pc # "off"
    BY DEF DamageInv
  <2>2. CASE Matched /\ aes_key' = aes_key + 1 /\ Replied(a)
    <3>1. Pending' = <<>> /\ Got' = <<a>>
      BY <2>1, <2>2, RepliedTold
    <3> QED
      BY <1>6, <1>8, <1>9, <2>2, <3>1 DEF Dialog, Told, a
  <2>3. CASE registered = "none" /\ Replied(Answer(INVALID_RECONNECT_1606, client_id))
    <3>1. Pending' = <<>> /\ Got' = <<Answer(INVALID_RECONNECT_1606, client_id)>>
      BY <2>1, <2>3, RepliedTold
    <3> QED
      BY <1>6, <1>8, <2>3, <3>1 DEF Dialog, Told
  <2>4. CASE registered = "other" /\ Replied(Answer(GENERAL_ERROR_1607, "none"))
    <3>1. Pending' = <<>> /\ Got' = <<Answer(GENERAL_ERROR_1607, "none")>>
      BY <2>1, <2>4, RepliedTold
    <3> QED
      BY <1>6, <1>8, <2>4, <3>1 DEF Dialog, Told
  <2> QED
    BY <1>6, <2>2, <2>3, <2>4
<1>11. Standing'
  BY <1>6, <1>8, <1>9 DEF DamageInv, Standing, KeyMaking, InSession
<1>12. Counted' /\ VerifiedMeansIntact' /\ OrderlyEnd'
  BY <1>6, <1>7, <1>8 DEF DamageInv, Counted, VerifiedMeansIntact, OrderlyEnd, Wired
<1> QED
  BY <1>7, <1>10, <1>11, <1>12 DEF DamageInv

LEMMA VerdictAnswered ==
  ASSUME NoiseOnly, TypeOK, RestartReadsBack, DamageInv, pc = "await_end", ServerStep(run), UNCHANGED clientVars
  PROVE  DamageInv'
<1> DEFINE r == Request(verdict, client_id)
           a == Answer(THANK_YOU_1604, client_id)
<1>1. /\ Asked(r) /\ file = "unverified"
      /\ verdict \in {VALID_CRC_900, WRONG_CRC_4TH_902}
      /\ registered # "none" /\ registered = client_id
      /\ verdict = VALID_CRC_900 => IntactFile(disk)
      /\ verdict = WRONG_CRC_4TH_902 => Spent >= MaxTries
  <2>1. Pending # <<>>
    BY NothingToRead DEF DamageInv
  <2>2. verdict \in {VALID_CRC_900, WRONG_CRC_4TH_902}
    BY CodesDiffer DEF TypeOK, ClientTypeOK
  <2> QED
    BY <2>1, <2>2 DEF DamageInv, Dialog, Told, Standing, InSession, Matched
<1>2. r.code = verdict /\ r.id = client_id /\ ~r.cut
  BY DEF Request
<1> HIDE DEF r
<1>3. Len(Pending) = 1 /\ Got = <<>> /\ Head(Pending) = r
  BY <1>1 DEF Asked
<1>4. crc_response_900_901_902(run)
  <2>1. \/ crc_response_900_901_902(run)
        \/ r.code \in {REGISTERING_825, RECONNECT_827, SEND_PUBLIC_KEY_826, SEND_FILE_828}
    BY <1>2, <1>3, HandlerOf DEF DamageInv
  <2> QED
    BY <1>1, <1>2, <2>1, CodesDiffer
<1>5. /\ UNCHANGED <<registered, nul_id, public_key, aes_key>> /\ Replied(a)
      /\ verdict = VALID_CRC_900 => file' = "verified" /\ disk' = disk
      /\ verdict = WRONG_CRC_4TH_902 => file' = "absent"
  <2>1. IdMatches(run) /\ Head(stream[run]).code = verdict
    BY <1>1, <1>2, <1>3 DEF IdMatches, Pending
  <2>0. file = "unverified" => disk # <<>>
    <3>1. table.file = file
      BY DEF RestartReadsBack
    <3> QED
      BY <3>1 DEF RestartReadsBack
  <2>2. PICK split \in Splits :
          \/ ~(IdMatches(run) /\ file = "unverified")
          \/ /\ verdict = VALID_CRC_900 /\ file' = "verified"
             /\ Reply(run, split, Answer(THANK_YOU_1604, registered))
             /\ UNCHANGED disk
          \/ verdict = WRONG_CRC_TRY_AGAIN_901
          \/ /\ verdict = WRONG_CRC_4TH_902 /\ file' = "absent"
             /\ Reply(run, split, Answer(THANK_YOU_1604, registered))
          \/ IoError(run, split, GENERAL_ERROR_1607)
    BY <1>4, <2>0, <2>1 DEF crc_response_900_901_902
  <2>3. split = FALSE /\ ~IoError(run, split, GENERAL_ERROR_1607)
    BY NoSplit DEF IoError
  <2>4. /\ Reply(run, FALSE, a)
        /\ verdict = VALID_CRC_900 => file' = "verified" /\ disk' = disk
        /\ verdict = WRONG_CRC_4TH_902 => file' = "absent"
    BY <1>1, <2>1, <2>2, <2>3, CodesDiffer
  <2>5. Replied(a)
    BY <1>3, <2>4, ReplyReplied DEF DamageInv
  <2> QED
    BY <1>4, <2>4, <2>5 DEF crc_response_900_901_902
<1> HIDE DEF a
<1>6. Wired'
  BY <1>5, ServedWired DEF DamageInv, Wired
<1>7. /\ UNCHANGED <<run, pc, outcome, failures, verdict, client_id, my_pair, session_key,
                     me_info, priv_key>>
      /\ UNCHANGED <<up, faults>>
  BY <1>5 DEF clientVars, Replied
<1>8. Dialog'
  <2>1. Pending' = <<>> /\ Got' = <<a>>
    BY <1>5, RepliedTold DEF DamageInv
  <2>2. /\ Told(Answer(THANK_YOU_1604, client_id))'
        /\ file' = IF verdict = VALID_CRC_900 THEN "verified" ELSE "absent"
    BY <1>1, <1>5, <1>7, <2>1 DEF Told, a
  <2>3. (verdict = VALID_CRC_900 => IntactFile(disk))'
    BY <1>1, <1>5, <1>7 DEF IntactFile
  <2> QED
    BY <1>1, <1>7, <2>2, <2>3 DEF Dialog, Spent
<1>9. Standing'
  BY <1>5, <1>7 DEF DamageInv, Standing, KeyMaking, InSession, Matched
<1>10. Counted' /\ OrderlyEnd'
  BY <1>5, <1>6, <1>7 DEF DamageInv, Counted, OrderlyEnd, Wired
<1>11. VerifiedMeansIntact'
  BY <1>1, <1>5, CodesDiffer DEF VerifiedMeansIntact, IntactFile
<1> QED
  BY <1>6, <1>8, <1>9, <1>10, <1>11 DEF DamageInv

-----------------------------------------------------------------------------
(* A packet is written.                                                    *)

LEMMA WrittenPacket ==
  ASSUME TypeOK, NEW k \in Nat, k > 0 => Stored(disk, k),
         NEW r \in Requests, Packet(r, k + 1)
  PROVE  LET D == Written(r, FALSE) IN
         /\ Stored(D, k + 1) /\ D \in Seq(Chunks)
         /\ ~r.damaged => D[k + 1].state = "cipher"
         /\ k > 0 => \A i \in 1..k : D[i] = disk[i]
<1> DEFINE ch == Chunk(r, FALSE)
<1>1. /\ ch \in Chunks /\ ch.packet = k + 1 /\ ch.key = session_key
      /\ ch.state \in {"cipher", "damaged"}
      /\ ~r.damaged => ch.state = "cipher"
  BY DEF Chunk, Chunks, Packet, Requests
<1> HIDE DEF ch
<1>2. disk \in Seq(Chunks) /\ Len(disk) \in Nat
  BY DEF TypeOK, ServerTypeOK
<1>3. CASE k = 0
  <2>1. Written(r, FALSE) = <<ch>>
    BY <1>3 DEF Written, Packet, ch
  <2>2. <<ch>> \in Seq(Chunks) /\ Len(<<ch>>) = 1 /\ <<ch>>[1] = ch
    BY <1>1
  <2>3. k + 1 = 1 /\ 1..1 = {1} /\ ~(k > 0)
    BY <1>3
  <2>4. Stored(<<ch>>, 1)
    BY <1>1, <2>2, <2>3 DEF Stored
  <2> QED
    BY <1>1, <2>1, <2>2, <2>3, <2>4
<1>4. CASE k > 0
  <2>1. r.packet = k + 1 /\ k + 1 # 1
    BY <1>4 DEF Packet
  <2>2. Written(r, FALSE) = Append(disk, ch)
    BY <2>1 DEF Written, ch
  <2>3. Len(disk) = k
    BY <1>4 DEF Stored
  <2>4. /\ Append(disk, ch) \in Seq(Chunks) /\ Len(Append(disk, ch)) = k + 1
        /\ \A i \in 1..k : Append(disk, ch)[i] = disk[i]
        /\ Append(disk, ch)[k + 1] = ch
    BY <1>1, <1>2, <2>3, AppendProperties
  <2>5. \A i \in 1..(k + 1) : i \in 1..k \/ i = k + 1
    OBVIOUS
  <2>6. Stored(Append(disk, ch), k + 1)
    BY <1>1, <1>4, <2>4, <2>5 DEF Stored
  <2> QED
    BY <1>1, <2>2, <2>4, <2>6
<1>5. k = 0 \/ k > 0
  OBVIOUS
<1> QED
  BY <1>3, <1>4, <1>5

(* A whole sending, decrypted, is the file unless a packet was damaged.    *)
LEMMA WholeSending ==
  ASSUME NEW D \in Seq(Chunks), Stored(D, TotalPackets), session_key = aes_key,
         \A i \in 1..TotalPackets : D[i].state = "cipher"
  PROVE  IntactFile(Decrypted(D))
<1> DEFINE P == Decrypted(D)
<1>1. DOMAIN D = 1..TotalPackets /\ TotalPackets \in Nat \ {0} /\ Len(D) = TotalPackets
  BY ProtocolAssumption DEF Stored
<1>2. P = [i \in 1..TotalPackets |->
             [D[i] EXCEPT !.state =
                IF @ = "cipher" /\ D[i].key = aes_key THEN "plain"
                ELSE IF @ = "short" THEN "short" ELSE "damaged"]]
  BY <1>1 DEF Decrypted
<1>3. ASSUME NEW i \in 1..TotalPackets
      PROVE  P[i] = [packet |-> i, key |-> session_key, state |-> "plain"]
  <2>1. /\ D[i] \in Chunks /\ D[i].packet = i /\ D[i].key = session_key
        /\ D[i].state = "cipher"
    BY <1>1, <1>3, ElementOfSeq DEF Stored
  <2>2. P[i] = [D[i] EXCEPT !.state = "plain"]
    BY <1>2, <2>1
  <2> HIDE DEF P
  <2> QED
    BY <2>1, <2>2 DEF Chunks
<1>4. Len(P) = TotalPackets
  BY <1>1, <1>2
<1> HIDE DEF P
<1>5. P[1].key = session_key
  <2>1. 1 \in 1..TotalPackets
    BY <1>1
  <2>2. P[1] = [packet |-> 1, key |-> session_key, state |-> "plain"]
    BY <1>3, <2>1
  <2> QED
    BY <2>2
<1> QED
  BY <1>3, <1>4, <1>5 DEF IntactFile, P

-----------------------------------------------------------------------------
(* The server reads what a sending put into the stream.                    *)

LEMMA SkippedTail ==
  ASSUME TypeOK, Wired, pc # "off", UNCHANGED clientVars, Skipped, Pending # <<>>
  PROVE  /\ Len(Pending) \in Nat /\ Len(Pending') = Len(Pending) - 1 /\ Got' = Got
         /\ \A i \in 1..Len(Pending') : Pending'[i] = Pending[1 + i]
<1>1. Pending \in Seq(Requests)
  BY InUse
<1>2. Pending' = Tail(Pending) /\ Got' = Got
  BY InUse DEF Skipped, Pending, Got, clientVars
<1>3. /\ Len(Tail(Pending)) = Len(Pending) - 1
      /\ \A i \in 1..Len(Tail(Pending)) : Tail(Pending)[i] = Pending[i + 1]
  BY <1>1, HeadTailProperties
<1>4. Len(Pending) \in Nat
  BY <1>1
<1>5. \A i \in 1..Len(Tail(Pending)) : i + 1 = 1 + i
  OBVIOUS
<1> QED
  BY <1>2, <1>3, <1>4, <1>5

LEMMA AnnouncementRead ==
  ASSUME NoiseOnly, TypeOK, DamageInv, pc \in {"send_file", "await_828"},
         NEW q \in Nat, Flight(1, 0, q), ServerStep(run), UNCHANGED clientVars
  PROVE  /\ Skipped /\ UNCHANGED storeVars
         /\ Flight(0, 0, q)'
<1> DEFINE r == Request(WRONG_CRC_TRY_AGAIN_901, client_id)
<1>1. /\ Wired /\ pc # "off" /\ Pending \in Seq(Requests) /\ Len(Pending) = 1 + q /\ Pending[1] = r
      /\ file = "unverified" /\ registered # "none" /\ registered = client_id
  BY InUse DEF DamageInv, Flight, Standing, InSession, Matched
<1>2. r.code = WRONG_CRC_TRY_AGAIN_901 /\ r.id = client_id /\ ~r.cut
  BY DEF Request
<1> HIDE DEF r
<1>3. Pending # <<>> /\ Head(Pending) = r
  BY <1>1
<1>4. crc_response_900_901_902(run)
  <2>1. \/ crc_response_900_901_902(run)
        \/ r.code \in {REGISTERING_825, RECONNECT_827, SEND_PUBLIC_KEY_826, SEND_FILE_828}
    BY <1>1, <1>2, <1>3, HandlerOf
  <2> QED
    BY <1>2, <2>1, CodesDiffer
<1>5. Skipped /\ UNCHANGED storeVars
  <2>1. IdMatches(run) /\ Head(stream[run]).code = WRONG_CRC_TRY_AGAIN_901
    BY <1>1, <1>2, <1>3 DEF IdMatches, Pending
  <2>2. PICK split \in Splits :
          \/ ~(IdMatches(run) /\ file = "unverified")
          \/ WRONG_CRC_TRY_AGAIN_901 = VALID_CRC_900
          \/ NoAnswer(run, split) /\ UNCHANGED <<file, disk, table>>
          \/ WRONG_CRC_TRY_AGAIN_901 = WRONG_CRC_4TH_902
          \/ IoError(run, split, GENERAL_ERROR_1607)
    BY <1>4, <2>1 DEF crc_response_900_901_902
  <2>3. split = FALSE /\ ~IoError(run, split, GENERAL_ERROR_1607)
    BY NoSplit DEF IoError
  <2>4. NoAnswer(run, FALSE) /\ UNCHANGED <<file, disk, table>>
    BY <1>1, <2>1, <2>2, <2>3, CodesDiffer
  <2> QED
    BY <1>4, <2>4, NoAnswerSkipped DEF crc_response_900_901_902, storeVars
<1>6. /\ Len(Pending') = q /\ \A i \in 1..q : Pending'[0 + i] = Pending[1 + i]
  <2>1. /\ Len(Pending) \in Nat /\ Len(Pending') = Len(Pending) - 1
        /\ \A i \in 1..Len(Pending') : Pending'[i] = Pending[1 + i]
    BY <1>1, <1>3, <1>5, SkippedTail
  <2> QED
    BY <1>1, <2>1
<1>7. UNCHANGED <<file, disk, faults, failures, client_id, session_key>>
  BY <1>5 DEF storeVars, Skipped, clientVars
<1>8. Flight(0, 0, q)'
  <2>1. q - 0 = q /\ 0 + (q - 0) = q
    OBVIOUS
  <2>2. \A i \in 1..q : Packet(Pending[1 + i], 0 + i)
    BY <2>1 DEF Flight
  <2>3. \A i \in 1..q : Packet(Pending[0 + i], 0 + i)'
    BY <1>6, <1>7, <2>2 DEF Packet
  <2>4. \/ (Spent > failures)'
        \/ \A i \in 1..q : ~Pending'[0 + i].damaged
    BY <1>6, <1>7, <2>1 DEF Flight, Spent
  <2> QED
    BY <1>6, <2>1, <2>3, <2>4 DEF Flight
<1> QED
  BY <1>5, <1>8

\* The handler of 828, for the next packet of a sending.
LEMMA PacketWritten ==
  ASSUME NoiseOnly, TypeOK, RestartReadsBack, DamageInv, pc \in {"send_file", "await_828"}, Got = <<>>,
         NEW q \in Nat, NEW k \in 0..q, Flight(0, k, q), ServerStep(run)
  PROVE  /\ k < q /\ Pending # <<>> /\ Pending[1] \in Requests /\ Packet(Pending[1], k + 1)
         /\ UNCHANGED <<registered, nul_id, public_key, aes_key>> /\ file' = "unverified"
         /\ \/ /\ k + 1 # TotalPackets
               /\ disk' = Written(Pending[1], FALSE) /\ Skipped
            \/ /\ k + 1 = TotalPackets
               /\ last_packet(run, FALSE, Written(Pending[1], FALSE))
<1>1. /\ Wired /\ pc # "off" /\ Pending \in Seq(Requests) /\ Len(Pending) = q - k
      /\ registered # "none" /\ registered = client_id
  BY InUse DEF DamageInv, Flight, Standing, InSession, Matched
<1>2. Pending # <<>>
  BY <1>1, NothingToRead
<1>3. k < q /\ 1 \in 1..(q - k)
  BY <1>1, <1>2
<1>4. Packet(Pending[1], k + 1)
  <2>1. Packet(Pending[0 + 1], k + 1)
    BY <1>3 DEF Flight
  <2> QED
    BY <2>1
<1>5. Pending[1] \in Requests /\ Head(Pending) = Pending[1]
  BY <1>1, <1>2, <1>3, ElementOfSeq
<1>6. send_file_request_828(run)
  <2>1. ~Pending[1].cut /\ Pending[1].code = SEND_FILE_828
    BY <1>4 DEF Packet
  <2>2. \/ send_file_request_828(run)
        \/ Pending[1].code \in CrcCodes \cup {REGISTERING_825, RECONNECT_827, SEND_PUBLIC_KEY_826}
    BY <1>1, <1>5, <2>1, HandlerOf
  <2> QED
    BY <2>1, <2>2, CodesDiffer
<1>7. IdMatches(run) /\ Head(stream[run]) = Pending[1] /\ Pending[1].packet = k + 1
  BY <1>1, <1>4, <1>5 DEF IdMatches, Packet, Pending
<1>8. PICK split \in Splits :
        \/ ~IdMatches(run)
        \/ Unwelcome(Pending[1])
        \/ /\ file' = Recorded(Pending[1])
           /\ \/ /\ Pending[1].packet # TotalPackets
                 /\ disk' = Written(Pending[1], split)
                 /\ NoAnswer(run, split)
              \/ /\ Pending[1].packet = TotalPackets
                 /\ last_packet(run, split, Written(Pending[1], split))
        \/ split
        \/ IoError(run, split, GENERAL_ERROR_1607)
  BY <1>6, <1>7 DEF send_file_request_828
<1>9. split = FALSE /\ ~IoError(run, split, GENERAL_ERROR_1607)
  BY NoSplit DEF IoError
<1>10. k = 0 \/ k > 0
  OBVIOUS
<1>11. ~Unwelcome(Pending[1])
  <2>1. table.file = file
    BY DEF RestartReadsBack
  <2>2. CASE k = 0
    BY <1>7, <2>1, <2>2 DEF Unwelcome
  <2>3. CASE k > 0
    BY <2>3 DEF Flight, Unwelcome
  <2> QED
    BY <1>10, <2>2, <2>3
<1>12. Recorded(Pending[1]) = "unverified"
  <2>1. CASE k = 0
    BY <1>7, <2>1 DEF Recorded
  <2>2. CASE k > 0
    <3>1. k + 1 # 1
      BY <2>2
    <3> QED
      BY <1>7, <2>2, <3>1 DEF Recorded, Flight
  <2> QED
    BY <1>10, <2>1, <2>2
<1>13. UNCHANGED <<registered, nul_id, public_key, aes_key>>
  BY <1>6 DEF send_file_request_828
<1> QED
  BY <1>2, <1>3, <1>4, <1>5, <1>7, <1>8, <1>9, <1>11, <1>12, <1>13, NoAnswerSkipped

LEMMA PacketStored ==
  ASSUME NoiseOnly, TypeOK, RestartReadsBack, DamageInv, pc \in {"send_file", "await_828"}, Got = <<>>,
         NEW q \in Nat, NEW k \in 0..q, Flight(0, k, q), ServerStep(run), UNCHANGED clientVars,
         k + 1 # TotalPackets
  PROVE  /\ Skipped /\ k + 1 \in 0..q /\ Flight(0, k + 1, q)' /\ Got' = <<>>
         /\ UNCHANGED <<registered, nul_id, public_key, aes_key>> /\ file' = "unverified"
<1> DEFINE D == Written(Pending[1], FALSE)
<1>1. /\ k < q /\ Pending # <<>> /\ Pending[1] \in Requests /\ Packet(Pending[1], k + 1)
      /\ UNCHANGED <<registered, nul_id, public_key, aes_key>> /\ file' = "unverified"
      /\ disk' = D /\ Skipped
  BY PacketWritten
<1>2. k \in Nat /\ k + 1 \in 0..q /\ k + 1 > 0
  BY <1>1
<1>3. k > 0 => file = "unverified" /\ Stored(disk, k)
  BY DEF Flight
<1>4. /\ Stored(D, k + 1) /\ D \in Seq(Chunks)
      /\ ~Pending[1].damaged => D[k + 1].state = "cipher"
      /\ k > 0 => \A i \in 1..k : D[i] = disk[i]
  BY <1>1, <1>2, <1>3, WrittenPacket
<1> HIDE DEF D
<1>5. /\ Len(Pending) \in Nat /\ Len(Pending') = Len(Pending) - 1 /\ Got' = Got
      /\ \A i \in 1..Len(Pending') : Pending'[i] = Pending[1 + i]
  BY <1>1, SkippedTail DEF DamageInv
<1>6. /\ Len(Pending) = q - k
      /\ \A i \in 1..(q - k) : Packet(Pending[0 + i], k + i)
      /\ \/ Spent > failures
         \/ /\ \A i \in 1..(q - k) : ~Pending[0 + i].damaged
            /\ k > 0 => \A i \in 1..k : disk[i].state = "cipher"
  <2>1. 0 + (q - k) = q - k
    BY <1>2
  <2> QED
    BY <2>1 DEF Flight
<1>7. UNCHANGED <<faults, failures, client_id, session_key>>
  BY <1>1 DEF Skipped, clientVars
<1>8. Len(Pending') = 0 + (q - (k + 1)) /\ q - (k + 1) = Len(Pending')
  BY <1>2, <1>5, <1>6
<1>9. ASSUME NEW i \in 1..(q - (k + 1))
      PROVE  /\ 1 + i \in 1..(q - k) /\ 0 + (1 + i) = 1 + i /\ k + (1 + i) = (k + 1) + i
             /\ Pending'[0 + i] = Pending[1 + i]
  BY <1>2, <1>5, <1>8, <1>9
<1>10. \A i \in 1..(q - (k + 1)) : Packet(Pending[0 + i], (k + 1) + i)'
  <2>1. TAKE i \in 1..(q - (k + 1))
  <2>2. Packet(Pending[1 + i], (k + 1) + i)
    BY <1>6, <1>9
  <2> QED
    BY <1>7, <1>9, <2>2 DEF Packet
<1>11. Stored(disk, k + 1)'
  BY <1>1, <1>4, <1>7 DEF Stored
<1>12. \/ Spent' > failures'
       \/ /\ \A i \in 1..(q - (k + 1)) : ~Pending'[0 + i].damaged
          /\ \A i \in 1..(k + 1) : disk'[i].state = "cipher"
  <2>1. CASE Spent > failures
    BY <1>7, <2>1 DEF Spent
  <2>2. CASE /\ \A i \in 1..(q - k) : ~Pending[0 + i].damaged
             /\ k > 0 => \A i \in 1..k : disk[i].state = "cipher"
    <3>1. \A i \in 1..(q - (k + 1)) : ~Pending'[0 + i].damaged
      BY <1>9, <2>2
    <3>2. D[k + 1].state = "cipher"
      <4>1. 1 \in 1..(q - k) /\ 0 + 1 = 1
        BY <1>1, <1>2
      <4> QED
        BY <1>4, <2>2, <4>1
    <3>3. ASSUME NEW i \in 1..(k + 1), i # k + 1
          PROVE  D[i].state = "cipher"
      <4>1. k > 0 /\ i \in 1..k
        BY <1>2, <3>3
      <4> QED
        BY <1>4, <2>2, <4>1
    <3> QED
      BY <1>1, <3>1, <3>2, <3>3
  <2> QED
    BY <1>6, <2>1, <2>2
<1> QED
  <2>1. Flight(0, k + 1, q)'
    <3>1. (Len(Pending) = 0 + (q - (k + 1)))' /\ file' = "unverified" /\ Stored(disk, k + 1)'
      BY <1>1, <1>8, <1>11
    <3>2. (\/ Spent > failures
           \/ /\ \A i \in 1..(q - (k + 1)) : ~Pending[0 + i].damaged
              /\ k + 1 > 0 => \A i \in 1..(k + 1) : disk[i].state = "cipher")'
      BY <1>12
    <3>3. (k + 1 > 0 => file = "unverified" /\ Stored(disk, k + 1))'
      BY <3>1
    <3>4. (\A i \in 1..(q - (k + 1)) : Packet(Pending[0 + i], (k + 1) + i))'
      BY <1>10
    <3>5. 0 # 1
      OBVIOUS
    <3> QED
      BY <3>1, <3>2, <3>3, <3>4, <3>5 DEF Flight
  <2> QED
    BY <1>1, <1>2, <1>5, <2>1

(* The checksum of a whole sending matches, or a packet was damaged.       *)
LEMMA LastPacketAnswered ==
  ASSUME NoiseOnly, TypeOK, RestartReadsBack, DamageInv, pc \in {"send_file", "await_828"}, Got = <<>>,
         NEW k \in 0..TotalPackets, Flight(0, k, TotalPackets), ServerStep(run),
         UNCHANGED clientVars, k + 1 = TotalPackets
  PROVE  /\ UNCHANGED <<registered, nul_id, public_key, aes_key>> /\ file' = "unverified"
         /\ \/ IntactFile(disk') /\ Replied(CrcAnswer(client_id, TRUE))
            \/ /\ Spent > failures
               /\ \/ Replied(CrcAnswer(client_id, FALSE))
                  \/ Replied(Answer(GENERAL_ERROR_1607, "none"))
<1> DEFINE D == Written(Pending[1], FALSE)
<1>1. /\ TotalPackets \in Nat /\ Wired /\ pc # "off" /\ registered = client_id
      /\ session_key = aes_key
  BY ProtocolAssumption DEF DamageInv, Standing, InSession, Matched
<1>2. /\ k < TotalPackets /\ Pending # <<>> /\ Pending[1] \in Requests /\ Packet(Pending[1], k + 1)
      /\ UNCHANGED <<registered, nul_id, public_key, aes_key>> /\ file' = "unverified"
      /\ last_packet(run, FALSE, D)
  BY <1>1, PacketWritten
<1>3. k \in Nat /\ TotalPackets - k = 1 /\ 0 + (TotalPackets - k) = 1
  BY <1>1
<1>4. k > 0 => file = "unverified" /\ Stored(disk, k)
  BY DEF Flight
<1>5. /\ Stored(D, k + 1) /\ D \in Seq(Chunks)
      /\ ~Pending[1].damaged => D[k + 1].state = "cipher"
      /\ k > 0 => \A i \in 1..k : D[i] = disk[i]
  BY <1>2, <1>3, <1>4, WrittenPacket
<1> HIDE DEF D
<1>6. Len(Pending) = 1
  BY <1>3 DEF Flight
<1>7. Spent > failures \/ IntactFile(Decrypted(D))
  <2>1. SUFFICES ASSUME ~(Spent > failures) PROVE IntactFile(Decrypted(D))
    OBVIOUS
  <2>2. /\ \A i \in 1..1 : ~Pending[0 + i].damaged
        /\ k > 0 => \A i \in 1..k : disk[i].state = "cipher"
    BY <1>3, <2>1 DEF Flight
  <2>3. D[k + 1].state = "cipher"
    <3>1. 1 \in 1..1 /\ 0 + 1 = 1
      OBVIOUS
    <3> QED
      BY <1>5, <2>2, <3>1
  <2>4. ASSUME NEW i \in 1..TotalPackets, i # k + 1
        PROVE  D[i].state = "cipher"
    <3>1. k > 0 /\ i \in 1..k
      BY <1>3, <2>4
    <3> QED
      BY <1>5, <2>2, <3>1
  <2> QED
    BY <1>1, <1>5, <2>3, <2>4, WholeSending
<1>8. CASE /\ IntactFile(Decrypted(D)) /\ disk' = Decrypted(D)
           /\ Reply(run, FALSE, CrcAnswer(registered, TRUE))
  <2>1. Replied(CrcAnswer(client_id, TRUE))
    BY <1>1, <1>6, <1>8, ReplyReplied
  <2> QED
    BY <1>2, <1>8, <2>1 DEF IntactFile
<1>9. CASE ~IntactFile(Decrypted(D)) /\ Reply(run, FALSE, CrcAnswer(registered, FALSE))
  <2>1. Replied(CrcAnswer(client_id, FALSE))
    BY <1>1, <1>6, <1>9, ReplyReplied
  <2> QED
    BY <1>2, <1>7, <1>9, <2>1
<1>10. CASE ~IntactFile(Decrypted(D)) /\ Error(run, FALSE)
  <2>1. Replied(Answer(GENERAL_ERROR_1607, "none"))
    BY <1>1, <1>6, <1>10, ErrorReplied
  <2> QED
    BY <1>2, <1>7, <1>10, <2>1
<1> QED
  BY <1>2, <1>8, <1>9, <1>10 DEF last_packet

\* What no step of the server during a sending touches.
LEMMA SendingGoesOn ==
  ASSUME TypeOK, DamageInv, pc \in {"send_file", "await_828"}, UNCHANGED clientVars,
         UNCHANGED <<registered, nul_id, public_key, aes_key>>, file' = "unverified",
         Skipped \/ \E a : Replied(a)
  PROVE  Wired' /\ Standing' /\ Counted' /\ VerifiedMeansIntact' /\ OrderlyEnd'
<1>1. Wired'
  BY ServedWired DEF DamageInv, Wired
<1>2. /\ UNCHANGED <<run, pc, outcome, failures, packet_number, client_id, my_pair,
                     session_key, me_info, priv_key>>
      /\ UNCHANGED <<up, faults>>
  BY DEF clientVars, Replied, Skipped
<1>3. Standing'
  BY <1>2 DEF DamageInv, Standing, KeyMaking, InSession, Matched
<1> QED
  BY <1>1, <1>2, <1>3 DEF DamageInv, Counted, Spent, VerifiedMeansIntact, OrderlyEnd, Wired

LEMMA SendingServed ==
  ASSUME NoiseOnly, TypeOK, RestartReadsBack, DamageInv, pc = "send_file", ServerStep(run), UNCHANGED clientVars
  PROVE  DamageInv'
<1>0. PICK q \in Nat : q = packet_number - 1
  BY ProtocolAssumption DEF TypeOK, ClientTypeOK
<1>1. TotalPackets \in Nat /\ q < TotalPackets
  BY <1>0, ProtocolAssumption DEF TypeOK, ClientTypeOK
<1>2. PICK w \in {0, 1}, k \in 0..q : Flight(w, k, q)
  BY <1>0 DEF DamageInv, Dialog
<1>3. Got = <<>>
  BY DEF DamageInv, Dialog
<1>4. UNCHANGED <<pc, packet_number>>
  BY DEF clientVars
<1>5. q = packet_number' - 1
  BY <1>0, <1>4
<1>6. /\ Skipped /\ UNCHANGED <<registered, nul_id, public_key, aes_key>>
      /\ file' = "unverified" /\ Got' = <<>>
      /\ \E j \in 0..q : Flight(0, j, q)'
  <2>1. CASE w = 1
    <3>1. k = 0 /\ file = "unverified"
      BY <1>2, <2>1 DEF Flight
    <3>2. Skipped /\ UNCHANGED storeVars /\ Flight(0, 0, q)'
      BY <1>1, <1>2, <2>1, <3>1, AnnouncementRead
    <3>3. Got' = <<>>
      BY <1>3, <3>2 DEF Skipped, Got, clientVars
    <3>4. 0 \in 0..q
      BY <1>1
    <3> QED
      BY <3>1, <3>2, <3>3, <3>4 DEF storeVars
  <2>2. CASE w = 0
    <3>1. k < q
      BY <1>1, <1>2, <1>3, <2>2, PacketWritten
    <3>2. k + 1 # TotalPackets
      BY <1>1, <3>1
    <3>3. /\ Skipped /\ k + 1 \in 0..q /\ Flight(0, k + 1, q)' /\ Got' = <<>>
          /\ UNCHANGED <<registered, nul_id, public_key, aes_key>> /\ file' = "unverified"
      BY <1>1, <1>2, <1>3, <2>2, <3>2, PacketStored
    <3> QED
      BY <3>3
  <2> QED
    BY <1>2, <2>1, <2>2
<1>7. Wired' /\ Standing' /\ Counted' /\ VerifiedMeansIntact' /\ OrderlyEnd'
  BY <1>6, SendingGoesOn
<1>8. Dialog'
  <2>1. /\ Got' = <<>>
        /\ \E v \in {0, 1}, j \in 0..q : Flight(v, j, q)'
    BY <1>6
  <2>2. (/\ Got = <<>>
         /\ \E v \in {0, 1}, j \in 0..(packet_number - 1) : Flight(v, j, packet_number - 1))'
    BY <1>5, <2>1
  <2>3. pc' = "send_file"
    BY <1>4
  <2> QED
    BY <2>2, <2>3 DEF Dialog
<1> QED
  BY <1>7, <1>8 DEF DamageInv

LEMMA LastPacketServed ==
  ASSUME NoiseOnly, TypeOK, RestartReadsBack, DamageInv, pc = "await_828", ServerStep(run), UNCHANGED clientVars
  PROVE  DamageInv'
<1> DEFINE q == TotalPackets
<1>1. q \in Nat /\ UNCHANGED pc /\ Wired /\ pc # "off"
  BY ProtocolAssumption DEF clientVars, DamageInv
<1>2. Got = <<>> /\ \E w \in {0, 1}, k \in 0..(q - 1) : Flight(w, k, q)
  <2>1. Pending # <<>>
    BY <1>1, NothingToRead
  <2> QED
    BY <2>1 DEF DamageInv, Dialog, Told
<1>3. PICK w \in {0, 1}, k \in 0..(q - 1) : Flight(w, k, q)
  BY <1>2
<1>4. k \in 0..q /\ k \in Nat
  BY <1>1
<1>5. CASE w = 1 \/ k + 1 # q
  <2>1. /\ Skipped /\ UNCHANGED <<registered, nul_id, public_key, aes_key>>
        /\ file' = "unverified" /\ Got' = <<>>
        /\ \E j \in 0..(q - 1) : Flight(0, j, q)'
    <3>1. CASE w = 1
      <4>1. k = 0 /\ file = "unverified"
        BY <1>3, <3>1 DEF Flight
      <4>2. Skipped /\ UNCHANGED storeVars /\ Flight(0, 0, q)'
        BY <1>1, <1>3, <3>1, <4>1, AnnouncementRead
      <4>3. Got' = <<>>
        BY <1>2, <4>2 DEF Skipped, Got, clientVars
      <4>4. 0 \in 0..(q - 1)
        BY <1>1, <1>3, <4>1
      <4> QED
        BY <4>1, <4>2, <4>3, <4>4 DEF storeVars
    <3>2. CASE w = 0 /\ k + 1 # q
      <4>1. /\ Skipped /\ k + 1 \in 0..q /\ Flight(0, k + 1, q)' /\ Got' = <<>>
            /\ UNCHANGED <<registered, nul_id, public_key, aes_key>> /\ file' = "unverified"
        BY <1>1, <1>2, <1>3, <1>4, <3>2, PacketStored
      <4>2. k + 1 \in 0..(q - 1)
        BY <1>1, <3>2
      <4> QED
        BY <4>1, <4>2
    <3> QED
      BY <1>3, <1>5, <3>1, <3>2
  <2>2. Wired' /\ Standing' /\ Counted' /\ VerifiedMeansIntact' /\ OrderlyEnd'
    BY <2>1, SendingGoesOn
  <2>3. (Got = <<>> /\ \E v \in {0, 1}, j \in 0..(q - 1) : Flight(v, j, q))'
    BY <2>1
  <2>4. Dialog'
    BY <1>1, <2>3 DEF Dialog
  <2> QED
    BY <2>2, <2>4 DEF DamageInv
<1>6. CASE w = 0 /\ k + 1 = q
  <2>1. /\ UNCHANGED <<registered, nul_id, public_key, aes_key>> /\ file' = "unverified"
        /\ \/ IntactFile(disk') /\ Replied(CrcAnswer(client_id, TRUE))
           \/ /\ Spent > failures
              /\ \/ Replied(CrcAnswer(client_id, FALSE))
                 \/ Replied(Answer(GENERAL_ERROR_1607, "none"))
    BY <1>2, <1>3, <1>4, <1>6, LastPacketAnswered
  <2>2. Wired' /\ Standing' /\ Counted' /\ VerifiedMeansIntact' /\ OrderlyEnd'
    BY <2>1, SendingGoesOn
  <2>3. UNCHANGED <<faults, failures, client_id>>
    BY <2>1 DEF Replied, clientVars
  <2>4. Dialog'
    <3>1. CASE IntactFile(disk') /\ Replied(CrcAnswer(client_id, TRUE))
      <4>1. Pending' = <<>> /\ Got' = <<CrcAnswer(client_id, TRUE)>>
        BY <1>1, <3>1, RepliedTold
      <4>2. Told(CrcAnswer(client_id, TRUE))'
        BY <2>3, <4>1 DEF Told
      <4>3. IntactFile(disk)' /\ (file = "unverified")'
        BY <2>1, <3>1 DEF IntactFile
      <4> QED
        BY <1>1, <4>2, <4>3 DEF Dialog
    <3>2. CASE Spent > failures /\ Replied(CrcAnswer(client_id, FALSE))
      <4>1. Pending' = <<>> /\ Got' = <<CrcAnswer(client_id, FALSE)>>
        BY <1>1, <3>2, RepliedTold
      <4>2. Told(CrcAnswer(client_id, FALSE))' /\ (file = "unverified" /\ Spent > failures)'
        BY <2>1, <2>3, <3>2, <4>1 DEF Told, Spent
      <4> QED
        BY <1>1, <4>2 DEF Dialog
    <3>3. CASE Spent > failures /\ Replied(Answer(GENERAL_ERROR_1607, "none"))
      <4>1. Pending' = <<>> /\ Got' = <<Answer(GENERAL_ERROR_1607, "none")>>
        BY <1>1, <3>3, RepliedTold
      <4>2. Told(Answer(GENERAL_ERROR_1607, "none"))' /\ (file = "unverified" /\ Spent > failures)'
        BY <2>1, <2>3, <3>3, <4>1 DEF Told, Spent
      <4> QED
        BY <1>1, <4>2 DEF Dialog
    <3> QED
      BY <2>1, <3>1, <3>2, <3>3
  <2> QED
    BY <2>2, <2>4 DEF DamageInv
<1> QED
  BY <1>3, <1>5, <1>6

\* What a step leaves of the dialog when it has no part in it.
LEMMA DialogKept ==
  ASSUME Dialog, Pending' = Pending, Got' = Got,
         UNCHANGED <<faults, up, registered, nul_id, public_key, aes_key, file, disk>>,
         UNCHANGED <<run, pc, outcome, failures, packet_number, verdict, client_id, my_pair,
                     session_key, me_info, priv_key, last_pair>>
  PROVE  Dialog'
<1>1. \A w, k, q : Flight(w, k, q) => Flight(w, k, q)'
  BY DEF Flight, Packet, Stored, Spent
<1>2. (Matched => Matched') /\ (IntactFile(disk) => IntactFile(disk)') /\ Spent' = Spent
  BY DEF Matched, IntactFile, Spent
<1>3. (pc = "send_file" =>
         /\ Got = <<>>
         /\ \E w \in {0, 1}, k \in 0..(packet_number - 1) : Flight(w, k, packet_number - 1))'
  BY <1>1 DEF Dialog
<1>4. (pc = "await_828" =>
         \/ /\ Got = <<>>
            /\ \E w \in {0, 1}, k \in 0..(TotalPackets - 1) : Flight(w, k, TotalPackets)
         \/ /\ file = "unverified" /\ IntactFile(disk)
            /\ Told(CrcAnswer(client_id, TRUE))
         \/ /\ file = "unverified" /\ Spent > failures
            /\ \/ Told(CrcAnswer(client_id, FALSE))
               \/ Told(Answer(GENERAL_ERROR_1607, "none")))'
  BY <1>1, <1>2 DEF Dialog, Told
<1> QED
  BY <1>2, <1>3, <1>4 DEF Dialog, Ready, Asked, Told

LEMMA ServerKeepsStep ==
  ASSUME NoiseOnly, TypeOK, RestartReadsBack, DamageInv, NEW c \in Conns, ServerStep(c), UNCHANGED clientVars
  PROVE  DamageInv'
<1>1. CASE c = run /\ pc # "off"
  <2>1. Wired /\ ServerStep(run)
    BY <1>1 DEF DamageInv
  <2>2. ~Ready
    BY <1>1, <2>1, NothingToRead DEF Ready
  <2>3. pc \notin {"register", "reconnect", "make_keys", "save_key", "send_key"}
    BY <2>2 DEF DamageInv, Dialog
  <2>4. pc \in {"await_825", "await_826", "await_827", "await_828", "await_end", "send_file"}
    BY <1>1, <2>3 DEF TypeOK, ClientTypeOK, Places, Waiting
  <2> QED
    BY <2>1, <2>4, RegistrationAnswered, PublicKeyAnswered, ReconnectionAnswered,
       SendingServed, LastPacketServed, VerdictAnswered
<1>2. CASE c # run \/ pc = "off"
  <2>1. stream[c] = <<>> /\ link[c] \in {"idle", "closed", "gone"}
    BY <1>2 DEF DamageInv, Wired
  <2>2. EndOfStream(c)
    BY <2>1 DEF ServerStep, ReadGarbage, ReadShort, Readable, ReadReset,
         registration_request_825, reconnection_request_827, send_public_key_request_826,
         send_file_request_828, crc_response_900_901_902
  <2>3. /\ link' = [link EXCEPT ![c] = "gone"] /\ link[c] = "closed"
        /\ UNCHANGED <<stream, answers, faults, serverVars, clientVars>>
    BY <2>2 DEF EndOfStream
  <2>4. Wired'
    <3>1. link \in [Conns -> Links] /\ run \in Nat
      BY DEF TypeOK, ConnectionTypeOK, ClientTypeOK
    <3>2. \A d \in Conns : link'[d] = IF d = c THEN "gone" ELSE link[d]
      BY <2>3, <3>1
    <3>3. pc # "off" => run \in Conns
      BY InUse DEF DamageInv
    <3>4. UNCHANGED <<up, nul_id, run, pc, outcome, stream, answers>>
      BY <2>3 DEF serverVars, storeVars, clientVars
    <3> QED
      BY <1>2, <2>3, <3>2, <3>3, <3>4 DEF DamageInv, Wired
  <2>5. Pending' = Pending /\ Got' = Got
    BY <2>3 DEF Pending, Got, clientVars
  <2>6. /\ UNCHANGED <<faults, up, registered, nul_id, public_key, aes_key, file, disk>>
        /\ UNCHANGED <<run, pc, outcome, failures, packet_number, verdict, client_id, my_pair,
                       session_key, me_info, priv_key, last_pair>>
    BY <2>3 DEF serverVars, storeVars, clientVars
  <2>7. Standing' /\ Counted' /\ VerifiedMeansIntact' /\ OrderlyEnd'
    BY <2>6 DEF DamageInv, Standing, Matched, Counted, Spent, VerifiedMeansIntact, IntactFile,
         OrderlyEnd
  <2>8. Dialog'
    BY <2>5, <2>6, DialogKept DEF DamageInv
  <2> QED
    BY <2>4, <2>7, <2>8 DEF DamageInv
<1> QED
  BY <1>1, <1>2

-----------------------------------------------------------------------------
(* The client talks, listens and leaves.                                   *)

LEMMA TalkWired ==
  ASSUME TypeOK, Wired, pc # "off", pc' # "off", UNCHANGED <<run, outcome, link, serverVars>>,
         NEW s, NEW a, stream' = [stream EXCEPT ![run] = s],
         answers' = [answers EXCEPT ![run] = a]
  PROVE  Wired' /\ Pending' = s /\ Got' = a
<1>1. run \in Conns /\ UNCHANGED <<up, nul_id>>
  BY InUse DEF serverVars, storeVars
<1>2. \A c \in Conns : c # run => stream'[c] = stream[c] /\ answers'[c] = answers[c]
  BY InUse
<1>3. Wired'
  BY <1>1, <1>2 DEF Wired
<1> QED
  BY <1>3, InUse DEF Pending, Got

LEMMA Asks ==
  ASSUME TypeOK, Wired, pc # "off", pc' # "off", UNCHANGED <<run, outcome, answers, serverVars>>,
         Ready, NEW r, SendToServer(r)
  PROVE  Wired' /\ Pending' = <<r>> /\ Got' = <<>> /\ faults' = faults
<1>1. Append(Pending, r) = <<r>>
  BY DEF Ready
<1>2. stream' = [stream EXCEPT ![run] = <<r>>] /\ UNCHANGED <<link, faults>>
  BY <1>1, InUse DEF SendToServer, Pending
<1>3. answers' = [answers EXCEPT ![run] = <<>>]
  BY InUse DEF Ready, Got
<1> QED
  BY <1>2, <1>3, TalkWired

LEMMA Hears ==
  ASSUME NEW a, Told(a)
  PROVE  Received = a /\ Tail(answers[run]) = <<>> /\ Answered
BY DEF Told, Got, Received, Answered

LEMMA Takes ==
  ASSUME TypeOK, Wired, pc # "off", pc' # "off", UNCHANGED <<run, outcome, serverVars>>,
         NEW a, Told(a), TakeAnswer
  PROVE  Wired' /\ Ready' /\ faults' = faults
<1>1. answers' = [answers EXCEPT ![run] = <<>>] /\ UNCHANGED <<link, faults>>
  BY Hears, InUse DEF TakeAnswer
<1>2. stream' = [stream EXCEPT ![run] = <<>>]
  BY InUse DEF Told, Pending, TakeAnswer
<1>3. Wired' /\ Pending' = <<>> /\ Got' = <<>>
  BY <1>1, <1>2, TalkWired
<1> QED
  BY <1>1, <1>3 DEF Ready

\* A run that goes on cannot have ended badly.
LEMMA GoesOn ==
  ASSUME DamageInv, pc' # "off", Wired', UNCHANGED serverVars
  PROVE  VerifiedMeansIntact' /\ OrderlyEnd'
BY DEF DamageInv, VerifiedMeansIntact, IntactFile, OrderlyEnd, Wired, serverVars, storeVars

LEMMA Leaves ==
  ASSUME TypeOK, DamageInv, pc # "off", pc # "save_key", NEW a, Told(a), NEW how,
         Exit(how, FALSE), UNCHANGED serverVars,
         registered \in {"none", "other"} \/ Matched,
         \/ how = "success"
         \/ how \in {"deleted", "too_many_sends"} /\ Spent >= MaxTries
         \/ how = "too_many_tries" /\ registered = "other"
  PROVE  DamageInv'
<1>1. run \in Conns /\ link[run] = "open" /\ link \in [Conns -> Links]
  BY InUse DEF DamageInv, TypeOK, ConnectionTypeOK
<1>2. /\ pc' = "off" /\ outcome' = how /\ link' = [link EXCEPT ![run] = "closed"]
      /\ answers' = [answers EXCEPT ![run] = <<>>] /\ UNCHANGED stream
      /\ UNCHANGED <<run, failures, packet_number, verdict, client_id, my_pair, session_key,
                     me_info, priv_key, faults>>
  BY <1>1, Hears DEF Exit, Leave, keysOfClient, filesOfClient
<1>3. UNCHANGED <<up, registered, nul_id, public_key, aes_key, file, disk>>
  BY DEF serverVars, storeVars
<1>4. Wired'
  <2>1. Pending = <<>>
    BY DEF Told
  <2>2. \A c \in Conns : /\ c # run => link'[c] = link[c] /\ answers'[c] = answers[c]
                         /\ c = run => link'[c] = "closed" /\ answers'[c] = <<>>
    BY <1>1, <1>2, InUse DEF DamageInv
  <2>3. \A c \in Conns : c > run => c # run
    BY DEF TypeOK, ClientTypeOK
  <2> QED
    BY <1>1, <1>2, <1>3, <2>1, <2>2, <2>3 DEF DamageInv, Wired, Pending
<1>5. Standing'
  BY <1>2, <1>3 DEF DamageInv, Standing, Matched, KeyMaking, InSession
<1>6. Dialog' /\ Counted'
  BY <1>2 DEF Dialog, Counted
<1>7. VerifiedMeansIntact'
  BY <1>3 DEF DamageInv, VerifiedMeansIntact, IntactFile
<1>8. OrderlyEnd'
  BY <1>2, <1>3 DEF DamageInv, OrderlyEnd, Spent
<1> QED
  BY <1>4, <1>5, <1>6, <1>7, <1>8 DEF DamageInv

-----------------------------------------------------------------------------
(* The actions of the client.                                              *)

LEMMA KeepsStartRun ==
  ASSUME TypeOK, DamageInv, Start
  PROVE  DamageInv'
<1>1. /\ pc = "off" /\ run \in Nat /\ run + 1 \in Conns /\ link \in [Conns -> Links]
      /\ run' = run + 1 /\ link' = [link EXCEPT ![run + 1] = "open"]
      /\ pc' = IF me_info = "none" THEN "register" ELSE "reconnect"
      /\ outcome' = "running"
      /\ UNCHANGED <<stream, answers, faults, me_info, priv_key, serverVars>>
  BY ConnectionAssumption
     DEF Start, StartRun, filesOfClient, TypeOK, ConnectionTypeOK, ClientTypeOK, Conns
<1>2. UNCHANGED <<up, registered, nul_id, public_key, aes_key, file, disk>>
  BY <1>1 DEF serverVars, storeVars
<1>3. Wired'
  <2>1. \A c \in Conns : /\ c # run + 1 => link'[c] = link[c]
                         /\ c = run + 1 => link'[c] = "open"
    BY <1>1
  <2>2. \A c \in Conns : c > run + 1 => c > run /\ c # run + 1
    BY <1>1 DEF Conns
  <2> QED
    BY <1>1, <1>2, <2>1, <2>2 DEF DamageInv, Wired
<1>4. Standing'
  BY <1>1, <1>2 DEF DamageInv, Standing, Matched, KeyMaking, InSession
<1>5. Ready'
  BY <1>1 DEF DamageInv, Wired, Ready, Pending, Got
<1>6. Dialog' /\ Counted'
  BY <1>1, <1>5 DEF Dialog, Counted
<1> QED
  BY <1>1, <1>3, <1>4, <1>6, GoesOn DEF DamageInv

LEMMA KeepsSendReconnect ==
  ASSUME TypeOK, DamageInv, SendReconnect, UNCHANGED serverVars
  PROVE  DamageInv'
<1>1. /\ pc = "reconnect" /\ me_info # "none" /\ 0 < priv_key
      /\ registered \in {"none", "other"} \/ Matched
  BY DEF SendReconnect, DamageInv, Standing
<1>2. /\ my_pair' = priv_key /\ client_id' = me_info /\ pc' = "await_827"
      /\ SendToServer(Request(RECONNECT_827, me_info))
      /\ UNCHANGED <<run, outcome, answers, me_info, priv_key>>
  BY <1>1 DEF SendReconnect, filesOfClient
<1>3. /\ Wired' /\ Got' = <<>> /\ faults' = faults
      /\ Pending' = <<Request(RECONNECT_827, me_info)>>
  BY <1>1, <1>2, Asks DEF DamageInv, Dialog
<1>4. UNCHANGED <<registered, public_key>>
  BY DEF serverVars, storeVars
<1>5. Standing'
  BY <1>1, <1>2, <1>4 DEF DamageInv, Standing, Matched, KeyMaking, InSession
<1>6. Dialog' /\ Counted'
  BY <1>2, <1>3 DEF Dialog, Counted, Asked
<1> QED
  BY <1>2, <1>3, <1>5, <1>6, GoesOn DEF DamageInv

LEMMA KeepsSendRegistration ==
  ASSUME TypeOK, DamageInv, SendRegistration, UNCHANGED serverVars
  PROVE  DamageInv'
<1>1. /\ pc = "register" /\ pc' = "await_825" /\ registered \in {"none", "other"}
      /\ SendToServer(Request(REGISTERING_825, "none"))
      /\ UNCHANGED <<run, outcome, answers, me_info, priv_key>>
  BY DEF SendRegistration, DamageInv, Standing, filesOfClient
<1>2. /\ Wired' /\ Got' = <<>> /\ faults' = faults
      /\ Pending' = <<Request(REGISTERING_825, "none")>>
  BY <1>1, Asks DEF DamageInv, Dialog
<1>3. UNCHANGED registered
  BY DEF serverVars, storeVars
<1>4. Standing'
  BY <1>1, <1>3 DEF DamageInv, Standing, KeyMaking, InSession
<1>5. Dialog' /\ Counted'
  BY <1>1, <1>2, <1>3 DEF Dialog, Counted, Asked
<1> QED
  BY <1>1, <1>2, <1>4, <1>5, GoesOn DEF DamageInv

LEMMA KeepsSendPublicKey ==
  ASSUME TypeOK, DamageInv, SendPublicKey, UNCHANGED serverVars
  PROVE  DamageInv'
<1>1. /\ pc = "send_key" /\ pc' = "await_826"
      /\ SendToServer(PublicKeyRequest(client_id, my_pair))
      /\ UNCHANGED <<run, outcome, answers, client_id, my_pair, me_info, priv_key>>
  BY DEF SendPublicKey, keysOfClient, filesOfClient
<1>2. /\ Wired' /\ Got' = <<>> /\ faults' = faults
      /\ Pending' = <<PublicKeyRequest(client_id, my_pair)>>
  BY <1>1, Asks DEF DamageInv, Dialog
<1>3. UNCHANGED registered
  BY DEF serverVars, storeVars
<1>4. Standing'
  BY <1>1, <1>3 DEF DamageInv, Standing, KeyMaking, InSession
<1>5. Dialog' /\ Counted'
  BY <1>1, <1>2 DEF Dialog, Counted, Asked
<1> QED
  BY <1>1, <1>2, <1>4, <1>5, GoesOn DEF DamageInv

LEMMA KeepsSaving ==
  ASSUME TypeOK, DamageInv, CreateMeInfo \/ CreatePrivKeyFile, UNCHANGED serverVars
  PROVE  DamageInv'
<1>1. /\ pc \in {"make_keys", "save_key"} /\ Wired /\ Standing /\ Ready
      /\ UNCHANGED <<run, outcome, client_id, connectionVars>>
      /\ \/ /\ pc = "make_keys" /\ pc' = "save_key" /\ my_pair' = last_pair + 1
            /\ me_info' = client_id
         \/ /\ pc = "save_key" /\ pc' = "send_key" /\ priv_key' = my_pair
            /\ UNCHANGED <<my_pair, me_info>>
  BY DEF CreateMeInfo, CreatePrivKeyFile, keysOfClient, DamageInv, Dialog
<1>2. /\ UNCHANGED <<up, registered, nul_id, stream, answers, link, faults>>
      /\ last_pair + 1 > 0
  BY <1>1 DEF serverVars, storeVars, connectionVars, TypeOK, ClientTypeOK
<1>3. Wired'
  BY <1>1, <1>2 DEF Wired
<1>4. Standing'
  BY <1>1, <1>2 DEF Standing, KeyMaking, InSession
<1>5. Dialog' /\ Counted'
  BY <1>1, <1>2 DEF Dialog, Counted, Ready, Pending, Got
<1> QED
  BY <1>1, <1>3, <1>4, <1>5, GoesOn DEF DamageInv

LEMMA AnswerCodesDiffer ==
  /\ VALID_RECONNECT_1605 \notin {GENERAL_ERROR_1607, INVALID_RECONNECT_1606}
  /\ INVALID_RECONNECT_1606 \notin {GENERAL_ERROR_1607, VALID_RECONNECT_1605}
  /\ GENERAL_ERROR_1607 \notin
       {VALID_RECONNECT_1605, INVALID_RECONNECT_1606, REGISTERING_DONE_1600,
        GET_PUBLIC_KEY_SEND_AES_1602, VALID_FILE_AND_CRC_1603, THANK_YOU_1604}
  /\ REGISTERING_DONE_1600 \notin {GENERAL_ERROR_1607, REGISTERING_FAILED_1601}
  /\ REGISTERING_FAILED_1601 # REGISTERING_DONE_1600
  /\ GET_PUBLIC_KEY_SEND_AES_1602 # GENERAL_ERROR_1607
  /\ VALID_FILE_AND_CRC_1603 # GENERAL_ERROR_1607
  /\ THANK_YOU_1604 # GENERAL_ERROR_1607
BY DEF VALID_RECONNECT_1605, INVALID_RECONNECT_1606, GENERAL_ERROR_1607, REGISTERING_DONE_1600,
       REGISTERING_FAILED_1601, GET_PUBLIC_KEY_SEND_AES_1602, VALID_FILE_AND_CRC_1603,
       THANK_YOU_1604

\* The first sending, or one that is repeated after a general error.
LEMMA SendingBegins ==
  ASSUME pc' = "send_file", packet_number' = 1, Ready'
  PROVE  Dialog'
<1>1. Flight(0, 0, 0)'
  <2>1. Len(Pending') = 0 /\ 0 - 0 = 0 /\ 0 + (0 - 0) = 0 /\ 1..0 = {}
    BY DEF Ready
  <2> QED
    BY <2>1 DEF Flight
<1>2. packet_number' - 1 = 0 /\ 0 \in 0..0
  OBVIOUS
<1>3. (/\ Got = <<>>
       /\ \E w \in {0, 1}, k \in 0..(packet_number - 1) : Flight(w, k, packet_number - 1))'
  BY <1>1, <1>2 DEF Ready
<1> QED
  BY <1>3 DEF Dialog

LEMMA KeepsGetAesKey ==
  ASSUME TypeOK, DamageInv, GetAesKey(nul_id), UNCHANGED serverVars, pc # "off",
         pc \in {"await_826", "await_827"}, NEW a, Told(a),
         a.id = client_id, a.pair = my_pair, a.key = aes_key,
         Matched, client_id = registered
  PROVE  DamageInv'
<1>1. Received = a /\ ~nul_id
  BY Hears DEF DamageInv, Wired
<1>2. /\ session_key' = aes_key /\ failures' = 0 /\ packet_number' = 1 /\ pc' = "send_file"
      /\ TakeAnswer /\ UNCHANGED <<run, outcome, client_id, my_pair, me_info, priv_key>>
  BY <1>1 DEF GetAesKey, WrongId, IdChecked, filesOfClient
<1>3. Wired' /\ Ready' /\ faults' = faults
  BY <1>2, Takes DEF DamageInv
<1>4. UNCHANGED <<registered, public_key, aes_key>>
  BY DEF serverVars, storeVars
<1>5. Standing'
  BY <1>2, <1>4 DEF DamageInv, Standing, Matched, KeyMaking, InSession
<1>6. Counted'
  BY <1>2, <1>3, ConnectionAssumption DEF Counted, Spent, TypeOK, ConnectionTypeOK
<1> QED
  BY <1>2, <1>3, <1>5, <1>6, SendingBegins, GoesOn DEF DamageInv

LEMMA KeepsOnReconnectAnswer ==
  ASSUME TypeOK, DamageInv, OnReconnectAnswer(nul_id), UNCHANGED serverVars
  PROVE  DamageInv'
<1>1. /\ pc = "await_827" /\ Got # <<>> /\ client_id = me_info /\ my_pair = priv_key
      /\ registered \in {"none", "other"} \/ Matched
  BY DEF OnReconnectAnswer, Answered, Got, DamageInv, Standing
<1>2. UNCHANGED <<registered, public_key>>
  BY DEF serverVars, storeVars
<1>3. CASE /\ Told(AesAnswer(VALID_RECONNECT_1605, client_id, aes_key, my_pair))
           /\ Matched
  <2> DEFINE a == AesAnswer(VALID_RECONNECT_1605, client_id, aes_key, my_pair)
  <2>1. /\ a.code = VALID_RECONNECT_1605 /\ a.id = client_id /\ a.pair = my_pair
        /\ a.key = aes_key
    BY DEF AesAnswer, Answer
  <2>2. Told(a)
    BY <1>3
  <2> HIDE DEF a
  <2>3. GetAesKey(nul_id)
    BY <2>1, <2>2, Hears, AnswerCodesDiffer DEF OnReconnectAnswer, Unrecognized
  <2> QED
    BY <1>1, <1>3, <2>1, <2>2, <2>3, KeepsGetAesKey DEF Matched
<1>4. CASE Told(Answer(INVALID_RECONNECT_1606, client_id)) /\ registered = "none"
  <2> DEFINE a == Answer(INVALID_RECONNECT_1606, client_id)
  <2>1. a.code = INVALID_RECONNECT_1606
    BY DEF Answer
  <2>2. Told(a)
    BY <1>4
  <2> HIDE DEF a
  <2>3. /\ pc' = "register" /\ TakeAnswer
        /\ UNCHANGED <<run, outcome, me_info, priv_key>>
    BY <2>1, <2>2, Hears, AnswerCodesDiffer
       DEF OnReconnectAnswer, Unrecognized, filesOfClient
  <2>4. Wired' /\ Ready'
    BY <1>1, <2>2, <2>3, Takes DEF DamageInv
  <2>5. Standing'
    BY <1>1, <1>2, <1>4, <2>3 DEF DamageInv, Standing, KeyMaking, InSession
  <2>6. Dialog' /\ Counted'
    BY <2>3, <2>4 DEF Dialog, Counted
  <2> QED
    BY <2>3, <2>4, <2>5, <2>6, GoesOn DEF DamageInv
<1>5. CASE Told(Answer(GENERAL_ERROR_1607, "none")) /\ registered = "other"
  <2> DEFINE a == Answer(GENERAL_ERROR_1607, "none")
  <2>1. a.code = GENERAL_ERROR_1607
    BY DEF Answer
  <2>2. Told(a)
    BY <1>5
  <2> HIDE DEF a
  <2>3. GeneralError("reconnect", "too_many_tries")
    BY <2>1, <2>2, Hears, AnswerCodesDiffer DEF OnReconnectAnswer, Unrecognized
  <2>4. CASE Exit("too_many_tries", FALSE)
    BY <1>1, <1>5, <2>2, <2>4, Leaves
  <2>5. CASE /\ pc' = "reconnect" /\ TakeAnswer
             /\ UNCHANGED <<run, outcome, filesOfClient>>
    <3>1. Wired' /\ Ready'
      BY <1>1, <2>2, <2>5, Takes DEF DamageInv
    <3>2. Standing'
      BY <1>1, <1>2, <1>5, <2>5
         DEF DamageInv, Standing, KeyMaking, InSession, filesOfClient
    <3>3. Dialog' /\ Counted'
      BY <2>5, <3>1 DEF Dialog, Counted
    <3> QED
      BY <2>5, <3>1, <3>2, <3>3, GoesOn DEF DamageInv
  <2> QED
    BY <2>3, <2>4, <2>5 DEF GeneralError
<1> QED
  BY <1>1, <1>3, <1>4, <1>5 DEF DamageInv, Dialog, Asked

LEMMA KeepsOnRegistrationAnswer ==
  ASSUME TypeOK, DamageInv, OnRegistrationAnswer, UNCHANGED serverVars
  PROVE  DamageInv'
<1>1. pc = "await_825" /\ Got # <<>>
  BY DEF OnRegistrationAnswer, Answered, Got
<1>2. UNCHANGED <<registered, public_key>>
  BY DEF serverVars, storeVars
<1>3. CASE Told(Answer(REGISTERING_DONE_1600, "new")) /\ registered = "new"
  <2> DEFINE a == Answer(REGISTERING_DONE_1600, "new")
  <2>1. a.code = REGISTERING_DONE_1600 /\ a.id = "new"
    BY DEF Answer
  <2>2. Told(a)
    BY <1>3
  <2> HIDE DEF a
  <2>3. /\ pc' = "make_keys" /\ TakeAnswer /\ client_id' = "new"
        /\ UNCHANGED <<run, outcome, me_info, priv_key>>
    BY <2>1, <2>2, Hears, AnswerCodesDiffer
       DEF OnRegistrationAnswer, Unrecognized, filesOfClient
  <2>4. Wired' /\ Ready'
    BY <1>1, <2>2, <2>3, Takes DEF DamageInv
  <2>5. Standing'
    BY <1>1, <1>2, <1>3, <2>3 DEF DamageInv, Standing, KeyMaking, InSession
  <2>6. Dialog' /\ Counted'
    BY <2>3, <2>4 DEF Dialog, Counted
  <2> QED
    BY <2>3, <2>4, <2>5, <2>6, GoesOn DEF DamageInv
<1>4. CASE Told(Answer(REGISTERING_FAILED_1601, "none")) /\ registered = "other"
  <2> DEFINE a == Answer(REGISTERING_FAILED_1601, "none")
  <2>1. a.code = REGISTERING_FAILED_1601
    BY DEF Answer
  <2>2. Told(a)
    BY <1>4
  <2> HIDE DEF a
  <2>3. GeneralError("register", "too_many_tries")
    BY <2>1, <2>2, Hears, AnswerCodesDiffer DEF OnRegistrationAnswer, Unrecognized
  <2>4. CASE Exit("too_many_tries", FALSE)
    BY <1>1, <1>4, <2>2, <2>4, Leaves
  <2>5. CASE /\ pc' = "register" /\ TakeAnswer
             /\ UNCHANGED <<run, outcome, filesOfClient>>
    <3>1. Wired' /\ Ready'
      BY <1>1, <2>2, <2>5, Takes DEF DamageInv
    <3>2. Standing'
      BY <1>1, <1>2, <1>4, <2>5
         DEF DamageInv, Standing, KeyMaking, InSession, filesOfClient
    <3>3. Dialog' /\ Counted'
      BY <2>5, <3>1 DEF Dialog, Counted
    <3> QED
      BY <2>5, <3>1, <3>2, <3>3, GoesOn DEF DamageInv
  <2> QED
    BY <2>3, <2>4, <2>5 DEF GeneralError
<1> QED
  BY <1>1, <1>3, <1>4 DEF DamageInv, Dialog, Asked

LEMMA KeepsOnPublicKeyAnswer ==
  ASSUME TypeOK, DamageInv, OnPublicKeyAnswer(nul_id), UNCHANGED serverVars
  PROVE  DamageInv'
<1> DEFINE a == AesAnswer(GET_PUBLIC_KEY_SEND_AES_1602, client_id, aes_key, my_pair)
<1>1. /\ pc = "await_826" /\ Got # <<>>
  BY DEF OnPublicKeyAnswer, Answered, Got
<1>2. Told(a) /\ public_key = my_pair
  BY <1>1 DEF DamageInv, Dialog, Asked
<1>3. /\ a.code = GET_PUBLIC_KEY_SEND_AES_1602 /\ a.id = client_id /\ a.pair = my_pair
      /\ a.key = aes_key
  BY DEF AesAnswer, Answer
<1> HIDE DEF a
<1>4. GetAesKey(nul_id)
  BY <1>2, <1>3, Hears, AnswerCodesDiffer DEF OnPublicKeyAnswer, Unrecognized
<1>5. Matched /\ client_id = registered
  BY <1>1, <1>2 DEF DamageInv, Standing, Matched, KeyMaking
<1> QED
  BY <1>1, <1>2, <1>3, <1>4, <1>5, KeepsGetAesKey

\* One more packet of a sending is on its way.
LEMMA PacketAdded ==
  ASSUME TypeOK, Pending \in Seq(Requests), Spent >= failures,
         NEW w \in {0, 1}, NEW q \in Nat, NEW k \in 0..q, Flight(w, k, q),
         NEW damaged \in BOOLEAN, NEW r \in Requests,
         r = PacketRequest(client_id, q + 1, session_key, damaged),
         Pending' = Append(Pending, r), faults' = IF damaged THEN faults - 1 ELSE faults,
         UNCHANGED <<failures, client_id, session_key, file, disk>>
  PROVE  Flight(w, k, q + 1)'
<1> DEFINE n == w + (q - k)
<1>1. w \in Nat /\ k \in Nat /\ k <= q /\ n \in Nat /\ n + 1 = w + ((q + 1) - k)
  OBVIOUS
<1>2. Len(Pending) = n
  BY DEF Flight
<1>3. /\ Len(Pending') = n + 1 /\ Pending'[n + 1] = r
      /\ \A i \in 1..n : Pending'[i] = Pending[i]
  BY <1>1, <1>2, AppendProperties
<1>4. Packet(r, q + 1) /\ r.damaged = damaged
  BY DEF Packet, PacketRequest, Request
<1>5. ASSUME NEW i \in 1..((q + 1) - k)
      PROVE  \/ /\ i \in 1..(q - k) /\ w + i \in 1..n /\ Pending'[w + i] = Pending[w + i]
             \/ /\ i \notin 1..(q - k) /\ w + i = n + 1 /\ k + i = q + 1
                /\ Pending'[w + i] = r
  <2>1. CASE i \in 1..(q - k)
    <3>1. w + i \in 1..n
      BY <1>1, <2>1
    <3> QED
      BY <1>3, <2>1, <3>1
  <2>2. CASE i \notin 1..(q - k)
    <3>1. i = (q + 1) - k
      BY <1>1, <2>2
    <3>2. w + i = n + 1 /\ k + i = q + 1
      BY <1>1, <3>1
    <3> QED
      BY <1>3, <2>2, <3>2
  <2> QED
    BY <2>1, <2>2
<1>6. w = 1 => Pending'[1] = Pending[1]
  <2>1. w = 1 => 1 \in 1..n
    BY <1>1
  <2> QED
    BY <1>3, <2>1
<1> HIDE DEF n
<1>7. Len(Pending') = w + ((q + 1) - k)
  BY <1>1, <1>3
<1>8. \A i \in 1..((q + 1) - k) : Packet(Pending[w + i], k + i)'
  <2>1. TAKE i \in 1..((q + 1) - k)
  <2>2. CASE i \in 1..(q - k)
    <3>1. Packet(Pending[w + i], k + i)
      BY <2>2 DEF Flight
    <3> QED
      BY <1>5, <2>2, <3>1 DEF Packet
  <2>3. CASE i \notin 1..(q - k)
    BY <1>4, <1>5, <2>3 DEF Packet
  <2> QED
    BY <2>2, <2>3
<1>9. w = 1 => /\ Pending'[1] = Request(WRONG_CRC_TRY_AGAIN_901, client_id')
               /\ k = 0 /\ file' = "unverified"
  BY <1>6 DEF Flight
<1>10. k > 0 => file' = "unverified" /\ Stored(disk, k)'
  BY DEF Flight, Stored
<1>11. \/ Spent' > failures'
       \/ /\ \A i \in 1..((q + 1) - k) : ~Pending'[w + i].damaged
          /\ k > 0 => \A i \in 1..k : disk'[i].state = "cipher"
  <2>1. CASE damaged
    <3>1. faults \in Int /\ MaxFaults \in Int /\ failures \in Int
      BY ConnectionAssumption, ProtocolAssumption DEF TypeOK, ConnectionTypeOK, ClientTypeOK
    <3>2. faults' = faults - 1 /\ failures' = failures
      BY <2>1
    <3>3. Spent' > failures'
      BY <3>1, <3>2 DEF Spent
    <3> QED
      BY <3>3
  <2>2. CASE ~damaged /\ Spent > failures
    BY <2>2 DEF Spent
  <2>3. CASE ~damaged /\ ~(Spent > failures)
    <3>1. /\ \A i \in 1..(q - k) : ~Pending[w + i].damaged
          /\ k > 0 => \A i \in 1..k : disk[i].state = "cipher"
      BY <2>3 DEF Flight
    <3>2. ASSUME NEW i \in 1..((q + 1) - k) PROVE ~Pending'[w + i].damaged
      BY <1>4, <1>5, <2>3, <3>1
    <3> QED
      BY <3>1, <3>2
  <2> QED
    BY <2>1, <2>2, <2>3
<1> QED
  BY <1>7, <1>8, <1>9, <1>10, <1>11 DEF Flight

LEMMA KeepsSendPacket ==
  ASSUME TypeOK, DamageInv, SendPacket, UNCHANGED serverVars
  PROVE  DamageInv'
<1>1. /\ pc = "send_file" /\ Wired /\ Standing /\ Spent >= failures /\ Got = <<>>
      /\ TotalPackets \in Nat /\ packet_number \in 1..TotalPackets
      /\ client_id \in Ids /\ session_key \in Nat
  BY ProtocolAssumption
     DEF SendPacket, DamageInv, Counted, Dialog, TypeOK, ClientTypeOK
<1>2. PICK q \in Nat : q = packet_number - 1
  BY <1>1
<1>3. q + 1 = packet_number /\ q + 1 \in 1..TotalPackets
  BY <1>1, <1>2
<1>4. PICK w \in {0, 1}, k \in 0..q : Flight(w, k, q)
  BY <1>1, <1>2 DEF DamageInv, Dialog
<1>5. PICK damaged \in BOOLEAN :
        /\ damaged => Fault("noise")
        /\ stream' = IF link[run] = "open"
                     THEN [stream EXCEPT ![run] =
                             Append(@, PacketRequest(client_id, packet_number,
                                                     session_key, damaged))]
                     ELSE stream
        /\ faults' = IF damaged THEN faults - 1 ELSE faults
  BY DEF SendPacket
<1>6. PICK r : r = PacketRequest(client_id, q + 1, session_key, damaged)
  OBVIOUS
<1>7. r \in Requests
  BY <1>1, <1>3, <1>6, PacketRequestType
<1>8. /\ UNCHANGED <<run, outcome, failures, client_id, session_key, my_pair, me_info, priv_key,
                     answers, link>>
      /\ IF packet_number < TotalPackets
         THEN packet_number' = packet_number + 1 /\ pc' = "send_file"
         ELSE packet_number' = 1 /\ pc' = "await_828"
  BY <1>1 DEF SendPacket, keysOfClient, filesOfClient
<1>9. stream' = [stream EXCEPT ![run] = Append(Pending, r)]
  BY <1>1, <1>3, <1>5, <1>6, InUse DEF Pending
<1>10. answers' = [answers EXCEPT ![run] = <<>>]
  BY <1>1, <1>8, InUse DEF Got
<1>11. Wired' /\ Pending' = Append(Pending, r) /\ Got' = <<>>
  <2>1. pc' # "off" /\ pc # "off"
    BY <1>1, <1>8
  <2> QED
    BY <1>1, <1>8, <1>9, <1>10, <2>1, TalkWired
<1>12. UNCHANGED <<file, disk, registered, public_key, aes_key>>
  BY DEF serverVars, storeVars
<1>13. Flight(w, k, q + 1)'
  <2>1. Pending \in Seq(Requests)
    BY <1>1, InUse
  <2> QED
    BY <1>1, <1>4, <1>5, <1>6, <1>7, <1>8, <1>11, <1>12, <2>1, PacketAdded
<1>14. Standing'
  BY <1>1, <1>8, <1>12 DEF Standing, Matched, KeyMaking, InSession
<1>15. Counted'
  <2>1. Spent' >= Spent
    BY <1>5, ConnectionAssumption DEF Spent, TypeOK, ConnectionTypeOK
  <2>2. Spent' \in Int /\ Spent \in Int /\ failures \in Int
    BY <1>5, ConnectionAssumption, ProtocolAssumption
       DEF Spent, TypeOK, ConnectionTypeOK, ClientTypeOK
  <2> QED
    BY <1>1, <1>8, <2>1, <2>2 DEF Counted
<1>16. Dialog'
  <2>1. CASE packet_number < TotalPackets
    <3>1. packet_number' - 1 = q + 1 /\ k \in 0..(q + 1)
      BY <1>1, <1>3, <1>8, <2>1
    <3>2. (/\ Got = <<>>
           /\ \E v \in {0, 1}, j \in 0..(packet_number - 1) : Flight(v, j, packet_number - 1))'
      BY <1>4, <1>11, <1>13, <3>1
    <3> QED
      BY <1>8, <2>1, <3>2 DEF Dialog
  <2>2. CASE ~(packet_number < TotalPackets)
    <3>1. q + 1 = TotalPackets /\ k \in 0..(TotalPackets - 1)
      BY <1>1, <1>3, <2>2
    <3>2. (Got = <<>> /\ \E v \in {0, 1}, j \in 0..(TotalPackets - 1) :
                           Flight(v, j, TotalPackets))'
      BY <1>4, <1>11, <1>13, <3>1
    <3> QED
      BY <1>8, <2>2, <3>2 DEF Dialog
  <2> QED
    BY <2>1, <2>2
<1> QED
  BY <1>8, <1>11, <1>14, <1>15, <1>16, GoesOn DEF DamageInv

LEMMA Finishes ==
  ASSUME TypeOK, Wired, pc # "off", pc' # "off", UNCHANGED <<run, outcome, serverVars>>,
         NEW a, Told(a), NEW code, SendFinishRequest(code)
  PROVE  Wired' /\ Pending' = <<Request(code, client_id)>> /\ Got' = <<>> /\ faults' = faults
<1>1. PICK r : r = Request(code, client_id)
  OBVIOUS
<1>2. Append(Pending, r) = <<r>>
  BY DEF Told
<1>3. stream' = [stream EXCEPT ![run] = <<r>>] /\ UNCHANGED <<link, faults>>
  BY <1>1, <1>2, InUse DEF SendFinishRequest, Pending
<1>4. answers' = [answers EXCEPT ![run] = <<>>]
  BY Hears, InUse DEF SendFinishRequest
<1>5. Wired' /\ Pending' = <<r>> /\ Got' = <<>>
  BY <1>3, <1>4, TalkWired
<1> QED
  BY <1>1, <1>3, <1>5

LEMMA CountsAre ==
  ASSUME TypeOK
  PROVE  Spent \in Int /\ failures \in Int /\ MaxTries \in Int
BY ConnectionAssumption, ProtocolAssumption
   DEF Spent, TypeOK, ConnectionTypeOK, ClientTypeOK

\* crc_checking: the verdict is sent, or the file once more.
LEMMA KeepsChecking ==
  ASSUME TypeOK, DamageInv, OnCrcAnswer(nul_id), UNCHANGED serverVars, NEW match \in BOOLEAN,
         Told(CrcAnswer(client_id, match)), file = "unverified",
         match => IntactFile(disk), ~match => Spent > failures
  PROVE  DamageInv'
<1>1. PICK a : a = CrcAnswer(client_id, match)
  OBVIOUS
<1>2. a.code = VALID_FILE_AND_CRC_1603 /\ a.id = client_id /\ a.match = match /\ Told(a)
  BY <1>1 DEF CrcAnswer, Answer
<1>3. PICK code : code = FinishCode(match)
  OBVIOUS
<1>4. Received = a /\ ~nul_id /\ pc = "await_828" /\ packet_number = 1
  BY <1>2, Hears DEF DamageInv, Wired, OnCrcAnswer, Counted
<1>5. /\ SendFinishRequest(code) /\ verdict' = code
      /\ IF code = WRONG_CRC_TRY_AGAIN_901
         THEN failures' = Failed /\ pc' = "send_file"
         ELSE failures' = 0 /\ pc' = "await_end"
      /\ UNCHANGED <<run, outcome, packet_number, client_id, session_key, my_pair,
                     me_info, priv_key>>
  BY <1>2, <1>3, <1>4, AnswerCodesDiffer
     DEF OnCrcAnswer, Unrecognized, WrongId, IdChecked, keysOfClient, filesOfClient
<1>6. /\ Wired' /\ Pending' = <<Request(code, client_id)>> /\ Got' = <<>>
      /\ faults' = faults
  <2>1. pc' # "off"
    BY <1>5
  <2> QED
    BY <1>2, <1>4, <1>5, <2>1, Finishes DEF DamageInv
<1>7. UNCHANGED <<registered, public_key, aes_key, file, disk>>
  BY DEF serverVars, storeVars
<1>8. Standing'
  BY <1>4, <1>5, <1>7 DEF DamageInv, Standing, Matched, KeyMaking, InSession
<1>9. \/ match /\ code = VALID_CRC_900
      \/ ~match /\ Failed = MaxTries /\ code = WRONG_CRC_4TH_902
      \/ ~match /\ code = WRONG_CRC_TRY_AGAIN_901
  BY <1>3 DEF FinishCode
<1>10. Counted' /\ Dialog'
  <2>1. CASE code = WRONG_CRC_TRY_AGAIN_901
    <3>1. ~match /\ failures' = failures + 1 /\ pc' = "send_file" /\ Spent' = Spent
      BY <1>5, <1>6, <1>9, <2>1, CodesDiffer DEF Failed, Spent
    <3>2. Counted'
      BY <3>1, CountsAre DEF Counted
    <3>3. Flight(1, 0, 0)'
      <4>1. Len(Pending') = 1 /\ Pending'[1] = Request(code, client_id)
        BY <1>6
      <4>2. 0 - 0 = 0 /\ 1 + (0 - 0) = 1 /\ 1..0 = {}
        OBVIOUS
      <4> QED
        BY <1>5, <1>7, <2>1, <4>1, <4>2 DEF Flight
    <3>4. packet_number' - 1 = 0 /\ 0 \in 0..0
      BY <1>4, <1>5
    <3>5. (/\ Got = <<>>
           /\ \E w \in {0, 1}, k \in 0..(packet_number - 1) : Flight(w, k, packet_number - 1))'
      BY <1>6, <3>3, <3>4
    <3> QED
      BY <3>1, <3>2, <3>5 DEF Dialog
  <2>2. CASE code # WRONG_CRC_TRY_AGAIN_901
    <3>1. pc' = "await_end" /\ verdict' = code /\ Spent' = Spent
      BY <1>5, <1>6, <2>2 DEF Spent
    <3>2. Asked(Request(verdict, client_id))' /\ file' = "unverified"
      BY <1>5, <1>6, <1>7, <3>1 DEF Asked
    <3>3. code = VALID_CRC_900 => IntactFile(disk)'
      BY <1>7, <1>9, CodesDiffer DEF IntactFile
    <3>4. code = WRONG_CRC_4TH_902 => Spent' >= MaxTries
      <4>1. code = WRONG_CRC_4TH_902 => ~match /\ failures + 1 = MaxTries
        BY <1>9, <2>2, CodesDiffer DEF Failed
      <4> QED
        BY <3>1, <4>1, CountsAre
    <3> QED
      BY <3>1, <3>2, <3>3, <3>4 DEF Dialog, Counted
  <2> QED
    BY <2>1, <2>2
<1>11. pc' # "off"
  BY <1>5
<1> QED
  BY <1>6, <1>8, <1>10, <1>11, GoesOn DEF DamageInv

LEMMA KeepsOnCrcAnswer ==
  ASSUME TypeOK, DamageInv, OnCrcAnswer(nul_id), UNCHANGED serverVars
  PROVE  DamageInv'
<1>1. pc = "await_828" /\ Got # <<>> /\ packet_number = 1
  BY DEF OnCrcAnswer, Answered, Got, DamageInv, Counted
<1>2. CASE /\ file = "unverified" /\ IntactFile(disk)
           /\ Told(CrcAnswer(client_id, TRUE))
  BY <1>2, KeepsChecking
<1>3. CASE /\ file = "unverified" /\ Spent > failures
           /\ Told(CrcAnswer(client_id, FALSE))
  BY <1>3, KeepsChecking
<1>4. CASE /\ file = "unverified" /\ Spent > failures
           /\ Told(Answer(GENERAL_ERROR_1607, "none"))
  <2> DEFINE a == Answer(GENERAL_ERROR_1607, "none")
  <2>1. a.code = GENERAL_ERROR_1607
    BY DEF Answer
  <2>2. Told(a)
    BY <1>4
  <2> HIDE DEF a
  <2>3. GeneralError("send_file", "too_many_sends")
    BY <2>1, <2>2, Hears, AnswerCodesDiffer DEF OnCrcAnswer, Unrecognized
  <2>4. CASE failures + 1 = MaxTries /\ Exit("too_many_sends", FALSE)
    <3>1. Spent >= MaxTries
      BY <1>4, <2>4, CountsAre
    <3>2. Matched
      BY <1>1 DEF DamageInv, Standing, InSession
    <3> QED
      BY <1>1, <2>2, <2>4, <3>1, <3>2, Leaves
  <2>5. CASE /\ failures' = failures + 1 /\ pc' = "send_file" /\ TakeAnswer
             /\ UNCHANGED <<run, outcome, packet_number, keysOfClient, filesOfClient>>
    <3>1. Wired' /\ Ready' /\ faults' = faults
      BY <1>1, <2>2, <2>5, Takes DEF DamageInv
    <3>2. UNCHANGED <<registered, public_key, aes_key>>
      BY DEF serverVars, storeVars
    <3>3. Standing'
      BY <1>1, <2>5, <3>2 DEF DamageInv, Standing, Matched, KeyMaking, InSession,
           keysOfClient, filesOfClient
    <3>4. Counted'
      <4>1. Spent' = Spent
        BY <3>1 DEF Spent
      <4> QED
        BY <1>4, <2>5, <4>1, CountsAre DEF Counted
    <3>5. packet_number' = 1
      BY <1>1, <2>5
    <3>6. Dialog'
      BY <2>5, <3>1, <3>5, SendingBegins
    <3> QED
      BY <2>5, <3>1, <3>3, <3>4, <3>6, GoesOn DEF DamageInv
  <2> QED
    BY <2>3, <2>4, <2>5 DEF GeneralError, Failed
<1> QED
  BY <1>1, <1>2, <1>3, <1>4 DEF DamageInv, Dialog

LEMMA KeepsOnFinalAnswer ==
  ASSUME TypeOK, DamageInv, OnFinalAnswer(nul_id), UNCHANGED serverVars
  PROVE  DamageInv'
<1>1. PICK a : a = Answer(THANK_YOU_1604, client_id)
  OBVIOUS
<1>2. pc = "await_end" /\ Got # <<>> /\ Matched /\ ~nul_id
  BY DEF OnFinalAnswer, Answered, Got, DamageInv, Standing, InSession, Wired
<1>3. Told(a)
  BY <1>1, <1>2 DEF DamageInv, Dialog, Asked
<1>4. a.code = THANK_YOU_1604 /\ a.id = client_id
  BY <1>1 DEF Answer
<1>5. Exit(IF verdict = VALID_CRC_900 THEN "success" ELSE "deleted", FALSE)
  BY <1>2, <1>3, <1>4, Hears, AnswerCodesDiffer
     DEF OnFinalAnswer, Unrecognized, WrongId, IdChecked
<1>6. CASE verdict = VALID_CRC_900
  BY <1>2, <1>3, <1>5, <1>6, Leaves
<1>7. CASE verdict = WRONG_CRC_4TH_902
  <2>1. Exit("deleted", FALSE) /\ Spent >= MaxTries
    BY <1>2, <1>5, <1>7, CodesDiffer DEF DamageInv, Dialog
  <2> QED
    BY <1>2, <1>3, <2>1, Leaves
<1>8. verdict \in FinishCodes
  BY <1>2 DEF TypeOK, ClientTypeOK
<1> QED
  BY <1>6, <1>7, <1>8, CodesDiffer

-----------------------------------------------------------------------------
(* Put together.                                                           *)

LEMMA DamageInitially ==
  ASSUME NoiseOnly
  PROVE  Init => DamageInv
<1> SUFFICES ASSUME Init PROVE DamageInv
  OBVIOUS
<1>2. PICK s \in Situations :
       /\ registered = IF s = "known" THEN "old"
                       ELSE IF s \in {"taken", "usurped"} THEN "other"
                       ELSE "none"
       /\ nul_id \in IF s = "known" THEN NulIds ELSE {FALSE}
       /\ public_key = IF s = "known" THEN 1 ELSE 0
       /\ me_info = IF HasFiles(s) THEN "old" ELSE "none"
       /\ priv_key = IF HasFiles(s) THEN 1 ELSE 0
  BY DEF Init
<1>3. ~nul_id
  <2>1. nul_id \in {FALSE}
    BY <1>2, Zenon DEF NoiseOnly
  <2> QED
    BY <2>1
<1>4. Wired
  BY <1>3 DEF Init, ConnectionInit, Wired
<1>5. Standing
  BY <1>2 DEF Init, Standing, Matched, HasFiles, KeyMaking, InSession
<1>6. Dialog /\ Counted /\ VerifiedMeansIntact /\ OrderlyEnd
  BY DEF Init, Dialog, Counted, VerifiedMeansIntact, OrderlyEnd
<1> QED
  BY <1>4, <1>5, <1>6 DEF DamageInv

LEMMA ClientKeepsStep ==
  ASSUME TypeOK, DamageInv, Client
  PROVE  DamageInv'
<1>1. UNCHANGED serverVars /\ ClientStep(nul_id)
  BY DEF Client
<1>2. ~ReadFails
  BY DEF ReadFails, Waiting, DamageInv, Wired
<1> QED
  BY <1>1, <1>2, KeepsSendReconnect, KeepsOnReconnectAnswer, KeepsSendRegistration,
     KeepsOnRegistrationAnswer, KeepsSaving, KeepsSendPublicKey, KeepsOnPublicKeyAnswer,
     KeepsSendPacket, KeepsOnCrcAnswer, KeepsOnFinalAnswer DEF ClientStep

LEMMA Unmoved ==
  ASSUME DamageInv, UNCHANGED vars
  PROVE  DamageInv'
<1>1. /\ UNCHANGED <<stream, answers, link, faults>>
      /\ UNCHANGED <<faults, up, registered, nul_id, public_key, aes_key, file, disk>>
      /\ UNCHANGED <<run, pc, outcome, failures, packet_number, verdict, client_id, my_pair,
                     session_key, me_info, priv_key, last_pair>>
  BY DEF vars, connectionVars, clientVars, serverVars, storeVars
<1>2. Wired' /\ Standing' /\ Counted' /\ VerifiedMeansIntact' /\ OrderlyEnd'
  BY <1>1 DEF DamageInv, Wired, Standing, Matched, Counted, Spent, VerifiedMeansIntact,
       IntactFile, OrderlyEnd
<1>3. Pending' = Pending /\ Got' = Got
  BY <1>1 DEF Pending, Got
<1>4. Dialog'
  BY <1>1, <1>3, DialogKept DEF DamageInv
<1> QED
  BY <1>2, <1>4 DEF DamageInv

LEMMA DamagePreserved ==
  ASSUME NoiseOnly, TypeOK, RestartReadsBack, DamageInv, [Next]_vars
  PROVE  DamageInv'
<1>1. ~ClientKilled /\ ~ServerRestart
  BY NoSplit DEF ClientKilled, Kill, ServerRestart, Restart, DamageInv, Wired
<1>2. ASSUME NEW c \in Conns, Server(c) PROVE DamageInv'
  BY <1>2, ServerKeepsStep DEF Server
<1>3. CASE Finished \/ UNCHANGED vars
  BY <1>3, Unmoved DEF Finished
<1> QED
  BY <1>1, <1>2, <1>3, KeepsStartRun, ClientKeepsStep DEF Next

LEMMA DamageAlways ==
  ASSUME NoiseOnly
  PROVE  Spec => [](TypeOK /\ RestartReadsBack /\ DamageInv)
<1>1. Init => DamageInv
  BY DamageInitially
<1>2. TypeOK /\ RestartReadsBack /\ DamageInv /\ [Next]_vars => DamageInv'
  BY DamagePreserved
<1>3. Spec => []RestartReadsBack
  BY RestartsReadBack DEF NoiseOnly
<1> QED
  BY <1>1, <1>2, <1>3, TypeCorrect, PTL DEF Spec

-----------------------------------------------------------------------------
(* Requests that wait for an answer.                                       *)

Calling == {i \in 1..Len(Pending) : CallsForAnswer(Pending[i])}

LEMMA NobodyCalls ==
  ASSUME \A i \in 1..Len(Pending) : ~CallsForAnswer(Pending[i])
  PROVE  Cardinality(Calling) = 0
<1>1. Calling = {}
  BY DEF Calling
<1> QED
  BY <1>1, FS_EmptySet

LEMMA OneCalls ==
  ASSUME NEW n \in 1..Len(Pending), CallsForAnswer(Pending[n]),
         \A i \in 1..Len(Pending) : i # n => ~CallsForAnswer(Pending[i])
  PROVE  Cardinality(Calling) = 1
<1>1. Calling = {n}
  BY DEF Calling
<1> QED
  BY <1>1, FS_Singleton

LEMMA AskedCalls ==
  ASSUME NEW r, Asked(r), r.code \notin {SEND_FILE_828, WRONG_CRC_TRY_AGAIN_901}
  PROVE  Cardinality(Calling) + Len(Got) = 1
<1>1. Len(Pending) = 1 /\ Pending[1] = r /\ Len(Got) = 0 /\ 1 \in 1..1 /\ 1..1 = {1}
  BY DEF Asked
<1>2. CallsForAnswer(r)
  BY DEF CallsForAnswer
<1>3. Cardinality(Calling) = 1
  BY <1>1, <1>2, OneCalls
<1> QED
  BY <1>1, <1>3

LEMMA ToldCalls ==
  ASSUME NEW a, Told(a)
  PROVE  Cardinality(Calling) + Len(Got) = 1
<1>1. Len(Pending) = 0 /\ 1..0 = {} /\ Len(Got) = 1
  BY DEF Told
<1>2. Cardinality(Calling) = 0
  BY <1>1, NobodyCalls
<1> QED
  BY <1>1, <1>2

\* Only the last packet of a sending is answered.
LEMMA FlightCalls ==
  ASSUME NEW w \in {0, 1}, NEW q \in Nat, q <= TotalPackets, TotalPackets \in Nat,
         NEW k \in 0..q, Flight(w, k, q)
  PROVE  /\ q < TotalPackets => Cardinality(Calling) = 0
         /\ q = TotalPackets /\ k < q => Cardinality(Calling) = 1
<1> DEFINE n == w + (q - k)
<1>1. Len(Pending) = n /\ n \in Nat
  BY DEF Flight
<1>2. ASSUME NEW i \in 1..n
      PROVE  \/ /\ Pending[i].code = SEND_FILE_828 /\ Pending[i].packet = (k + i) - w
             \/ Pending[i].code = WRONG_CRC_TRY_AGAIN_901 /\ i # n
             \/ Pending[i].code = WRONG_CRC_TRY_AGAIN_901 /\ k = q
  <2>1. CASE w = 1 /\ i = 1
    <3>1. Pending[i].code = WRONG_CRC_TRY_AGAIN_901
      BY <2>1 DEF Flight, Request
    <3>2. i # n \/ k = q
      BY <2>1
    <3> QED
      BY <3>1, <3>2
  <2>2. CASE ~(w = 1 /\ i = 1)
    <3>1. PICK j \in 1..(q - k) : i = w + j
      <4>1. i - w \in 1..(q - k) /\ i = w + (i - w)
        BY <2>2
      <4> QED
        BY <4>1
    <3>2. Packet(Pending[i], k + j)
      BY <3>1 DEF Flight
    <3>3. k + j = (k + i) - w
      BY <3>1
    <3> QED
      BY <3>2, <3>3 DEF Packet
  <2> QED
    BY <2>1, <2>2
<1>3. \A i \in 1..n : Pending[i].code = WRONG_CRC_TRY_AGAIN_901 => ~CallsForAnswer(Pending[i])
  BY DEF CallsForAnswer
<1>4. ASSUME NEW i \in 1..n, (k + i) - w # TotalPackets PROVE ~CallsForAnswer(Pending[i])
  BY <1>2, <1>3, <1>4 DEF CallsForAnswer
<1>5. ASSUME q < TotalPackets PROVE Cardinality(Calling) = 0
  <2>1. \A i \in 1..n : (k + i) - w # TotalPackets
    BY <1>5
  <2> QED
    BY <1>1, <1>4, <2>1, NobodyCalls
<1>6. ASSUME q = TotalPackets, k < q PROVE Cardinality(Calling) = 1
  <2>1. n \in 1..n
    BY <1>6
  <2>2. \A i \in 1..n : i # n => (k + i) - w # TotalPackets
    BY <1>6
  <2>3. (k + n) - w = TotalPackets
    BY <1>6
  <2>4. Pending[n].code = SEND_FILE_828 /\ Pending[n].packet = TotalPackets
    BY <1>2, <1>6, <2>1, <2>3
  <2>5. CallsForAnswer(Pending[n])
    BY <2>4 DEF CallsForAnswer, SEND_FILE_828, WRONG_CRC_TRY_AGAIN_901
  <2> HIDE DEF n
  <2> QED
    BY <1>1, <1>4, <2>1, <2>2, <2>5, OneCalls
<1> QED
  BY <1>5, <1>6

LEMMA InStep ==
  ASSUME TypeOK, DamageInv
  PROVE  Lockstep
<1>1. ASSUME NEW c \in Conns, link[c] = "open"
      PROVE  Outstanding(c) = IF c = run /\ pc \in Waiting THEN 1 ELSE 0
  <2>1. c = run /\ pc # "off"
    BY <1>1 DEF DamageInv, Wired
  <2>2. Outstanding(c) = Cardinality(Calling) + Len(Got)
    BY <2>1 DEF Outstanding, Calling, Pending, Got
  <2>3. TotalPackets \in Nat
    BY ProtocolAssumption
  <2>4. CASE pc \in {"register", "reconnect", "make_keys", "save_key", "send_key"}
    <3>1. Pending = <<>> /\ Len(Got) = 0
      BY <2>4 DEF DamageInv, Dialog, Ready
    <3>2. Len(Pending) = 0 /\ 1..0 = {}
      BY <3>1
    <3>3. Cardinality(Calling) = 0
      BY <3>2, NobodyCalls
    <3> QED
      BY <2>2, <2>4, <3>1, <3>3 DEF Waiting
  <2>5. CASE pc = "send_file"
    <3>1. PICK q \in Nat : q = packet_number - 1 /\ q < TotalPackets /\ q <= TotalPackets
      BY <2>3 DEF TypeOK, ClientTypeOK
    <3>2. PICK w \in {0, 1}, k \in 0..q : Flight(w, k, q)
      BY <2>5, <3>1 DEF DamageInv, Dialog
    <3>3. Cardinality(Calling) = 0
      BY <2>3, <3>1, <3>2, FlightCalls
    <3>4. Len(Got) = 0
      BY <2>5 DEF DamageInv, Dialog
    <3> QED
      BY <2>2, <2>5, <3>3, <3>4 DEF Waiting
  <2>6. CASE pc \in Waiting
    <3>1. Cardinality(Calling) + Len(Got) = 1
      <4>1. CASE pc = "await_828" /\ Got = <<>>
        <5>1. PICK w \in {0, 1}, k \in 0..(TotalPackets - 1) : Flight(w, k, TotalPackets)
          BY <4>1 DEF DamageInv, Dialog, Told
        <5>2. k \in 0..TotalPackets /\ k < TotalPackets /\ TotalPackets <= TotalPackets
          BY <2>3
        <5>3. Cardinality(Calling) = 1
          BY <2>3, <5>1, <5>2, FlightCalls
        <5>4. Len(Got) = 0
          BY <4>1
        <5> QED
          BY <5>3, <5>4
      <4>2. CASE \E a : Told(a)
        BY <4>2, ToldCalls
      <4>3. CASE pc = "await_825" /\ Asked(Request(REGISTERING_825, "none"))
        <5>1. Request(REGISTERING_825, "none").code = REGISTERING_825
          BY DEF Request
        <5> QED
          BY <4>3, <5>1, AskedCalls DEF REGISTERING_825, SEND_FILE_828, WRONG_CRC_TRY_AGAIN_901
      <4>4. CASE pc = "await_826" /\ Asked(PublicKeyRequest(client_id, my_pair))
        <5>1. PublicKeyRequest(client_id, my_pair).code = SEND_PUBLIC_KEY_826
          BY DEF PublicKeyRequest, Request
        <5> QED
          BY <4>4, <5>1, AskedCalls
             DEF SEND_PUBLIC_KEY_826, SEND_FILE_828, WRONG_CRC_TRY_AGAIN_901
      <4>5. CASE pc = "await_827" /\ Asked(Request(RECONNECT_827, client_id))
        <5>1. Request(RECONNECT_827, client_id).code = RECONNECT_827
          BY DEF Request
        <5> QED
          BY <4>5, <5>1, AskedCalls DEF RECONNECT_827, SEND_FILE_828, WRONG_CRC_TRY_AGAIN_901
      <4>6. CASE pc = "await_end" /\ Asked(Request(verdict, client_id))
        <5>1. Request(verdict, client_id).code = verdict /\ verdict \in FinishCodes
          BY <4>6 DEF Request, TypeOK, ClientTypeOK
        <5> QED
          BY <4>6, <5>1, AskedCalls DEF FinishCodes, VALID_CRC_900, WRONG_CRC_4TH_902,
               SEND_FILE_828, WRONG_CRC_TRY_AGAIN_901
      <4> QED
        <5>1. Dialog
          BY DEF DamageInv
        <5> QED
          BY <2>6, <4>1, <4>2, <4>3, <4>4, <4>5, <4>6, <5>1 DEF Dialog, Waiting
    <3> QED
      BY <2>1, <2>2, <2>6, <3>1
  <2> QED
    BY <2>1, <2>4, <2>5, <2>6 DEF TypeOK, ClientTypeOK, Places, Waiting
<1> QED
  BY <1>1 DEF Lockstep

-----------------------------------------------------------------------------
(* However often packets are damaged and sent again, only a file that is   *)
(* whole and decrypted is marked valid_crc.                                *)
THEOREM VerifiedFilesAreIntact ==
  ASSUME NoiseOnly
  PROVE  Spec => []VerifiedMeansIntact
<1>1. DamageInv => VerifiedMeansIntact
  BY DEF DamageInv
<1> QED
  BY <1>1, DamageAlways, PTL

(* While a file is being sent client and server hold the same AES key,     *)
(* over registrations, reconnections and repeated runs.                    *)
THEOREM KeysAgree ==
  ASSUME NoiseOnly
  PROVE  Spec => []KeyAgreement
<1>1. DamageInv => KeyAgreement
  BY DEF DamageInv, Standing, InSession, KeyAgreement
<1> QED
  BY <1>1, DamageAlways, PTL

(* Exactly one request or answer is outstanding while the client blocks in *)
(* get_header_from_server, and none otherwise: no answer is taken for the  *)
(* answer to another request, repeated sendings included.                  *)
THEOREM ClientAndServerInStep ==
  ASSUME NoiseOnly
  PROVE  Spec => []Lockstep
<1>1. TypeOK /\ DamageInv => Lockstep
  BY InStep
<1> QED
  BY <1>1, DamageAlways, PTL

(* No run ends badly but for MAX_TRIES damaged sendings or for a name that *)
(* belongs to somebody else, and the server never exits.                   *)
THEOREM RunsEndInOrder ==
  ASSUME NoiseOnly
  PROVE  Spec => []OrderlyEnd
<1>1. DamageInv => OrderlyEnd
  BY DEF DamageInv
<1> QED
  BY <1>1, DamageAlways, PTL

-----------------------------------------------------------------------------
(* The verdict of every run. The file cannot come to the disk without its  *)
(* record, since the packets come in order.                                *)

Vacant == file = "absent" => disk = <<>>

\* The part of the verdict that concerns the list.
ListAgreement ==
  /\ outcome = "success" => file = "verified"
  /\ outcome = "deleted" => file = "absent"

Concluded == ListAgreement /\ Vacant

LEMMA OtherHandlers ==
  ASSUME NoiseOnly, Vacant, ServerStep(run), ~send_file_request_828(run)
  PROVE  Vacant'
<1>1. CASE crc_response_900_901_902(run)
  <2>1. PICK split \in Splits :
          \/ UNCHANGED <<file, disk>>
          \/ file' = "verified"
          \/ disk' = Removed
          \/ IoError(run, split, GENERAL_ERROR_1607)
    BY <1>1 DEF crc_response_900_901_902
  <2>2. ~IoError(run, split, GENERAL_ERROR_1607)
    BY NoSplit DEF IoError
  <2> QED
    BY <2>1, <2>2 DEF Vacant, Removed
<1>2. CASE ~crc_response_900_901_902(run)
  <2>1. UNCHANGED <<file, disk>>
    BY <1>2 DEF ServerStep, ReadGarbage, ReadShort, EndOfStream, ReadReset, serverVars, storeVars,
         registration_request_825, reconnection_request_827, send_public_key_request_826
  <2> QED
    BY <2>1 DEF Vacant
<1> QED
  BY <1>1, <1>2

LEMMA PacketVacant ==
  ASSUME NoiseOnly, TypeOK, RestartReadsBack, DamageInv, Vacant, pc # "off", send_file_request_828(run),
         UNCHANGED clientVars
  PROVE  Vacant'
<1>1. ServerStep(run) /\ Pending # <<>> /\ Head(Pending).code = SEND_FILE_828
  BY CodesDiffer DEF ServerStep, send_file_request_828, Readable, Pending
<1>2. \A r : Asked(r) => Head(Pending) = r
  BY DEF Asked
<1>3. pc \in {"send_file", "await_828"}
  <2>1. pc \notin {"register", "reconnect", "make_keys", "save_key", "send_key"}
    BY <1>1 DEF DamageInv, Dialog, Ready
  <2>2. pc \notin {"await_825", "await_826", "await_827"}
    BY <1>1, <1>2, CodesDiffer DEF DamageInv, Dialog, Told, Request, PublicKeyRequest
  <2>3. pc # "await_end"
    <3>1. pc = "await_end" => verdict \in FinishCodes
      BY DEF TypeOK, ClientTypeOK
    <3> QED
      BY <1>1, <1>2, <3>1, CodesDiffer DEF DamageInv, Dialog, Told, Request
  <2> QED
    BY <2>1, <2>2, <2>3 DEF TypeOK, ClientTypeOK, Places, Waiting
<1>4. PICK w \in {0, 1}, q \in Nat, k \in Nat : k \in 0..q /\ Flight(w, k, q) /\ Got = <<>>
  <2>1. CASE pc = "send_file"
    <3>1. packet_number - 1 \in Nat
      BY DEF TypeOK, ClientTypeOK
    <3>2. PICK w \in {0, 1}, k \in 0..(packet_number - 1) : Flight(w, k, packet_number - 1)
      BY <2>1 DEF DamageInv, Dialog
    <3> QED
      BY <2>1, <3>1, <3>2 DEF DamageInv, Dialog
  <2>2. CASE pc = "await_828"
    <3>1. TotalPackets \in Nat
      BY ProtocolAssumption
    <3>2. Got = <<>> /\ \E w \in {0, 1}, k \in 0..(TotalPackets - 1) : Flight(w, k, TotalPackets)
      BY <1>1, <2>2 DEF DamageInv, Dialog, Told
    <3>3. 0..(TotalPackets - 1) \subseteq 0..TotalPackets
      BY <3>1
    <3> QED
      BY <3>1, <3>2, <3>3
  <2> QED
    BY <1>3, <2>1, <2>2
<1>5. CASE w = 1
  <2>1. Flight(1, 0, q)
    BY <1>4, <1>5 DEF Flight
  <2>2. UNCHANGED storeVars
    BY <1>1, <1>3, <2>1, AnnouncementRead
  <2> QED
    BY <2>2 DEF storeVars, Vacant
<1>6. CASE w = 0
  <2>1. file' = "unverified"
    BY <1>1, <1>3, <1>4, <1>6, PacketWritten
  <2> QED
    BY <2>1 DEF Vacant
<1> QED
  BY <1>4, <1>5, <1>6

LEMMA ServerConcludes ==
  ASSUME NoiseOnly, TypeOK, RestartReadsBack, DamageInv, Concluded, NEW c \in Conns, ServerStep(c),
         UNCHANGED clientVars
  PROVE  Concluded'
<1>1. CASE c = run /\ pc # "off"
  <2>1. outcome' = "running"
    BY <1>1 DEF DamageInv, Wired, clientVars
  <2>2. Vacant'
    BY <1>1, OtherHandlers, PacketVacant DEF Concluded
  <2> QED
    BY <2>1, <2>2 DEF Concluded, ListAgreement
<1>2. CASE c # run \/ pc = "off"
  <2>1. stream[c] = <<>> /\ link[c] \in {"idle", "closed", "gone"}
    BY <1>2 DEF DamageInv, Wired
  <2>2. UNCHANGED serverVars
    BY <2>1 DEF ServerStep, ReadGarbage, ReadShort, Readable, ReadReset, EndOfStream,
         registration_request_825, reconnection_request_827, send_public_key_request_826,
         send_file_request_828, crc_response_900_901_902
  <2> QED
    BY <2>2 DEF Concluded, ListAgreement, Vacant, serverVars, storeVars, clientVars
<1> QED
  BY <1>1, <1>2

LEMMA ClientConcludes ==
  ASSUME NoiseOnly, TypeOK, DamageInv, Concluded, ClientStep(nul_id), UNCHANGED serverVars
  PROVE  Concluded'
<1>1. UNCHANGED <<file, disk>>
  BY DEF serverVars, storeVars
<1>2. outcome' \in {"success", "deleted"} =>
        pc = "await_end" /\ outcome' = IF verdict = VALID_CRC_900 THEN "success" ELSE "deleted"
  <2>1. pc # "off" /\ outcome = "running"
    BY DEF DamageInv, Wired, Waiting, ClientStep, SendReconnect, OnReconnectAnswer,
         SendRegistration, OnRegistrationAnswer, CreateMeInfo, CreatePrivKeyFile, SendPublicKey,
         OnPublicKeyAnswer, SendPacket, OnCrcAnswer, OnFinalAnswer, ReadFails
  <2>2. ASSUME NEW again, NEW how, GeneralError(again, how)
        PROVE  outcome' \in {"running", how}
    BY <2>1, <2>2 DEF GeneralError, Exit, Leave
  <2>3. ASSUME NEW nul, GetAesKey(nul) \/ WrongId(nul)
        PROVE  outcome' \in {"running", "wrong_information", "cannot_decrypt"}
    BY <2>1, <2>3 DEF GetAesKey, WrongId, Exit, Leave
  <2>4. ASSUME NEW codes, Unrecognized(codes)
        PROVE  outcome' = "unrecognized"
    BY <2>4 DEF Unrecognized, Exit, Leave
  <2>5. CASE OnFinalAnswer(nul_id)
    <3>1. CASE Exit("too_many_tries", FALSE) \/ UNCHANGED outcome
      BY <2>1, <3>1 DEF Exit, Leave
    <3>2. CASE Exit(IF verdict = VALID_CRC_900 THEN "success" ELSE "deleted", FALSE)
      BY <2>5, <3>2 DEF OnFinalAnswer, Exit, Leave
    <3> QED
      BY <2>3, <2>4, <2>5, <3>1, <3>2 DEF OnFinalAnswer
  <2>6. CASE SendReconnect \/ ReadFails
    BY <2>1, <2>6 DEF SendReconnect, ReadFails, Leave
  <2>7. CASE OnReconnectAnswer(nul_id) \/ OnRegistrationAnswer \/ OnPublicKeyAnswer(nul_id)
    BY <2>1, <2>2, <2>3, <2>4, <2>7
       DEF OnReconnectAnswer, OnRegistrationAnswer, OnPublicKeyAnswer
  <2>8. CASE OnCrcAnswer(nul_id)
    BY <2>1, <2>2, <2>3, <2>4, <2>8 DEF OnCrcAnswer
  <2>9. CASE SendRegistration \/ CreateMeInfo \/ CreatePrivKeyFile \/ SendPublicKey \/ SendPacket
    BY <2>1, <2>9 DEF SendRegistration, CreateMeInfo, CreatePrivKeyFile, SendPublicKey, SendPacket
  <2> QED
    BY <2>5, <2>6, <2>7, <2>8, <2>9 DEF ClientStep
<1>3. ASSUME outcome' \in {"success", "deleted"}
      PROVE  file = IF verdict = VALID_CRC_900 THEN "verified" ELSE "absent"
  <2>1. OnFinalAnswer(nul_id)
    BY <1>2, <1>3 DEF Waiting, ClientStep, SendReconnect, OnReconnectAnswer, SendRegistration,
         OnRegistrationAnswer, CreateMeInfo, CreatePrivKeyFile, SendPublicKey,
         OnPublicKeyAnswer, SendPacket, OnCrcAnswer, ReadFails, DamageInv, Wired
  <2>2. Got # <<>>
    BY <2>1 DEF OnFinalAnswer, Answered, Got
  <2> QED
    BY <1>2, <1>3, <2>2 DEF DamageInv, Dialog, Asked
<1> QED
  BY <1>1, <1>2, <1>3 DEF Concluded, ListAgreement, Vacant

LEMMA ConcludedPreserved ==
  ASSUME NoiseOnly, TypeOK, RestartReadsBack, DamageInv, Concluded, [Next]_vars
  PROVE  Concluded'
<1>1. ~ClientKilled /\ ~ServerRestart
  BY NoSplit DEF ClientKilled, Kill, ServerRestart, Restart, DamageInv, Wired
<1>2. CASE Start
  BY <1>2 DEF Start, StartRun, serverVars, storeVars, Concluded, ListAgreement, Vacant
<1>3. CASE Client
  BY <1>3, ClientConcludes DEF Client
<1>4. CASE \E c \in Conns : Server(c)
  BY <1>4, ServerConcludes DEF Server
<1>5. CASE UNCHANGED vars
  BY <1>5 DEF vars, clientVars, serverVars, storeVars, Concluded, ListAgreement, Vacant
<1> QED
  BY <1>1, <1>2, <1>3, <1>4, <1>5 DEF Next, Finished

(* What the_end reports over a network that damages packets is what the    *)
(* server recorded, after 902 too, over any number of runs.                *)
THEOREM VerdictsAgreeOverDamagedPackets ==
  ASSUME NoiseOnly
  PROVE  Spec => []VerdictAgreement
<1>1. Init => Concluded
  BY DEF Init, Concluded, ListAgreement, Vacant
<1>2. TypeOK /\ RestartReadsBack /\ DamageInv /\ Concluded /\ [Next]_vars => Concluded'
  BY ConcludedPreserved
<1>3. RestartReadsBack /\ Concluded => VerdictAgreement
  <2>1. RestartReadsBack => table.file = file
    BY DEF RestartReadsBack
  <2> QED
    BY <2>1 DEF Concluded, ListAgreement, Vacant, VerdictAgreement
<1> QED
  BY <1>1, <1>2, <1>3, DamageAlways, PTL DEF Spec

-----------------------------------------------------------------------------
(* Storage that fails: whichever call of a handler to the file system or   *)
(* to the database fails, for a file of one packet. Connections may be     *)
(* reset here, and the server exit and start again: a client whose         *)
(* identifier holds a zero byte leaves an answer unread.                   *)

StorageOnly == FaultKinds \subseteq {"io"} /\ TotalPackets = 1

\* The request whose answer the client waits for.
Due ==
  CASE pc = "await_825" -> Request(REGISTERING_825, "none")
    [] pc = "await_826" -> PublicKeyRequest(client_id, my_pair)
    [] pc = "await_827" -> Request(RECONNECT_827, client_id)
    [] pc = "await_828" -> PacketRequest(client_id, 1, session_key, FALSE)
    [] OTHER -> Request(VALID_CRC_900, client_id)

(* Only the current run has a connection in use, and only while the server *)
(* runs.                                                                   *)
Apart ==
  /\ up \/ \A c \in Conns : link[c] # "open"
  /\ \A c \in Conns : c > run => link[c] = "idle"
  /\ \A c \in Conns : c # run \/ pc = "off" => answers[c] = <<>> /\ link[c] # "open"
  /\ \A c \in Conns : c # run \/ link[c] # "open" => stream[c] = <<>>

(* On it client and server take turns.                                     *)
Turns ==
  pc # "off" /\ link[run] = "open" =>
    \/ pc \notin Waiting /\ Ready
    \/ pc \in Waiting /\ Asked(Due)
    \/ pc \in Waiting /\ Pending = <<>> /\ Len(Got) = 1

\* The file is marked valid, and a restart will not change that.
Marked == file = "verified" /\ table.file = "verified"

(* What an unread answer says is so, the key as long as the connection     *)
(* lasts: a server that starts again may know an older one.                *)
Credible(a) ==
  /\ a.code \in {GET_PUBLIC_KEY_SEND_AES_1602, VALID_RECONNECT_1605} /\ link[run] = "open"
       => a.key = aes_key
  /\ a.code = VALID_FILE_AND_CRC_1603 => a.match /\ IntactFile(disk)
  /\ a.code = THANK_YOU_1604 => Marked

(* What the client has concluded from the answers is so.                   *)
Founded ==
  /\ pc # "off" => \A i \in 1..Len(Got) : Credible(Got[i])
  /\ pc \in {"send_file", "await_828"} /\ link[run] = "open" => session_key = aes_key
  /\ pc = "await_end" => verdict = VALID_CRC_900 /\ IntactFile(disk)
  /\ outcome = "success" => pc = "off" /\ Marked /\ IntactFile(disk)
  /\ outcome # "deleted"

StorageInv == Apart /\ Turns /\ Founded

-----------------------------------------------------------------------------
(* One answer to each request.                                             *)

LEMMA OnlyIo ==
  ASSUME StorageOnly
  PROVE  /\ Splits = {FALSE} /\ "split" \notin FaultKinds
         /\ ~Fault("split") /\ ~Fault("noise") /\ ~Fault("kill")
BY DEF StorageOnly, Splits, Fault

\* A request has arrived over the current connection, and nothing else is
\* under way.
Served ==
  /\ pc \in Waiting /\ link[run] = "open" /\ run \in Conns
  /\ Asked(Due)

\* It is answered with a, and nothing is left of it.
Once(a) ==
  /\ stream' = [stream EXCEPT ![run] = <<>>]
  /\ answers' = [answers EXCEPT ![run] = <<a>>]
  /\ UNCHANGED <<up, link>>

LEMMA OnceSent ==
  ASSUME Served, NEW a, Send(run, <<>>, a)
  PROVE  Once(a)
<1>1. Append(Got, a) = <<a>>
  BY DEF Served, Asked
<1> QED
  BY <1>1 DEF Send, Got, Once, Served

LEMMA NothingLeft ==
  ASSUME Served
  PROVE  Rest(run, FALSE) = <<>> /\ Head(stream[run]) = Due
BY DEF Served, Asked, Rest, Pending

LEMMA OnceReplied ==
  ASSUME Served, NEW a, Reply(run, FALSE, a)
  PROVE  Once(a)
BY NothingLeft, OnceSent DEF Reply

LEMMA OnceRaised ==
  ASSUME StorageOnly, Served, NEW n, NEW code, Raise(run, Rest(run, FALSE), n, code)
  PROVE  Once(Answer(code, "none"))
<1>1. PICK d \in Cleaned(<<>>, n) : Send(run, d[1], Answer(code, "none"))
  BY NothingLeft DEF Raise
<1>2. d = <<Suffix(<<>>, 1), n>>
  <2>1. "split" \notin FaultKinds /\ 1..(Len(<<>>) + 1) = {1}
    BY OnlyIo
  <2> QED
    BY <1>1, <2>1 DEF Cleaned
<1>3. d[1] = <<>>
  BY <1>2 DEF Suffix
<1> QED
  BY <1>1, <1>3, OnceSent

LEMMA OnceRefused ==
  ASSUME StorageOnly, Served, NEW code,
         IoError(run, FALSE, code) \/ (code = GENERAL_ERROR_1607 /\ Error(run, FALSE))
  PROVE  Once(Answer(code, "none"))
BY OnceRaised DEF IoError, Error

LEMMA SmallAnswers ==
  /\ \A code, id : Answer(code, id).code = code
  /\ \A code, id, key, pair : /\ AesAnswer(code, id, key, pair).code = code
                              /\ AesAnswer(code, id, key, pair).key = key
  /\ \A id, match : /\ CrcAnswer(id, match).code = VALID_FILE_AND_CRC_1603
                    /\ CrcAnswer(id, match).match = match
BY DEF Answer, AesAnswer, CrcAnswer

LEMMA AnswerNumbers ==
  /\ GET_PUBLIC_KEY_SEND_AES_1602 = 1602 /\ VALID_RECONNECT_1605 = 1605
  /\ VALID_FILE_AND_CRC_1603 = 1603 /\ THANK_YOU_1604 = 1604
  /\ REGISTERING_DONE_1600 = 1600 /\ REGISTERING_FAILED_1601 = 1601
  /\ INVALID_RECONNECT_1606 = 1606 /\ GENERAL_ERROR_1607 = 1607
BY DEF GET_PUBLIC_KEY_SEND_AES_1602, VALID_RECONNECT_1605, VALID_FILE_AND_CRC_1603,
       THANK_YOU_1604, REGISTERING_DONE_1600, REGISTERING_FAILED_1601,
       INVALID_RECONNECT_1606, GENERAL_ERROR_1607

\* An answer that says nothing.
Plain(a) ==
  a.code \in {REGISTERING_DONE_1600, REGISTERING_FAILED_1601, INVALID_RECONNECT_1606,
              GENERAL_ERROR_1607}

LEMMA PlainCredible ==
  ASSUME NEW a, Plain(a)
  PROVE  Credible(a)'
BY AnswerNumbers DEF Plain, Credible

LEMMA RefusalPlain ==
  ASSUME NEW id
  PROVE  /\ Plain(Answer(GENERAL_ERROR_1607, id)) /\ Plain(Answer(REGISTERING_FAILED_1601, id))
         /\ Plain(Answer(REGISTERING_DONE_1600, id)) /\ Plain(Answer(INVALID_RECONNECT_1606, id))
BY SmallAnswers DEF Plain

LEMMA RegistrationOnce ==
  ASSUME StorageOnly, Served, registration_request_825(run)
  PROVE  (\E a : Once(a) /\ Credible(a)') /\ UNCHANGED <<aes_key, file, disk>>
<1>1. PICK split \in Splits :
        \/ /\ Raise(run, Rest(run, split), FaultsLeft(split), REGISTERING_FAILED_1601)
           /\ UNCHANGED storeVars
        \/ /\ Reply(run, split, Answer(REGISTERING_DONE_1600, "new"))
           /\ UNCHANGED <<public_key, aes_key, file, disk>>
        \/ split
        \/ /\ IoError(run, split, REGISTERING_FAILED_1601)
           /\ UNCHANGED <<public_key, aes_key, file, disk>>
  BY DEF registration_request_825, storeVars
<1>2. split = FALSE
  BY OnlyIo
<1>3. UNCHANGED <<aes_key, file, disk>>
  BY <1>1, <1>2 DEF storeVars
<1>4. \E a : Once(a) /\ Plain(a)
  BY <1>1, <1>2, OnceRaised, OnceReplied, OnceRefused, RefusalPlain
<1> QED
  BY <1>3, <1>4, PlainCredible

\* A new key is sent at once.
LEMMA KeySentOnce ==
  ASSUME Served, NEW code, code \in {GET_PUBLIC_KEY_SEND_AES_1602, VALID_RECONNECT_1605},
         NEW pair, NEW row, create_send_aes(run, FALSE, code, pair, row)
  PROVE  \E a : Once(a) /\ Credible(a)'
<1>1. PICK a : a = AesAnswer(code, registered, aes_key + 1, pair)
  OBVIOUS
<1>2. Once(a) /\ aes_key' = aes_key + 1
  BY <1>1, OnceReplied DEF create_send_aes
<1>4. a.code = code /\ a.key = aes_key + 1
  BY <1>1, SmallAnswers
<1>3. Credible(a)'
  BY <1>2, <1>4, AnswerNumbers DEF Credible
<1> QED
  BY <1>2, <1>3

LEMMA ReconnectionOnce ==
  ASSUME StorageOnly, Served, reconnection_request_827(run)
  PROVE  (\E a : Once(a) /\ Credible(a)') /\ UNCHANGED <<file, disk>>
<1>1. UNCHANGED <<file, disk>>
  BY DEF reconnection_request_827
<1>2. PICK split \in Splits :
        \/ Error(run, split)
        \/ Reply(run, split, Answer(INVALID_RECONNECT_1606, Head(stream[run]).id))
        \/ create_send_aes(run, split, VALID_RECONNECT_1605, public_key, table)
        \/ IoError(run, split, GENERAL_ERROR_1607)
  BY DEF reconnection_request_827
<1>3. split = FALSE
  BY OnlyIo
<1>4. CASE \E a : Once(a) /\ Plain(a)
  BY <1>1, <1>4, PlainCredible
<1>5. CASE create_send_aes(run, FALSE, VALID_RECONNECT_1605, public_key, table)
  BY <1>1, <1>5, KeySentOnce
<1> QED
  BY <1>2, <1>3, <1>4, <1>5, OnceReplied, OnceRefused, RefusalPlain

LEMMA PublicKeyOnce ==
  ASSUME StorageOnly, Served, send_public_key_request_826(run)
  PROVE  (\E a : Once(a) /\ Credible(a)') /\ UNCHANGED <<file, disk>>
<1>1. UNCHANGED <<file, disk>>
  BY DEF send_public_key_request_826
<1>2. PICK split \in Splits :
        \/ Error(run, split)
        \/ \E pair, row : create_send_aes(run, split, GET_PUBLIC_KEY_SEND_AES_1602, pair, row)
        \/ IoError(run, split, GENERAL_ERROR_1607)
  BY DEF send_public_key_request_826
<1>3. split = FALSE
  BY OnlyIo
<1>4. CASE \E a : Once(a) /\ Plain(a)
  BY <1>1, <1>4, PlainCredible
<1>5. CASE \E pair, row : create_send_aes(run, FALSE, GET_PUBLIC_KEY_SEND_AES_1602, pair, row)
  BY <1>1, <1>5, KeySentOnce
<1> QED
  BY <1>2, <1>3, <1>4, <1>5, OnceRefused, RefusalPlain

\* A packet that is the file, encrypted with the key at hand.
LEMMA FileOnce ==
  ASSUME StorageOnly, Served, pc = "await_828", session_key = aes_key,
         send_file_request_828(run)
  PROVE  /\ \E a : Once(a) /\ Credible(a)'
         /\ aes_key' = aes_key /\ file' \in {file, "unverified"}
<1> DEFINE r == Due
           content == Written(r, FALSE)
<1>1. /\ r = PacketRequest(client_id, 1, aes_key, FALSE) /\ Head(stream[run]) = r
      /\ r.packet = 1 /\ r.key = aes_key /\ r.damaged = FALSE
  BY NothingLeft DEF Due, PacketRequest, Request
<1>2. content = <<[packet |-> 1, key |-> aes_key, state |-> "cipher"]>>
  BY <1>1 DEF Written, Chunk
<1> HIDE DEF content, r
<1>3. Decrypted(content) = <<[packet |-> 1, key |-> aes_key, state |-> "plain"]>>
  <2>1. DOMAIN content = 1..1 /\ content[1] = [packet |-> 1, key |-> aes_key, state |-> "cipher"]
    BY <1>2
  <2>2. Decrypted(content) = [i \in 1..1 |-> [packet |-> 1, key |-> aes_key, state |-> "plain"]]
    <3>1. \A i \in 1..1 : content[i] = [packet |-> 1, key |-> aes_key, state |-> "cipher"]
      BY <2>1
    <3> QED
      BY <2>1, <3>1 DEF Decrypted
  <2> QED
    BY <2>2
<1>4. IntactFile(Decrypted(content))
  <2> DEFINE plain == Decrypted(content)
           chunk == [packet |-> 1, key |-> aes_key, state |-> "plain"]
  <2>3. plain = <<chunk>> /\ chunk.key = aes_key
    BY <1>3
  <2> HIDE DEF plain, chunk
  <2>1. /\ Len(plain) = 1 /\ plain[1] = [packet |-> 1, key |-> aes_key, state |-> "plain"]
        /\ plain[1].key = aes_key
    <3>1. Len(plain) = 1 /\ plain[1] = chunk
      BY <2>3
    <3> QED
      BY <2>3, <3>1 DEF chunk
  <2>2. IntactFile(plain)
    BY <2>1 DEF IntactFile, StorageOnly
  <2> QED
    BY <2>2 DEF plain
<1>5. aes_key' = aes_key
  BY DEF send_file_request_828
<1>6. PICK split \in Splits :
        \/ Error(run, split) /\ UNCHANGED file
        \/ /\ file' = Recorded(r)
           /\ \/ r.packet # TotalPackets
              \/ last_packet(run, split, Written(r, split))
        \/ split
        \/ /\ IoError(run, split, GENERAL_ERROR_1607)
           /\ file' \in {file, Recorded(r)}
  <2> DEFINE q == Head(stream[run])
  <2>1. PICK split \in Splits :
        \/ Error(run, split) /\ UNCHANGED <<file, disk, table>>
        \/ Error(run, split) /\ UNCHANGED <<file, table>>
        \/ /\ file' = Recorded(q)
           /\ \/ q.packet # TotalPackets
              \/ last_packet(run, split, Written(q, split))
        \/ split
        \/ /\ IoError(run, split, GENERAL_ERROR_1607)
           /\ \/ UNCHANGED <<file, table>>
              \/ file' = Recorded(q)
    BY DEF send_file_request_828
  <2> QED
    BY <1>1, <2>1
<1>7. split = FALSE /\ Recorded(r) = "unverified" /\ r.packet = TotalPackets
  <2>1. split = FALSE
    BY OnlyIo
  <2>2. r.packet = TotalPackets
    BY <1>1 DEF StorageOnly
  <2> QED
    BY <1>1, <2>1, <2>2 DEF Recorded
<1>8. file' \in {file, "unverified"}
  BY <1>6, <1>7
<1>9. CASE Error(run, FALSE) \/ IoError(run, FALSE, GENERAL_ERROR_1607)
  <2>1. \E a : Once(a) /\ Plain(a)
    BY <1>9, OnceRefused, RefusalPlain
  <2> QED
    BY <1>5, <1>8, <2>1, PlainCredible
<1>10. CASE last_packet(run, FALSE, content)
  <2>5. PICK a : a = CrcAnswer(registered, TRUE)
    OBVIOUS
  <2>1. disk' = Decrypted(content) /\ Reply(run, FALSE, a)
    BY <1>4, <1>10, <2>5 DEF last_packet
  <2>2. a.code = VALID_FILE_AND_CRC_1603 /\ a.match = TRUE /\ Once(a)
    BY <2>1, <2>5, OnceReplied, SmallAnswers
  <2>3. IntactFile(disk)'
    BY <1>4, <2>1 DEF IntactFile
  <2>4. Credible(a)'
    BY <2>2, <2>3, AnswerNumbers DEF Credible
  <2> QED
    BY <1>5, <1>8, <2>2, <2>4
<1> QED
  BY <1>6, <1>7, <1>9, <1>10 DEF content

LEMMA VerdictOnce ==
  ASSUME StorageOnly, TypesAndRecords, Served, Due.code = VALID_CRC_900,
         crc_response_900_901_902(run)
  PROVE  /\ \E a : Once(a) /\ Credible(a)'
         /\ UNCHANGED <<aes_key, disk>> /\ file' \in {file, "verified"}
<1>1. Head(stream[run]).code = VALID_CRC_900 /\ aes_key' = aes_key
  BY NothingLeft DEF crc_response_900_901_902
<1>2. /\ VALID_CRC_900 # WRONG_CRC_TRY_AGAIN_901 /\ VALID_CRC_900 # WRONG_CRC_4TH_902
      /\ HalfDone(VALID_CRC_900) = {<<file, disk>>, <<"verified", disk>>}
  BY DEF VALID_CRC_900, WRONG_CRC_TRY_AGAIN_901, WRONG_CRC_4TH_902, HalfDone
<1>3. PICK split \in Splits :
        \/ Error(run, split) /\ UNCHANGED <<file, disk>>
        \/ /\ file = "unverified" /\ file' = "verified" /\ UNCHANGED disk
           /\ table' = set_valid_crc("verified")
           /\ Reply(run, split, Answer(THANK_YOU_1604, registered))
        \/ /\ IoError(run, split, GENERAL_ERROR_1607)
           /\ \E half \in HalfDone(VALID_CRC_900) : file' = half[1] /\ disk' = half[2]
  BY <1>1, <1>2 DEF crc_response_900_901_902
<1>4. split = FALSE
  BY OnlyIo
<1>5. disk' = disk /\ file' \in {file, "verified"}
  BY <1>2, <1>3
<1>6. CASE Error(run, FALSE) \/ IoError(run, FALSE, GENERAL_ERROR_1607)
  <2>1. \E a : Once(a) /\ Plain(a)
    BY <1>6, OnceRefused, RefusalPlain
  <2> QED
    BY <1>1, <1>5, <2>1, PlainCredible
<1>7. CASE /\ file = "unverified" /\ file' = "verified" /\ table' = set_valid_crc("verified")
           /\ Reply(run, FALSE, Answer(THANK_YOU_1604, registered))
  <2>3. PICK a : a = Answer(THANK_YOU_1604, registered)
    OBVIOUS
  <2>1. Once(a) /\ a.code = THANK_YOU_1604
    BY <1>7, <2>3, OnceReplied, SmallAnswers
  <2>4. Marked'
    <3>1. table \in Rows /\ table.file # "absent"
      BY <1>7 DEF TypesAndRecords, TypeOK, ServerTypeOK, RowsFit
    <3>2. table'.file = "verified"
      BY <1>7, <3>1 DEF set_valid_crc, Rows
    <3> QED
      BY <1>7, <3>2 DEF Marked
  <2>2. Credible(a)'
    BY <2>1, <2>4, AnswerNumbers DEF Credible
  <2> QED
    BY <1>1, <1>5, <2>1, <2>2
<1> QED
  BY <1>3, <1>4, <1>6, <1>7

LEMMA DueCode ==
  ASSUME pc \in Waiting
  PROVE  /\ ~Due.cut
         /\ pc = "await_825" => Due.code = REGISTERING_825
         /\ pc = "await_826" => Due.code = SEND_PUBLIC_KEY_826
         /\ pc = "await_827" => Due.code = RECONNECT_827
         /\ pc = "await_828" => Due.code = SEND_FILE_828 /\ Due.packet = 1
         /\ pc = "await_end" => Due.code = VALID_CRC_900
BY DEF Due, Waiting, Request, PublicKeyRequest, PacketRequest

\* What the server may do: end a connection that is not in use, or answer the
\* request of the current run.
Ended ==
  /\ UNCHANGED <<answers, storeVars>>
  /\ up' \/ \A c \in Conns : link'[c] # "open"
  /\ \A c \in Conns : /\ link'[c] = "open" => link[c] = "open"
                      /\ c > run => link'[c] = link[c]
                      /\ c # run => stream'[c] = <<>>
                      /\ link'[c] # "open" => stream'[c] = <<>>
                      /\ link'[c] = "open" => stream'[c] = stream[c]

Attended ==
  /\ Served /\ \E a : Once(a) /\ Credible(a)'
  /\ pc \notin {"await_828", "await_end"} => UNCHANGED <<file, disk>>
  /\ pc = "await_828" => aes_key' = aes_key /\ file' \in {file, "unverified"}
  /\ pc = "await_end" => UNCHANGED <<aes_key, disk>> /\ file' \in {file, "verified"}

LEMMA EndingEnds ==
  ASSUME TypeOK, Apart, NEW c \in Conns, EndOfStream(c) \/ ReadReset(c)
  PROVE  Ended
<1>1. /\ link \in [Conns -> Links] /\ stream \in [Conns -> Seq(Requests)]
      /\ \A d \in Conns : d # run \/ link[d] # "open" => stream[d] = <<>>
      /\ \A d \in Conns : d > run => link[d] = "idle" /\ d # run
  BY DEF TypeOK, ConnectionTypeOK, ClientTypeOK, Apart, Conns
<1>2. CASE EndOfStream(c)
  <2>1. /\ link[c] = "closed" /\ link' = [link EXCEPT ![c] = "gone"]
        /\ UNCHANGED <<stream, answers, storeVars>> /\ up'
    BY <1>2 DEF EndOfStream, serverVars
  <2>2. \A d \in Conns : link'[d] = link[d] \/ (d = c /\ link'[d] = "gone")
    BY <1>1, <2>1
  <2> QED
    BY <1>1, <2>1, <2>2 DEF Ended
<1>3. CASE ReadReset(c)
  <2>1. /\ stream' = [d \in Conns |-> <<>>] /\ UNCHANGED <<answers, storeVars>>
        /\ link' = [d \in Conns |-> IF link[d] = "open" THEN "lost"
                                    ELSE IF link[d] = "idle" THEN "idle" ELSE "gone"]
    BY <1>3 DEF ReadReset, ServerExit
  <2> QED
    BY <1>1, <2>1 DEF Ended
<1> QED
  BY <1>2, <1>3

LEMMA ServerAttends ==
  ASSUME StorageOnly, TypesAndRecords, StorageInv, NEW c \in Conns, ServerStep(c)
  PROVE  Ended \/ Attended
<1>1. CASE EndOfStream(c) \/ ReadReset(c)
  BY <1>1, EndingEnds DEF StorageInv, TypesAndRecords
<1>2. CASE ~(EndOfStream(c) \/ ReadReset(c))
  <2>1. link[c] # "gone" /\ stream[c] # <<>>
    BY <1>2 DEF ServerStep, ReadGarbage, ReadShort, Readable, registration_request_825,
         reconnection_request_827, send_public_key_request_826, send_file_request_828,
         crc_response_900_901_902
  <2>2. c = run /\ link[run] = "open" /\ pc # "off"
    BY <2>1 DEF StorageInv, Apart
  <2>3. Served
    BY <2>1, <2>2 DEF StorageInv, Turns, Served, Ready, Pending
  <2>4. Head(stream[run]) = Due /\ ~Due.cut
    BY <2>3, NothingLeft, DueCode DEF Served
  <2>5. \/ registration_request_825(run) /\ Due.code = REGISTERING_825
        \/ reconnection_request_827(run) /\ Due.code = RECONNECT_827
        \/ send_public_key_request_826(run) /\ Due.code = SEND_PUBLIC_KEY_826
        \/ send_file_request_828(run) /\ Due.code = SEND_FILE_828
        \/ crc_response_900_901_902(run) /\ Due.code \in CrcCodes
    <3>1. ~ReadGarbage(run)
      BY <2>4 DEF ReadGarbage
    <3>2. ~ReadShort(run)
      BY OnlyIo DEF ReadShort
    <3>3. /\ registration_request_825(run) => Head(stream[run]).code = REGISTERING_825
          /\ reconnection_request_827(run) => Head(stream[run]).code = RECONNECT_827
          /\ send_public_key_request_826(run) => Head(stream[run]).code = SEND_PUBLIC_KEY_826
          /\ send_file_request_828(run) => Head(stream[run]).code = SEND_FILE_828
          /\ crc_response_900_901_902(run) => Head(stream[run]).code \in CrcCodes
      BY DEF Readable, registration_request_825, reconnection_request_827,
           send_public_key_request_826, send_file_request_828, crc_response_900_901_902
    <3> QED
      BY <1>2, <2>2, <2>4, <3>1, <3>2, <3>3 DEF ServerStep
  <2>6. CASE pc = "await_825"
    <3>1. registration_request_825(run)
      BY <2>3, <2>5, <2>6, DueCode, CodesDiffer DEF Served
    <3> QED
      BY <2>3, <2>6, <3>1, RegistrationOnce DEF Attended
  <2>7. CASE pc = "await_826"
    <3>1. send_public_key_request_826(run)
      BY <2>3, <2>5, <2>7, DueCode, CodesDiffer DEF Served
    <3> QED
      BY <2>3, <2>7, <3>1, PublicKeyOnce DEF Attended
  <2>8. CASE pc = "await_827"
    <3>1. reconnection_request_827(run)
      BY <2>3, <2>5, <2>8, DueCode, CodesDiffer DEF Served
    <3> QED
      BY <2>3, <2>8, <3>1, ReconnectionOnce DEF Attended
  <2>9. CASE pc = "await_828"
    <3>1. send_file_request_828(run) /\ session_key = aes_key
      BY <2>3, <2>5, <2>9, DueCode, CodesDiffer DEF Served, StorageInv, Founded
    <3> QED
      BY <2>3, <2>9, <3>1, FileOnce DEF Attended
  <2>10. CASE pc = "await_end"
    <3>1. crc_response_900_901_902(run) /\ Due.code = VALID_CRC_900
      BY <2>3, <2>5, <2>10, DueCode, CodesDiffer DEF Served
    <3> QED
      BY <2>3, <2>10, <3>1, VerdictOnce DEF Attended
  <2> QED
    BY <2>3, <2>6, <2>7, <2>8, <2>9, <2>10 DEF Served, Waiting
<1> QED
  BY <1>1, <1>2

LEMMA EndedKeeps ==
  ASSUME TypeOK, StorageInv, Ended, UNCHANGED clientVars
  PROVE  StorageInv'
<1>1. /\ UNCHANGED <<run, pc, outcome, verdict, client_id, my_pair, session_key>>
      /\ UNCHANGED <<answers, aes_key, file, disk, table>>
  BY DEF Ended, clientVars, storeVars
<1>2. Apart'
  BY <1>1 DEF Apart, Ended, StorageInv
<1>3. Due' = Due
  BY <1>1 DEF Due
<1>4. Turns'
  <2>1. pc # "off" => run \in Conns
    BY RunningType
  <2>2. CASE pc # "off" /\ link'[run] = "open"
    <3>1. link[run] = "open" /\ Pending' = Pending /\ Got' = Got
      BY <1>1, <2>1, <2>2 DEF Ended, Pending, Got
    <3> QED
      BY <1>1, <1>3, <2>2, <3>1 DEF StorageInv, Turns, Ready, Asked
  <2> QED
    BY <1>1, <2>2 DEF Turns
<1>5. IntactFile(disk)' <=> IntactFile(disk)
  BY <1>1 DEF IntactFile
<1>6. pc # "off" => run \in Conns /\ (link'[run] = "open" => link[run] = "open")
  BY RunningType DEF Ended
<1>7. pc # "off" => \A a : Credible(a) => Credible(a)'
  BY <1>1, <1>5, <1>6 DEF Credible, Marked
<1>8. Founded'
  BY <1>1, <1>5, <1>6, <1>7 DEF StorageInv, Founded, Got, Marked
<1> QED
  BY <1>2, <1>4, <1>8 DEF StorageInv

LEMMA AttendedKeeps ==
  ASSUME TypeOK, StorageInv, Attended, UNCHANGED clientVars
  PROVE  StorageInv'
<1>1. UNCHANGED <<run, pc, outcome, verdict, client_id, my_pair, session_key>>
  BY DEF clientVars
<1>2. PICK a : Once(a) /\ Credible(a)'
  BY DEF Attended
<1>3. /\ run \in Conns /\ link[run] = "open" /\ pc \in Waiting /\ pc # "off"
      /\ stream \in [Conns -> Seq(Requests)] /\ answers \in [Conns -> Seq(Answers)]
  BY DEF Attended, Served, Waiting, TypeOK, ConnectionTypeOK
<1>4. /\ Pending' = <<>> /\ Got' = <<a>> /\ link' = link
      /\ \A c \in Conns : c # run => stream'[c] = stream[c] /\ answers'[c] = answers[c]
  BY <1>1, <1>2, <1>3 DEF Once, Pending, Got
<1>5. Apart'
  <2>1. up' = up
    BY <1>2 DEF Once
  <2> QED
    BY <1>1, <1>3, <1>4, <2>1 DEF StorageInv, Apart, Pending
<1>6. Turns'
  <2>1. Len(Got') = 1
    BY <1>4
  <2> QED
    BY <1>1, <1>3, <1>4, <2>1 DEF Turns
<1>7. Founded'
  <2>1. (\A i \in 1..Len(Got) : Credible(Got[i]))'
    <3>1. Len(Got') = 1 /\ Got'[1] = a
      BY <1>4
    <3> QED
      BY <1>2, <3>1 DEF Credible
  <2>2. pc' \in {"send_file", "await_828"} => session_key' = aes_key'
    BY <1>1, <1>3 DEF StorageInv, Founded, Attended, Waiting
  <2>3. pc' = "await_end" => verdict' = VALID_CRC_900 /\ IntactFile(disk)'
    BY <1>1 DEF StorageInv, Founded, Attended, IntactFile
  <2>4. outcome' # "success" /\ outcome' # "deleted"
    BY <1>1, <1>3 DEF StorageInv, Founded
  <2> QED
    BY <2>1, <2>2, <2>3, <2>4 DEF Founded
<1> QED
  BY <1>5, <1>6, <1>7 DEF StorageInv

-----------------------------------------------------------------------------
(* The client.                                                             *)

\* Steps of the client leave the server alone, and other connections too.
LEMMA StoreUntouched ==
  ASSUME UNCHANGED serverVars
  PROVE  /\ UNCHANGED <<up, aes_key, file, disk, table>>
         /\ (IntactFile(disk)' <=> IntactFile(disk)) /\ (Marked' <=> Marked)
         /\ UNCHANGED <<run, link>> => \A a : Credible(a)' <=> Credible(a)
<1>1. UNCHANGED <<up, aes_key, file, disk, table>>
  BY DEF serverVars, storeVars
<1>2. IntactFile(disk)' <=> IntactFile(disk)
  BY <1>1 DEF IntactFile
<1> QED
  BY <1>1, <1>2 DEF Credible, Marked

\* Who has been answered, or has nothing to wait for, has no request under way.
LEMMA NothingSent ==
  ASSUME TypeOK, StorageInv, pc # "off", Answered \/ pc \notin Waiting \/ link[run] # "open"
  PROVE  /\ run \in Conns /\ Pending = <<>>
         /\ link[run] = "open" /\ Answered => Len(Got) = 1
         /\ link[run] = "open" /\ pc \notin Waiting => Got = <<>>
BY RunningType DEF StorageInv, Turns, Apart, Ready, Asked, Answered, Pending, Got

LEMMA LeavingKeeps ==
  ASSUME TypeOK, StorageInv, pc # "off", Answered \/ pc \notin Waiting \/ link[run] # "open",
         NEW how, NEW unread, Leave(how, unread), run' = run, UNCHANGED serverVars,
         how = "success" => Marked /\ IntactFile(disk), how # "deleted"
  PROVE  StorageInv'
<1>1. /\ run \in Conns /\ Pending = <<>> /\ pc' = "off" /\ outcome' = how /\ stream' = stream
      /\ link \in [Conns -> Links] /\ answers \in [Conns -> Seq(Answers)]
  BY NothingSent DEF Leave, TypeOK, ConnectionTypeOK
<1>2. /\ \A c \in Conns : c # run => link'[c] = link[c] /\ answers'[c] = answers[c]
      /\ link'[run] # "open" /\ link'[run] # "idle" /\ answers'[run] = <<>>
  <2>1. link' = [link EXCEPT ![run] = IF link[run] # "open" THEN "gone"
                                      ELSE IF unread THEN "reset" ELSE "closed"]
    BY DEF Leave
  <2>2. answers' = [answers EXCEPT ![run] = <<>>]
    BY DEF Leave
  <2> QED
    BY <1>1, <2>1, <2>2
<1>3. Apart'
  <2>1. \A c \in Conns : c > run => c # run
    BY DEF TypeOK, ClientTypeOK
  <2> QED
    BY <1>1, <1>2, <2>1, StoreUntouched DEF StorageInv, Apart, Pending
<1>4. Turns' /\ Founded'
  BY <1>1, StoreUntouched DEF Turns, Founded
<1> QED
  BY <1>3, <1>4 DEF StorageInv

LEMMA OtherConnections ==
  ASSUME TypeOK, StorageInv, run \in Conns, pc # "off", pc' # "off", UNCHANGED <<run, link, up>>,
         NEW s, NEW t,
         stream' = [stream EXCEPT ![run] = s] /\ (link[run] # "open" => s = <<>>),
         answers' = [answers EXCEPT ![run] = t]
  PROVE  Apart' /\ Pending' = s /\ Got' = t
<1>1. stream \in [Conns -> Seq(Requests)] /\ answers \in [Conns -> Seq(Answers)]
  BY DEF TypeOK, ConnectionTypeOK
<1>2. /\ \A c \in Conns : c # run => stream'[c] = stream[c] /\ answers'[c] = answers[c]
      /\ stream'[run] = s /\ answers'[run] = t
  BY <1>1
<1>3. Apart'
  BY <1>2 DEF StorageInv, Apart
<1> QED
  BY <1>2, <1>3 DEF Pending, Got

\* A request is sent.
LEMMA SendingKeeps ==
  ASSUME TypeOK, StorageInv, pc \notin Waiting, pc # "off", pc' \in Waiting \ {"await_end"},
         UNCHANGED <<run, outcome, answers, link>>, UNCHANGED serverVars, NEW r, r = Due',
         stream' = IF link[run] = "open" THEN [stream EXCEPT ![run] = Append(@, r)] ELSE stream,
         pc' = "await_828" /\ link[run] = "open" => session_key' = aes_key
  PROVE  StorageInv'
<1>1. /\ run \in Conns /\ Pending = <<>> /\ (link[run] = "open" => Got = <<>>)
      /\ stream \in [Conns -> Seq(Requests)] /\ answers \in [Conns -> Seq(Answers)]
  BY NothingSent DEF TypeOK, ConnectionTypeOK
<1> DEFINE s == IF link[run] = "open" THEN <<r>> ELSE <<>>
<1>2. stream' = [stream EXCEPT ![run] = s] /\ answers' = [answers EXCEPT ![run] = Got]
  <2>1. Append(stream[run], r) = <<r>>
    BY <1>1 DEF Pending
  <2>2. CASE link[run] = "open"
    BY <1>1, <2>1, <2>2 DEF Got
  <2>3. CASE link[run] # "open"
    BY <1>1, <2>3 DEF Got, Pending
  <2> QED
    BY <2>2, <2>3
<1>3. link[run] # "open" => s = <<>>
  OBVIOUS
<1>4. pc' # "off"
  BY DEF Waiting
<1> HIDE DEF s
<1>5. Apart' /\ Pending' = s /\ Got' = Got
  BY <1>1, <1>2, <1>3, <1>4, StoreUntouched, OtherConnections
<1>6. Turns'
  <2>1. link'[run'] = "open" => Pending' = <<r>> /\ Got' = <<>>
    BY <1>1, <1>5 DEF s
  <2> QED
    BY <2>1 DEF Turns, Asked
<1>7. Founded'
  <2>1. (\A i \in 1..Len(Got) : Credible(Got[i]))'
    BY <1>5, StoreUntouched DEF StorageInv, Founded
  <2>2. pc' # "send_file" /\ pc' # "await_end" /\ outcome # "success" /\ outcome # "deleted"
    BY DEF StorageInv, Founded, Waiting
  <2>3. pc' \in {"send_file", "await_828"} /\ link'[run'] = "open" => session_key' = aes_key'
    BY <2>2, StoreUntouched
  <2> QED
    BY <2>1, <2>2, <2>3 DEF Founded
<1> QED
  BY <1>5, <1>6, <1>7 DEF StorageInv

LEMMA LastTaken ==
  ASSUME NEW S, NEW s \in Seq(S), Len(s) = 1
  PROVE  Tail(s) = <<>>
<1>1. s # <<>>
  OBVIOUS
<1>2. Tail(s) \in Seq(S) /\ Len(Tail(s)) = 0
  BY <1>1, HeadTailProperties
<1> QED
  BY <1>2, EmptySeq

\* The answers that are left when one is taken.
LEMMA LeftCredible ==
  ASSUME TypeOK, StorageInv, pc # "off", Answered, UNCHANGED <<run, link>>,
         UNCHANGED serverVars, Got' = Tail(Got)
  PROVE  (\A i \in 1..Len(Got) : Credible(Got[i]))'
<1>1. Got \in Seq(Answers) /\ Got # <<>>
  BY RunningType DEF Answered, Got
<1>2. /\ Len(Got') \in Nat /\ Len(Got) = Len(Got') + 1
      /\ \A i \in 1..Len(Got') : Got'[i] = Got[i + 1] /\ i + 1 \in 1..Len(Got)
  BY <1>1, HeadTailProperties
<1>3. \A i \in 1..Len(Got) : Credible(Got[i])
  BY DEF StorageInv, Founded
<1>4. ASSUME NEW i \in 1..Len(Got')  PROVE Credible(Got[i + 1])
  BY <1>2, <1>3
<1>5. \A i \in 1..Len(Got') : \E a : a = Got'[i] /\ Credible(a)
  BY <1>2, <1>4
<1> QED
  BY <1>5, StoreUntouched DEF Credible

\* An answer is taken, and the client goes on by itself.
LEMMA TakingKeeps ==
  ASSUME TypeOK, StorageInv, pc \in Waiting, pc' \notin Waiting, pc' # "off", Answered,
         TakeAnswer, UNCHANGED <<run, outcome>>, UNCHANGED serverVars,
         pc' = "send_file" /\ link[run] = "open" => session_key' = aes_key
  PROVE  StorageInv'
<1>1. /\ run \in Conns /\ Pending = <<>> /\ pc # "off"
      /\ stream \in [Conns -> Seq(Requests)]
  BY NothingSent DEF TypeOK, ConnectionTypeOK, Waiting
<1>2. /\ stream' = [stream EXCEPT ![run] = <<>>] /\ answers' = [answers EXCEPT ![run] = Tail(Got)]
      /\ UNCHANGED link
  BY <1>1 DEF TakeAnswer, Pending, Got
<1>3. Apart' /\ Pending' = <<>> /\ Got' = Tail(Got)
  BY <1>1, <1>2, StoreUntouched, OtherConnections
<1>4. Turns'
  <2>1. link[run] = "open" => Tail(Got) = <<>>
    <3>1. link[run] = "open" => Len(Got) = 1 /\ Got \in Seq(Answers)
      BY <1>1, NothingSent, RunningType DEF Got
    <3> QED
      BY <3>1, LastTaken
  <2> QED
    BY <1>2, <1>3, <2>1 DEF Turns, Ready
<1>5. Founded'
  <2>1. (\A i \in 1..Len(Got) : Credible(Got[i]))'
    BY <1>1, <1>2, <1>3, LeftCredible
  <2>2. pc' # "await_828" /\ pc' # "await_end" /\ outcome # "success" /\ outcome # "deleted"
    BY <1>1 DEF StorageInv, Founded, Waiting
  <2>3. pc' \in {"send_file", "await_828"} /\ link'[run'] = "open" => session_key' = aes_key'
    BY <1>2, <2>2, StoreUntouched
  <2> QED
    BY <2>1, <2>2, <2>3 DEF Founded
<1> QED
  BY <1>3, <1>4, <1>5 DEF StorageInv

\* The client has heard its checksum or not been understood: it sends 900.
LEMMA FinishingKeeps ==
  ASSUME TypeOK, StorageInv, pc \in {"await_828", "await_end"}, pc' = "await_end", Answered,
         SendFinishRequest(VALID_CRC_900), verdict' = VALID_CRC_900, IntactFile(disk),
         UNCHANGED <<run, outcome, client_id>>, UNCHANGED serverVars
  PROVE  StorageInv'
<1>1. /\ run \in Conns /\ Pending = <<>> /\ pc # "off" /\ pc' # "off"
      /\ stream \in [Conns -> Seq(Requests)]
  BY NothingSent DEF TypeOK, ConnectionTypeOK
<1> DEFINE r == Request(VALID_CRC_900, client_id)
           s == IF link[run] = "open" THEN <<r>> ELSE <<>>
<1>2. /\ stream' = [stream EXCEPT ![run] = s] /\ answers' = [answers EXCEPT ![run] = Tail(Got)]
      /\ UNCHANGED link
  <2>1. Append(stream[run], r) = <<r>>
    BY <1>1 DEF Pending
  <2>2. CASE link[run] = "open"
    BY <1>1, <2>1, <2>2 DEF Got, SendFinishRequest
  <2>3. CASE link[run] # "open"
    BY <1>1, <2>3 DEF Got, Pending, SendFinishRequest
  <2> QED
    BY <2>2, <2>3
<1>3. (link[run] # "open" => s = <<>>) /\ (link[run] = "open" => s = <<r>>)
  OBVIOUS
<1>4. r = Due'
  BY DEF Due
<1> HIDE DEF s, r
<1>5. Apart' /\ Pending' = s /\ Got' = Tail(Got)
  BY <1>1, <1>2, <1>3, StoreUntouched, OtherConnections
<1>6. Turns'
  <2>1. link[run] = "open" => Tail(Got) = <<>>
    <3>1. link[run] = "open" => Len(Got) = 1 /\ Got \in Seq(Answers)
      BY <1>1, NothingSent, RunningType DEF Got
    <3> QED
      BY <3>1, LastTaken
  <2> QED
    BY <1>2, <1>3, <1>4, <1>5, <2>1 DEF Turns, Asked, Waiting
<1>7. Founded'
  <2>1. (\A i \in 1..Len(Got) : Credible(Got[i]))'
    BY <1>1, <1>2, <1>5, LeftCredible
  <2>2. outcome # "success" /\ outcome # "deleted"
    BY <1>1 DEF StorageInv, Founded
  <2> QED
    BY <2>1, <2>2, StoreUntouched DEF Founded
<1> QED
  BY <1>5, <1>6, <1>7 DEF StorageInv

\* Nothing is sent or received.
LEMMA WorkingKeeps ==
  ASSUME TypeOK, StorageInv, pc \notin Waiting, pc # "off",
         pc' \notin Waiting \cup {"off", "send_file"},
         UNCHANGED <<run, outcome, connectionVars>>, UNCHANGED serverVars
  PROVE  StorageInv'
<1>1. UNCHANGED <<stream, answers, link, run, outcome>> /\ Pending' = Pending /\ Got' = Got
  BY DEF connectionVars, Pending, Got
<1>2. Apart'
  BY <1>1, StoreUntouched DEF StorageInv, Apart
<1>3. Turns'
  BY <1>1 DEF StorageInv, Turns, Ready
<1>4. pc' # "await_828" /\ pc' # "await_end" /\ outcome # "success" /\ outcome # "deleted"
  BY DEF StorageInv, Founded, Waiting
<1>5. (\A i \in 1..Len(Got) : Credible(Got[i]))'
  BY <1>1, StoreUntouched DEF StorageInv, Founded
<1>6. Founded'
  BY <1>1, <1>4, <1>5 DEF Founded
<1> QED
  BY <1>2, <1>3, <1>6 DEF StorageInv

LEMMA ExitKeepsStorage ==
  ASSUME TypeOK, StorageInv, pc # "off", Answered, NEW how, NEW left, Exit(how, left),
         UNCHANGED serverVars, how = "success" => Marked /\ IntactFile(disk), how # "deleted"
  PROVE  StorageInv'
BY LeavingKeeps DEF Exit

LEMMA RetryKeepsStorage ==
  ASSUME TypeOK, StorageInv, pc \in Waiting, Answered,
         NEW again \in {"register", "reconnect", "make_keys", "send_file"},
         again = "send_file" => pc = "await_828",
         NEW how \in {"too_many_tries", "too_many_sends"}, GeneralError(again, how),
         UNCHANGED serverVars
  PROVE  StorageInv'
<1>1. pc # "off" /\ again \notin Waiting /\ again # "off"
  BY DEF Waiting
<1>2. CASE Exit(how, FALSE)
  BY <1>1, <1>2, ExitKeepsStorage
<1>3. CASE /\ pc' = again /\ TakeAnswer /\ UNCHANGED <<run, outcome, keysOfClient>>
  <2>1. pc' = "send_file" /\ link[run] = "open" => session_key' = aes_key
    BY <1>3 DEF StorageInv, Founded, keysOfClient
  <2> QED
    BY <1>1, <1>3, <2>1, TakingKeeps
<1> QED
  BY <1>2, <1>3 DEF GeneralError

LEMMA HeadCredible ==
  ASSUME TypeOK, StorageInv, pc # "off", Answered
  PROVE  Credible(Received)
<1>1. Got \in Seq(Answers) /\ Got # <<>>
  BY RunningType DEF Answered, Got
<1>2. Received = Got[1] /\ 1 \in 1..Len(Got)
  BY <1>1 DEF Received, Got
<1> QED
  BY <1>2 DEF StorageInv, Founded

LEMMA BadAnswerKeeps ==
  ASSUME TypeOK, StorageInv, pc # "off", Answered, UNCHANGED serverVars,
         (\E nul : WrongId(nul)) \/ (\E codes : Unrecognized(codes))
  PROVE  StorageInv'
BY ExitKeepsStorage DEF WrongId, Unrecognized

LEMMA KeyKeeps ==
  ASSUME TypeOK, StorageInv, pc \in Waiting, Answered, NEW nul, GetAesKey(nul),
         Received.code \in {GET_PUBLIC_KEY_SEND_AES_1602, VALID_RECONNECT_1605},
         UNCHANGED serverVars
  PROVE  StorageInv'
<1>1. pc # "off" /\ "send_file" \notin Waiting
  BY DEF Waiting
<1>2. CASE WrongId(nul)
  BY <1>1, <1>2, BadAnswerKeeps
<1>3. CASE Exit("cannot_decrypt", FALSE)
  BY <1>1, <1>3, ExitKeepsStorage
<1>4. CASE /\ session_key' = Received.key /\ pc' = "send_file" /\ TakeAnswer
           /\ UNCHANGED <<run, outcome>>
  <2>1. link[run] = "open" => session_key' = aes_key
    BY <1>1, <1>4, HeadCredible DEF Credible
  <2> QED
    BY <1>1, <1>4, <2>1, TakingKeeps
<1> QED
  BY <1>2, <1>3, <1>4 DEF GetAesKey

LEMMA ReconnectKeepsStorage ==
  ASSUME TypeOK, StorageInv, SendReconnect, UNCHANGED serverVars
  PROVE  StorageInv'
<1>1. pc = "reconnect" /\ pc \notin Waiting /\ run' = run
  BY DEF SendReconnect, Waiting
<1>2. CASE Leave("no_private_key", answers[run] # <<>>)
  BY <1>1, <1>2, LeavingKeeps
<1>3. CASE /\ client_id' = me_info /\ SendToServer(Request(RECONNECT_827, me_info))
           /\ pc' = "await_827" /\ UNCHANGED <<outcome, answers>>
  <2>1. Request(RECONNECT_827, me_info) = Due'
    BY <1>3 DEF Due
  <2>2. pc' \in Waiting \ {"await_end"} /\ pc' # "await_828"
    BY <1>3 DEF Waiting
  <2> QED
    BY <1>1, <1>3, <2>1, <2>2, SendingKeeps DEF SendToServer
<1> QED
  BY <1>2, <1>3 DEF SendReconnect

LEMMA ReconnectAnswerKeepsStorage ==
  ASSUME TypeOK, StorageInv, NEW nul, OnReconnectAnswer(nul), UNCHANGED serverVars
  PROVE  StorageInv'
<1>1. /\ pc = "await_827" /\ pc \in Waiting /\ Answered /\ pc # "off"
      /\ "register" \notin Waiting
  BY DEF OnReconnectAnswer, Waiting
<1>2. CASE GeneralError("reconnect", "too_many_tries")
  BY <1>1, <1>2, RetryKeepsStorage
<1>3. CASE pc' = "register" /\ TakeAnswer /\ UNCHANGED <<run, outcome>>
  BY <1>1, <1>3, TakingKeeps
<1>4. CASE Received.code = VALID_RECONNECT_1605 /\ GetAesKey(nul)
  BY <1>1, <1>4, KeyKeeps
<1>5. CASE \E codes : Unrecognized(codes)
  BY <1>1, <1>5, BadAnswerKeeps
<1> QED
  BY <1>2, <1>3, <1>4, <1>5 DEF OnReconnectAnswer

LEMMA RegistrationKeepsStorage ==
  ASSUME TypeOK, StorageInv, SendRegistration \/ OnRegistrationAnswer, UNCHANGED serverVars
  PROVE  StorageInv'
<1>1. CASE SendRegistration
  <2>1. pc = "register" /\ pc \notin Waiting
    BY <1>1 DEF SendRegistration, Waiting
  <2>2. Request(REGISTERING_825, "none") = Due'
    BY <1>1 DEF SendRegistration, Due
  <2>3. pc' \in Waiting \ {"await_end"} /\ pc' # "await_828"
    BY <1>1 DEF SendRegistration, Waiting
  <2> QED
    BY <1>1, <2>1, <2>2, <2>3, SendingKeeps DEF SendRegistration, SendToServer
<1>2. CASE OnRegistrationAnswer
  <2>1. /\ pc = "await_825" /\ pc \in Waiting /\ Answered /\ pc # "off"
        /\ "make_keys" \notin Waiting
    BY <1>2 DEF OnRegistrationAnswer, Waiting
  <2>2. CASE GeneralError("register", "too_many_tries")
    BY <2>1, <2>2, RetryKeepsStorage
  <2>3. CASE pc' = "make_keys" /\ TakeAnswer /\ UNCHANGED <<run, outcome>>
    BY <2>1, <2>3, TakingKeeps
  <2>4. CASE \E codes : Unrecognized(codes)
    BY <2>1, <2>4, BadAnswerKeeps
  <2> QED
    BY <1>2, <2>2, <2>3, <2>4 DEF OnRegistrationAnswer
<1> QED
  BY <1>1, <1>2

LEMMA KeyMakingKeepsStorage ==
  ASSUME TypeOK, StorageInv, NEW nul, UNCHANGED serverVars,
         CreateMeInfo \/ CreatePrivKeyFile \/ SendPublicKey \/ OnPublicKeyAnswer(nul)
  PROVE  StorageInv'
<1>1. CASE CreateMeInfo \/ CreatePrivKeyFile
  <2>1. /\ pc \notin Waiting /\ pc # "off" /\ pc' \notin Waiting \cup {"off", "send_file"}
        /\ UNCHANGED <<run, outcome, connectionVars>>
    BY <1>1 DEF CreateMeInfo, CreatePrivKeyFile, Waiting
  <2> QED
    BY <2>1, WorkingKeeps
<1>2. CASE SendPublicKey
  <2>1. pc = "send_key" /\ pc \notin Waiting
    BY <1>2 DEF SendPublicKey, Waiting
  <2>2. PublicKeyRequest(client_id, my_pair) = Due'
    BY <1>2 DEF SendPublicKey, Due, keysOfClient
  <2>3. pc' \in Waiting \ {"await_end"} /\ pc' # "await_828"
    BY <1>2 DEF SendPublicKey, Waiting
  <2> QED
    BY <1>2, <2>1, <2>2, <2>3, SendingKeeps DEF SendPublicKey, SendToServer
<1>3. CASE OnPublicKeyAnswer(nul)
  <2>1. pc = "await_826" /\ pc \in Waiting /\ Answered /\ pc # "off"
    BY <1>3 DEF OnPublicKeyAnswer, Waiting
  <2>2. CASE GeneralError("make_keys", "too_many_tries")
    BY <2>1, <2>2, RetryKeepsStorage
  <2>3. CASE Received.code = GET_PUBLIC_KEY_SEND_AES_1602 /\ GetAesKey(nul)
    BY <2>1, <2>3, KeyKeeps
  <2>4. CASE \E codes : Unrecognized(codes)
    BY <2>1, <2>4, BadAnswerKeeps
  <2> QED
    BY <1>3, <2>2, <2>3, <2>4 DEF OnPublicKeyAnswer
<1> QED
  BY <1>1, <1>2, <1>3

\* The only packet of the file, undamaged.
LEMMA PacketKeepsStorage ==
  ASSUME StorageOnly, TypeOK, StorageInv, SendPacket, UNCHANGED serverVars
  PROVE  StorageInv'
<1>1. pc = "send_file" /\ pc \notin Waiting /\ packet_number = 1 /\ TotalPackets = 1
  BY DEF SendPacket, Waiting, TypeOK, ClientTypeOK, StorageOnly
<1>2. pc' = "await_828"
  BY <1>1 DEF SendPacket
<1>3. UNCHANGED <<run, outcome, answers, link, client_id, session_key>>
  BY DEF SendPacket, keysOfClient
<1>4. stream' = IF link[run] = "open"
                THEN [stream EXCEPT ![run] = Append(@, PacketRequest(client_id, 1, session_key, FALSE))]
                ELSE stream
  <2>1. PICK damaged \in {d \in BOOLEAN : d => Fault("noise")} :
          stream' = IF link[run] = "open"
                    THEN [stream EXCEPT ![run] = Append(@, PacketRequest(client_id, packet_number,
                                                                  session_key, damaged))]
                    ELSE stream
    BY DEF SendPacket
  <2>2. damaged = FALSE
    BY OnlyIo
  <2> QED
    BY <1>1, <2>1, <2>2
<1>5. PacketRequest(client_id, 1, session_key, FALSE) = Due'
  BY <1>2, <1>3 DEF Due
<1>6. (link[run] = "open" => session_key' = aes_key) /\ pc' \in Waiting \ {"await_end"}
  BY <1>1, <1>2, <1>3 DEF StorageInv, Founded, Waiting
<1> QED
  BY <1>1, <1>3, <1>4, <1>5, <1>6, SendingKeeps

LEMMA CrcAnswerKeepsStorage ==
  ASSUME TypeOK, StorageInv, NEW nul, OnCrcAnswer(nul), UNCHANGED serverVars
  PROVE  StorageInv'
<1>1. pc = "await_828" /\ pc \in Waiting /\ Answered /\ pc # "off"
  BY DEF OnCrcAnswer, Waiting
<1>2. CASE GeneralError("send_file", "too_many_sends")
  BY <1>1, <1>2, RetryKeepsStorage
<1>3. CASE (\E codes : Unrecognized(codes)) \/ WrongId(nul)
  BY <1>1, <1>3, BadAnswerKeeps
<1>4. CASE /\ Received.code = VALID_FILE_AND_CRC_1603
           /\ LET code == FinishCode(Received.match) IN
              /\ SendFinishRequest(code) /\ verdict' = code
              /\ IF code = WRONG_CRC_TRY_AGAIN_901 THEN pc' = "send_file" ELSE pc' = "await_end"
           /\ UNCHANGED <<run, outcome, keysOfClient>>
  <2>1. Received.match /\ IntactFile(disk)
    BY <1>1, <1>4, HeadCredible DEF Credible
  <2>2. FinishCode(Received.match) = VALID_CRC_900 /\ VALID_CRC_900 # WRONG_CRC_TRY_AGAIN_901
    BY <2>1 DEF FinishCode, VALID_CRC_900, WRONG_CRC_TRY_AGAIN_901
  <2>3. /\ SendFinishRequest(VALID_CRC_900) /\ verdict' = VALID_CRC_900 /\ pc' = "await_end"
        /\ UNCHANGED <<run, outcome, client_id>>
    BY <1>4, <2>2 DEF keysOfClient
  <2> QED
    BY <1>1, <2>1, <2>3, FinishingKeeps
<1> QED
  BY <1>2, <1>3, <1>4 DEF OnCrcAnswer

LEMMA FinalAnswerKeepsStorage ==
  ASSUME TypeOK, StorageInv, NEW nul, OnFinalAnswer(nul), UNCHANGED serverVars
  PROVE  StorageInv'
<1>1. /\ pc = "await_end" /\ pc \in Waiting /\ Answered /\ pc # "off"
      /\ verdict = VALID_CRC_900 /\ IntactFile(disk)
  BY DEF OnFinalAnswer, Waiting, StorageInv, Founded
<1>2. CASE Exit("too_many_tries", FALSE)
  BY <1>1, <1>2, ExitKeepsStorage
<1>3. CASE /\ SendFinishRequest(verdict)
           /\ UNCHANGED <<run, pc, outcome, verdict, keysOfClient>>
  <2>1. SendFinishRequest(VALID_CRC_900) /\ UNCHANGED <<run, pc, outcome, verdict, client_id>>
    BY <1>1, <1>3 DEF keysOfClient
  <2> QED
    BY <1>1, <2>1, FinishingKeeps
<1>4. CASE /\ Received.code = THANK_YOU_1604
           /\ Exit(IF verdict = VALID_CRC_900 THEN "success" ELSE "deleted", FALSE)
  <2>1. Marked /\ Exit("success", FALSE)
    BY <1>1, <1>4, HeadCredible DEF Credible
  <2> QED
    BY <1>1, <2>1, ExitKeepsStorage
<1>5. CASE (\E codes : Unrecognized(codes)) \/ WrongId(nul)
  BY <1>1, <1>5, BadAnswerKeeps
<1> QED
  BY <1>2, <1>3, <1>4, <1>5 DEF OnFinalAnswer

LEMMA ClientKeepsStorage ==
  ASSUME StorageOnly, TypeOK, StorageInv, NEW nul, ClientStep(nul), UNCHANGED serverVars
  PROVE  StorageInv'
<1>1. ASSUME ReadFails  PROVE StorageInv'
  <2>1. pc # "off" /\ link[run] # "open" /\ Leave("connection_failed", FALSE) /\ run' = run
    BY <1>1 DEF ReadFails, Waiting
  <2> QED
    BY <2>1, LeavingKeeps
<1> QED
  BY <1>1, ReconnectKeepsStorage, ReconnectAnswerKeepsStorage, RegistrationKeepsStorage,
     KeyMakingKeepsStorage, PacketKeepsStorage, CrcAnswerKeepsStorage, FinalAnswerKeepsStorage
     DEF ClientStep

LEMMA StartKeepsStorage ==
  ASSUME TypeOK, StorageInv, StartRun, up, UNCHANGED serverVars
  PROVE  StorageInv'
<1>1. /\ pc = "off" /\ run' = run + 1 /\ run \in Nat /\ run < MaxRuns /\ outcome' = "running"
      /\ pc' \in {"register", "reconnect"} /\ UNCHANGED <<stream, answers>>
      /\ link \in [Conns -> Links] /\ run + 1 \in Conns
      /\ link' = [link EXCEPT ![run + 1] = "open"]
  BY ConnectionAssumption DEF StartRun, TypeOK, ClientTypeOK, ConnectionTypeOK, Conns
<1>2. \A c \in Conns : (c > run + 1 => c > run) /\ c \in Nat
  BY <1>1 DEF Conns
<1>3. Apart'
  BY <1>1, <1>2, StoreUntouched DEF StorageInv, Apart
<1>4. Pending' = <<>> /\ Got' = <<>>
  BY <1>1 DEF StorageInv, Apart, Pending, Got
<1>5. pc' \notin Waiting /\ pc' # "off"
  BY <1>1 DEF Waiting
<1>6. Turns'
  BY <1>4, <1>5 DEF Turns, Ready
<1>7. Founded'
  <2>1. Len(Got') = 0 /\ 1..0 = {}
    BY <1>4
  <2>2. (\A i \in 1..Len(Got) : Credible(Got[i]))'
    BY <2>1
  <2> QED
    BY <1>1, <2>2 DEF Founded
<1> QED
  BY <1>3, <1>6, <1>7 DEF StorageInv

-----------------------------------------------------------------------------

LEMMA StorageInitially == Init => StorageInv
<1> SUFFICES ASSUME Init  PROVE StorageInv
  OBVIOUS
<1>1. /\ \A c \in Conns : stream[c] = <<>> /\ answers[c] = <<>> /\ link[c] = "idle"
      /\ pc = "off" /\ outcome = "none" /\ file = "absent" /\ up
  BY DEF Init, ConnectionInit
<1> QED
  BY <1>1 DEF StorageInv, Apart, Turns, Founded

(* While the server is down no connection is open, so nobody holds a key   *)
(* it might forget; what was marked valid is marked in the table.          *)
LEMMA RestartKeepsStorage ==
  ASSUME TypeOK, StorageInv, ServerRestart
  PROVE  StorageInv'
<1>1. /\ UNCHANGED <<stream, answers, link, run, pc, outcome, verdict, client_id, my_pair,
                     session_key, disk, table>>
      /\ file' = table.file /\ ~up /\ up'
  BY DEF ServerRestart, Restart, connectionVars, clientVars
<1>2. Apart' /\ Pending' = Pending /\ Got' = Got /\ Due' = Due
  BY <1>1 DEF StorageInv, Apart, Pending, Got, Due
<1>3. Turns'
  BY <1>1, <1>2 DEF StorageInv, Turns, Ready, Asked
<1>4. (IntactFile(disk)' <=> IntactFile(disk)) /\ (Marked => Marked')
  BY <1>1 DEF IntactFile, Marked
<1>5. pc # "off" => link[run] # "open"
  BY <1>1, RunningType DEF StorageInv, Apart
<1>6. pc # "off" => \A a : Credible(a) => Credible(a)'
  BY <1>1, <1>4, <1>5 DEF Credible
<1>7. Founded'
  BY <1>1, <1>2, <1>4, <1>5, <1>6 DEF StorageInv, Founded
<1> QED
  BY <1>2, <1>3, <1>7 DEF StorageInv

LEMMA StoragePreserved ==
  ASSUME StorageOnly, TypesAndRecords, StorageInv, [Next]_vars
  PROVE  StorageInv'
<1>0. TypeOK
  BY DEF TypesAndRecords
<1>1. CASE Start
  BY <1>0, <1>1, StartKeepsStorage DEF Start
<1>2. CASE Client
  BY <1>0, <1>2, ClientKeepsStorage DEF Client
<1>3. CASE ClientKilled
  BY <1>3, OnlyIo DEF ClientKilled, Kill
<1>4. CASE \E c \in Conns : Server(c)
  <2>1. (Ended \/ Attended) /\ UNCHANGED clientVars
    BY <1>4, ServerAttends DEF Server
  <2> QED
    BY <1>0, <2>1, EndedKeeps, AttendedKeeps
<1>5. CASE ServerRestart
  BY <1>0, <1>5, RestartKeepsStorage
<1>6. CASE UNCHANGED vars
  <2>1. UNCHANGED <<stream, answers, link, run, pc, outcome, verdict, client_id, my_pair,
                    session_key>> /\ UNCHANGED serverVars
    BY <1>6 DEF vars, connectionVars, clientVars
  <2>2. Apart' /\ Pending' = Pending /\ Got' = Got /\ Due' = Due
    BY <2>1, StoreUntouched DEF StorageInv, Apart, Pending, Got, Due
  <2>3. Turns'
    BY <2>1, <2>2 DEF StorageInv, Turns, Ready, Asked
  <2>4. Founded'
    BY <2>1, <2>2, StoreUntouched DEF StorageInv, Founded
  <2> QED
    BY <2>2, <2>3, <2>4 DEF StorageInv
<1> QED
  BY <1>1, <1>2, <1>3, <1>4, <1>5, <1>6 DEF Next, Finished

LEMMA StorageAlways ==
  ASSUME StorageOnly
  PROVE  Spec => [](TypeOK /\ StorageInv)
<1>1. Init => TypesAndRecords /\ StorageInv
  BY TypesInitially, StorageInitially
<1>2. TypesAndRecords /\ [Next]_vars => TypesAndRecords'
  BY TypesPreserved
<1>3. TypesAndRecords => TypeOK
  BY DEF TypesAndRecords
<1>4. TypesAndRecords /\ StorageInv /\ [Next]_vars => StorageInv'
  BY StoragePreserved
<1> QED
  BY <1>1, <1>2, <1>3, <1>4, PTL DEF Spec

\* Requests and answers of the current connection are those outstanding.
LEMMA TurnsInStep ==
  ASSUME StorageOnly, TypeOK, StorageInv
  PROVE  Lockstep
<1>1. ASSUME NEW c \in Conns, link[c] = "open"
      PROVE  Outstanding(c) = IF c = run /\ pc \in Waiting THEN 1 ELSE 0
  <2>1. c = run /\ pc # "off"
    BY <1>1 DEF StorageInv, Apart
  <2>2. Outstanding(c) = Cardinality(Calling) + Len(Got)
    BY <2>1 DEF Outstanding, Calling, Pending, Got
  <2>3. CASE pc \notin Waiting /\ Ready
    <3>1. Len(Pending) = 0 /\ 1..0 = {} /\ Len(Got) = 0
      BY <2>3 DEF Ready
    <3>2. Cardinality(Calling) = 0
      BY <3>1, NobodyCalls
    <3> QED
      BY <2>2, <2>3, <3>1, <3>2
  <2>4. CASE pc \in Waiting /\ Asked(Due)
    <3>1. Len(Pending) = 1 /\ Pending[1] = Due /\ Len(Got) = 0 /\ 1 \in 1..1 /\ 1..1 = {1}
      BY <2>4 DEF Asked
    <3>2. CallsForAnswer(Due)
      BY <2>4, DueCode
         DEF CallsForAnswer, Waiting, StorageOnly, REGISTERING_825, SEND_PUBLIC_KEY_826,
             RECONNECT_827, SEND_FILE_828, VALID_CRC_900, WRONG_CRC_TRY_AGAIN_901
    <3>3. Cardinality(Calling) = 1
      BY <3>1, <3>2, OneCalls
    <3> QED
      BY <2>1, <2>2, <2>4, <3>1, <3>3
  <2>5. CASE pc \in Waiting /\ Pending = <<>> /\ Len(Got) = 1
    <3>1. Len(Pending) = 0 /\ 1..0 = {}
      BY <2>5
    <3>2. Cardinality(Calling) = 0
      BY <3>1, NobodyCalls
    <3> QED
      BY <2>1, <2>2, <2>5, <3>2
  <2> QED
    BY <1>1, <2>1, <2>3, <2>4, <2>5 DEF StorageInv, Turns
<1> QED
  BY <1>1 DEF Lockstep

-----------------------------------------------------------------------------
(* Failing calls never make the server answer twice or not at all: for a   *)
(* file of one packet, client and server stay in step over any number of   *)
(* runs, and connections that end in a reset.                              *)
THEOREM InStepOverFailingStorage ==
  ASSUME StorageOnly
  PROVE  Spec => []Lockstep
<1>1. TypeOK /\ StorageInv => Lockstep
  BY TurnsInStep
<1> QED
  BY <1>1, StorageAlways, PTL

(* Whichever calls fail, a run that reports success has its file on the    *)
(* disk, whole and decrypted, over any number of runs, whatever mark or    *)
(* half-written file an earlier one left there.                            *)
THEOREM SuccessesAreIntact ==
  ASSUME StorageOnly
  PROVE  Spec => []SuccessIsIntact
<1>1. StorageInv => SuccessIsIntact
  BY DEF StorageInv, Founded, SuccessIsIntact
<1> QED
  BY <1>1, StorageAlways, PTL

(* What the_end reports over failing storage is what the server recorded,  *)
(* over any number of runs.                                                *)
THEOREM VerdictsAgreeOverFailingStorage ==
  ASSUME StorageOnly
  PROVE  Spec => []VerdictAgreement
<1>1. StorageInv => VerdictAgreement
  BY DEF StorageInv, Founded, Marked, VerdictAgreement
<1> QED
  BY <1>1, StorageAlways, PTL

(* The client encrypts with the server's newest AES key although a failing *)
(* set_aes_key leaves a key nobody was told, over any number of runs.      *)
THEOREM KeysAgreeOverFailingStorage ==
  ASSUME StorageOnly
  PROVE  Spec => []KeyAgreement
<1>1. StorageInv => KeyAgreement
  BY DEF StorageInv, Founded, KeyAgreement
<1> QED
  BY <1>1, StorageAlways, PTL
=============================================================================
