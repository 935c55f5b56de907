----------------------- MODULE TransferSession_proofs ------------------------
(***************************************************************************)
(* What holds of TransferSession for every number of packets, tries, runs  *)
(* and faults: its types, that a restart changes nothing as long as no call *)
(* of the server fails, and, for one run of the client, that what the      *)
(* client reports is what the server recorded.                             *)
(***************************************************************************)
EXTENDS TransferSession, SequenceTheorems, TLAPS

-----------------------------------------------------------------------------
(* Requests, answers and chunks have their types.                          *)

LEMMA RequestType ==
  ASSUME NEW code \in RequestCodes, NEW id \in Ids
  PROVE  Request(code, id) \in Requests
BY ProtocolAssumption DEF Request, Requests

LEMMA PublicKeyRequestType ==
  ASSUME NEW id \in Ids, NEW pair \in Int
  PROVE  PublicKeyRequest(id, pair) \in Requests
<1>1. Request(SEND_PUBLIC_KEY_826, id) \in Requests
  BY RequestType DEF RequestCodes
<1> QED
  BY <1>1 DEF PublicKeyRequest, Requests

LEMMA PacketRequestType ==
  ASSUME NEW id \in Ids, NEW packet \in 0..TotalPackets, NEW key \in Nat,
         NEW damaged \in BOOLEAN
  PROVE  PacketRequest(id, packet, key, damaged) \in Requests
<1>1. Request(SEND_FILE_828, id) \in Requests
  BY RequestType DEF RequestCodes
<1> QED
  BY <1>1 DEF PacketRequest, Requests

LEMMA AnswerType ==
  ASSUME NEW code \in AnswerCodes, NEW id \in Ids
  PROVE  /\ Answer(code, id) \in Answers
         /\ \A key \in Nat, pair \in Int :
               AesAnswer(code, id, key, pair) \in Answers
         /\ \A match \in BOOLEAN : CrcAnswer(id, match) \in Answers
<1>1. \A c \in AnswerCodes : Answer(c, id) \in Answers
  BY DEF Answer, Answers
<1>2. Answer(VALID_FILE_AND_CRC_1603, id) \in Answers
  BY <1>1 DEF AnswerCodes
<1> QED
  BY <1>1, <1>2 DEF AesAnswer, CrcAnswer, Answers

-----------------------------------------------------------------------------
(* The primitives of the server.                                           *)

(* What is left of a stream: an end of it, its first request perhaps cut.  *)
EndOf(s, t) ==
  /\ t \in Seq(Requests)
  /\ \E k \in 0..Len(s) :
       /\ Len(t) = Len(s) - k
       /\ \A i \in 1..Len(t) : t[i].code = s[k + i].code

LEMMA CutIsEnd ==
  ASSUME NEW s \in Seq(Requests), s # <<>>
  PROVE  /\ Cut(s) \in Seq(Requests)
         /\ Len(Cut(s)) = Len(s)
         /\ \A i \in 1..Len(s) : Cut(s)[i].code = s[i].code
<1> DEFINE h == [Head(s) EXCEPT !.cut = TRUE]
<1>1. Head(s) \in Requests /\ Tail(s) \in Seq(Requests)
  BY HeadTailProperties
<1>2. h \in Requests /\ h.code = Head(s).code
  BY <1>1 DEF Requests
<1>3. <<h>> \in Seq(Requests) /\ Len(<<h>>) = 1 /\ <<h>>[1] = h
  BY <1>2
<1>4. Cut(s) = <<h>> \o Tail(s)
  BY DEF Cut
<1> HIDE DEF h
<1>5. /\ <<h>> \o Tail(s) \in Seq(Requests)
      /\ Len(<<h>> \o Tail(s)) = 1 + Len(Tail(s))
      /\ \A i \in 1..Len(s) : (<<h>> \o Tail(s))[i] =
                                 IF i <= 1 THEN <<h>>[i] ELSE Tail(s)[i - 1]
  BY <1>1, <1>3, ConcatProperties
<1>6. \A i \in 1..Len(s) : i > 1 => Tail(s)[i - 1] = s[i]
  BY HeadTailProperties
<1> QED
  BY <1>1, <1>2, <1>3, <1>4, <1>5, <1>6, HeadTailProperties

LEMMA SuffixIsEnd ==
  ASSUME NEW s \in Seq(Requests), NEW i \in 1..(Len(s) + 1)
  PROVE  EndOf(s, Suffix(s, i))
<1>1. /\ Suffix(s, i) \in Seq(Requests)
      /\ Len(Suffix(s, i)) = Len(s) - (i - 1)
      /\ \A j \in 1..Len(Suffix(s, i)) : Suffix(s, i)[j] = s[(i - 1) + j]
  BY SubSeqProperties DEF Suffix
<1>2. i - 1 \in 0..Len(s)
  OBVIOUS
<1> QED
  BY <1>1, <1>2 DEF EndOf

LEMMA CutOfEnd ==
  ASSUME NEW s \in Seq(Requests), NEW t, EndOf(s, t), t # <<>>
  PROVE  EndOf(s, Cut(t))
<1>1. /\ t \in Seq(Requests) /\ Cut(t) \in Seq(Requests)
      /\ Len(Cut(t)) = Len(t)
      /\ \A i \in 1..Len(t) : Cut(t)[i].code = t[i].code
  BY CutIsEnd DEF EndOf
<1> QED
  BY <1>1 DEF EndOf

LEMMA EndOfEnd ==
  ASSUME NEW s \in Seq(Requests), NEW t, NEW u, EndOf(s, t), EndOf(t, u)
  PROVE  EndOf(s, u)
<1>1. PICK k \in 0..Len(s) : /\ Len(t) = Len(s) - k
                             /\ \A i \in 1..Len(t) : t[i].code = s[k + i].code
  BY DEF EndOf
<1>2. PICK l \in 0..Len(t) : /\ Len(u) = Len(t) - l
                             /\ \A i \in 1..Len(u) : u[i].code = t[l + i].code
  BY DEF EndOf
<1>3. u \in Seq(Requests) /\ Len(u) \in Nat /\ Len(s) \in Nat /\ Len(t) \in Nat
  BY DEF EndOf
<1>4. k + l \in 0..Len(s) /\ Len(u) = Len(s) - (k + l)
  BY <1>1, <1>2, <1>3
<1>5. \A i \in 1..Len(u) : u[i].code = s[(k + l) + i].code
  <2> TAKE i \in 1..Len(u)
  <2>1. l + i \in 1..Len(t) /\ k + (l + i) = (k + l) + i
    BY <1>1, <1>2, <1>3
  <2> QED
    BY <1>1, <1>2, <2>1
<1> QED
  BY <1>3, <1>4, <1>5 DEF EndOf

LEMMA TailIsEnd ==
  ASSUME NEW s \in Seq(Requests)
  PROVE  /\ EndOf(s, s)
         /\ EndOf(s, <<>>)
         /\ s # <<>> => EndOf(s, Tail(s))
<1>1. EndOf(s, s)
  <2>1. /\ 0 \in 0..Len(s) /\ Len(s) = Len(s) - 0
        /\ \A i \in 1..Len(s) : s[i].code = s[0 + i].code
    OBVIOUS
  <2> QED
    BY <2>1 DEF EndOf
<1>2. EndOf(s, <<>>)
  <2>1. Len(s) \in 0..Len(s) /\ Len(<<>>) = Len(s) - Len(s) /\ <<>> \in Seq(Requests)
    OBVIOUS
  <2> QED
    BY <2>1 DEF EndOf
<1>3. ASSUME s # <<>> PROVE EndOf(s, Tail(s))
  <2>1. /\ Tail(s) \in Seq(Requests) /\ Len(Tail(s)) = Len(s) - 1
        /\ \A i \in 1..Len(Tail(s)) : Tail(s)[i] = s[1 + i]
        /\ 1 \in 0..Len(s)
    BY <1>3, HeadTailProperties, EmptySeq
  <2> QED
    BY <2>1 DEF EndOf
<1> QED
  BY <1>1, <1>2, <1>3

LEMMA CleanedIsEnd ==
  ASSUME NEW s \in Seq(Requests), NEW n \in 0..MaxFaults,
         NEW d \in Cleaned(s, n)
  PROVE  EndOf(s, d[1]) /\ d[2] \in 0..MaxFaults
<1>1. CASE \E i \in 1..(Len(s) + 1) : d = <<Suffix(s, i), n>>
  BY <1>1, SuffixIsEnd
<1>2. CASE n > 0 /\ \E i \in 1..Len(s) : d = <<Cut(Suffix(s, i)), n - 1>>
  <2>1. PICK i \in 1..Len(s) : d = <<Cut(Suffix(s, i)), n - 1>>
    BY <1>2
  <2>2. EndOf(s, Suffix(s, i))
    BY SuffixIsEnd
  <2>3. Len(Suffix(s, i)) = Len(s) - i + 1
    BY SubSeqProperties DEF Suffix
  <2>4. Suffix(s, i) # <<>>
    BY <2>3
  <2>5. n - 1 \in 0..MaxFaults
    BY <1>2, ConnectionAssumption
  <2> QED
    BY <2>1, <2>2, <2>4, <2>5, CutOfEnd
<1> QED
  BY <1>1, <1>2 DEF Cleaned

-----------------------------------------------------------------------------
(* What every step of the server does to the connections: streams only     *)
(* lose requests, and at most one answer is added, to connection c.        *)

Sent(c, code) ==
  \/ answers' = answers
  \/ \E a \in Answers : /\ a.code = code
                        /\ answers' = [answers EXCEPT ![c] = Append(@, a)]

ServerEffect(c, code) ==
  /\ up' \in BOOLEAN
  /\ ConnectionTypeOK'
  /\ \A d \in Conns : EndOf(stream[d], stream'[d])
  /\ Sent(c, code)

LEMMA ExitEffect ==
  ASSUME ConnectionTypeOK, NEW c \in Conns, NEW code,
         ServerExit, faults' \in 0..MaxFaults
  PROVE  ServerEffect(c, code)
<1>1. \A d \in Conns : stream'[d] = <<>> /\ EndOf(stream[d], <<>>)
  BY TailIsEnd DEF ConnectionTypeOK, ServerExit
<1>2. ConnectionTypeOK'
  <2>1. stream' \in [Conns -> Seq(Requests)]
    BY EmptySeq DEF ServerExit
  <2>2. link' \in [Conns -> Links]
    BY DEF ServerExit, Links
  <2> QED
    BY <2>1, <2>2 DEF ConnectionTypeOK, ServerExit
<1> QED
  BY <1>1, <1>2 DEF ServerEffect, Sent, ServerExit

LEMMA RestEffect ==
  ASSUME ConnectionTypeOK, NEW c \in Conns, NEW rest, EndOf(stream[c], rest),
         stream' = [stream EXCEPT ![c] = rest]
  PROVE  /\ stream' \in [Conns -> Seq(Requests)]
         /\ \A d \in Conns : EndOf(stream[d], stream'[d])
<1>1. stream \in [Conns -> Seq(Requests)] /\ rest \in Seq(Requests)
  BY DEF ConnectionTypeOK, EndOf
<1>2. \A d \in Conns : EndOf(stream[d], stream[d])
  BY <1>1, TailIsEnd
<1> QED
  BY <1>1, <1>2

LEMMA SendEffect ==
  ASSUME ConnectionTypeOK, NEW c \in Conns, NEW rest, EndOf(stream[c], rest),
         NEW a \in Answers, up, Send(c, rest, a), faults' \in 0..MaxFaults
  PROVE  ServerEffect(c, a.code)
<1>1. CASE ServerExit
  BY <1>1, ExitEffect
<1>2. ASSUME stream' = [stream EXCEPT ![c] = rest],
             answers' = [answers EXCEPT ![c] = Append(@, a)],
             UNCHANGED <<up, link>>
      PROVE  ServerEffect(c, a.code)
  <2>1. answers' \in [Conns -> Seq(Answers)]
    BY <1>2, AppendProperties DEF ConnectionTypeOK
  <2> QED
    BY <1>2, <2>1, RestEffect DEF ServerEffect, Sent, ConnectionTypeOK
<1>3. ASSUME stream' = [stream EXCEPT ![c] = rest],
             link' = [link EXCEPT ![c] = "reset"],
             UNCHANGED <<up, answers>>
      PROVE  ServerEffect(c, a.code)
  <2>1. link' \in [Conns -> Links]
    BY <1>3 DEF ConnectionTypeOK, Links
  <2> QED
    BY <1>3, <2>1, RestEffect DEF ServerEffect, Sent, ConnectionTypeOK
<1> QED
  BY <1>1, <1>2, <1>3 DEF Send

LEMMA RestIsEnd ==
  ASSUME ConnectionTypeOK, NEW c \in Conns, stream[c] # <<>>,
         NEW split \in Splits
  PROVE  /\ EndOf(stream[c], Rest(c, split))
         /\ FaultsLeft(split) \in 0..MaxFaults
<1>1. stream[c] \in Seq(Requests) /\ faults \in 0..MaxFaults
  BY DEF ConnectionTypeOK
<1>2. EndOf(stream[c], Tail(stream[c])) /\ EndOf(stream[c], Cut(stream[c]))
  BY <1>1, TailIsEnd, CutOfEnd
<1>3. split => faults > 0
  BY DEF Splits, Fault
<1> QED
  BY <1>1, <1>2, <1>3, ConnectionAssumption DEF Rest, FaultsLeft

LEMMA ReplyEffect ==
  ASSUME ConnectionTypeOK, NEW c \in Conns, stream[c] # <<>>, up,
         NEW split \in Splits, NEW a \in Answers, Reply(c, split, a)
  PROVE  ServerEffect(c, a.code)
BY RestIsEnd, SendEffect DEF Reply

LEMMA NoAnswerEffect ==
  ASSUME ConnectionTypeOK, NEW c \in Conns, stream[c] # <<>>, up,
         NEW split \in Splits, NEW code, NoAnswer(c, split)
  PROVE  ServerEffect(c, code)
<1>1. faults' \in 0..MaxFaults
  BY RestIsEnd DEF NoAnswer
<1>2. /\ stream' \in [Conns -> Seq(Requests)]
      /\ \A d \in Conns : EndOf(stream[d], stream'[d])
  BY RestIsEnd, RestEffect DEF NoAnswer
<1> QED
  BY <1>1, <1>2 DEF ServerEffect, Sent, ConnectionTypeOK, NoAnswer

LEMMA RaiseEffect ==
  ASSUME ConnectionTypeOK, NEW c \in Conns, up,
         NEW rest, EndOf(stream[c], rest), NEW n \in 0..MaxFaults,
         NEW code \in BareAnswers, Raise(c, rest, n, code)
  PROVE  ServerEffect(c, code)
<1>1. PICK d \in Cleaned(rest, n) : Send(c, d[1], Answer(code, "none"))
                                    /\ faults' = d[2]
  BY DEF Raise
<1>2. rest \in Seq(Requests) /\ stream[c] \in Seq(Requests)
  BY DEF EndOf, ConnectionTypeOK
<1>3. EndOf(rest, d[1]) /\ faults' \in 0..MaxFaults
  BY <1>1, <1>2, CleanedIsEnd
<1>4. EndOf(stream[c], d[1])
  BY <1>2, <1>3, EndOfEnd
<1>5. Answer(code, "none") \in Answers /\ Answer(code, "none").code = code
  BY AnswerType DEF Answer, AnswerCodes, Ids
<1> QED
  BY <1>1, <1>3, <1>4, <1>5, SendEffect

LEMMA ErrorEffect ==
  ASSUME ConnectionTypeOK, NEW c \in Conns, stream[c] # <<>>, up,
         NEW split \in Splits, Error(c, split)
  PROVE  ServerEffect(c, GENERAL_ERROR_1607)
BY RestIsEnd, RaiseEffect DEF Error, BareAnswers

LEMMA IoErrorEffect ==
  ASSUME ConnectionTypeOK, NEW c \in Conns, stream[c] # <<>>, up,
         NEW split \in Splits, NEW code \in BareAnswers,
         IoError(c, split, code)
  PROVE  ServerEffect(c, code)
<1>1. FaultsLeft(split) - 1 \in 0..MaxFaults
  BY RestIsEnd, ConnectionAssumption DEF IoError
<1> QED
  BY <1>1, RestIsEnd, RaiseEffect DEF IoError

-----------------------------------------------------------------------------
(* Handler by handler: types, and which answer.                            *)

\* Neither the File object, nor its row, nor the file changes.
SameRecord == UNCHANGED <<file, disk, table.file>>

\* What the calls of sql.py make of the rows.
LEMMA RowType ==
  ASSUME ServerTypeOK
  PROVE  /\ table \in Rows
         /\ \A id \in Ids : /\ [table EXCEPT !.id = id] \in Rows
                            /\ [table EXCEPT !.id = id].file = table.file
         /\ \A row \in Rows : /\ Updated(row) \in Rows
                             /\ row.file = table.file
                                  => Updated(row).file = table.file
         /\ \A row \in Rows, pair \in Int, key \in Nat :
               /\ [row EXCEPT !.public_key = pair] \in Rows
               /\ [row EXCEPT !.public_key = pair].file = row.file
               /\ [row EXCEPT !.aes_key = key] \in Rows
               /\ [row EXCEPT !.aes_key = key].file = row.file
         /\ \A mark \in FileStates :
               /\ set_valid_crc(mark) \in Rows
               /\ set_valid_crc(mark).file
                    = IF table.file = "absent" THEN "absent" ELSE mark
         /\ add_file_db \in Rows /\ add_file_db.file = "unverified"
         /\ delete_file \in Rows /\ delete_file.file = "absent"
<1>1. table \in Rows
  BY DEF ServerTypeOK
<1>2. "absent" \in FileStates /\ "unverified" \in FileStates
  BY DEF FileStates
<1> QED
  BY <1>1, <1>2 DEF Rows, Updated, set_valid_crc, add_file_db, delete_file

ServerPart(c, codes) ==
  /\ ServerTypeOK'
  /\ \E code \in codes : ServerEffect(c, code)

Codes == {REGISTERING_DONE_1600, REGISTERING_FAILED_1601,
          GET_PUBLIC_KEY_SEND_AES_1602, VALID_FILE_AND_CRC_1603,
          VALID_RECONNECT_1605, INVALID_RECONNECT_1606, GENERAL_ERROR_1607}

LEMMA CodesFacts == Codes \subseteq AnswerCodes /\ BareAnswers \subseteq Codes
                    /\ THANK_YOU_1604 \in AnswerCodes
                    /\ THANK_YOU_1604 \notin Codes
BY DEF Codes, AnswerCodes, BareAnswers, REGISTERING_DONE_1600,
       REGISTERING_FAILED_1601, GET_PUBLIC_KEY_SEND_AES_1602,
       VALID_FILE_AND_CRC_1603, VALID_RECONNECT_1605, INVALID_RECONNECT_1606,
       GENERAL_ERROR_1607, THANK_YOU_1604

\* The header of a request is always there to be read.
LEMMA HeadType ==
  ASSUME ConnectionTypeOK, NEW c \in Conns, NEW codes, Readable(c, codes)
  PROVE  /\ stream[c] \in Seq(Requests) /\ stream[c] # <<>> /\ up
         /\ Head(stream[c]) \in Requests
         /\ Head(stream[c]).code \in codes
         /\ Head(stream[c]) = stream[c][1]
BY HeadTailProperties DEF Readable, ConnectionTypeOK

LEMMA ReadGarbageStep ==
  ASSUME TypeOK, NEW c \in Conns, ReadGarbage(c)
  PROVE  ServerPart(c, Codes)
<1>1. stream[c] \in Seq(Requests) /\ stream[c] # <<>> /\ faults \in 0..MaxFaults
  BY DEF ReadGarbage, TypeOK, ConnectionTypeOK
<1>2. ServerEffect(c, GENERAL_ERROR_1607)
  BY <1>1, TailIsEnd, RaiseEffect DEF ReadGarbage, BareAnswers, TypeOK
<1> QED
  BY <1>2 DEF ServerPart, ServerEffect, Codes, ReadGarbage, TypeOK,
              ServerTypeOK, storeVars

LEMMA ReadShortStep ==
  ASSUME TypeOK, NEW c \in Conns, ReadShort(c)
  PROVE  ServerPart(c, Codes)
<1>1. stream[c] \in Seq(Requests) /\ stream[c] # <<>>
  BY HeadType DEF ReadShort, TypeOK
<1>2. EndOf(stream[c], Cut(stream[c])) /\ faults - 1 \in 0..MaxFaults
  BY <1>1, TailIsEnd, CutOfEnd, ConnectionAssumption
     DEF ReadShort, Fault, TypeOK, ConnectionTypeOK
<1>3. PICK code \in BareAnswers : Raise(c, Cut(stream[c]), faults - 1, code)
  BY DEF ReadShort, BareAnswers
<1>4. ServerEffect(c, code)
  BY <1>2, <1>3, RaiseEffect DEF ReadShort, Readable, TypeOK
<1> QED
  BY <1>4, CodesFacts DEF ServerPart, ServerEffect, ReadShort, TypeOK,
              ServerTypeOK, storeVars

LEMMA RegistrationStep ==
  ASSUME TypeOK, NEW c \in Conns, registration_request_825(c)
  PROVE  ServerPart(c, Codes) /\ SameRecord
<1>1. /\ ConnectionTypeOK /\ stream[c] \in Seq(Requests) /\ stream[c] # <<>>
      /\ up
  BY HeadType DEF registration_request_825, TypeOK
<1>2. REGISTERING_FAILED_1601 \in BareAnswers
  BY DEF BareAnswers
<1>3. /\ Answer(REGISTERING_DONE_1600, "new") \in Answers
      /\ Answer(REGISTERING_DONE_1600, "stray") \in Answers
      /\ Answer(REGISTERING_DONE_1600, "new").code = REGISTERING_DONE_1600
      /\ Answer(REGISTERING_DONE_1600, "stray").code = REGISTERING_DONE_1600
  BY AnswerType, CodesFacts DEF Codes, Ids, Answer
<1>4. PICK split \in Splits :
        \/ /\ Raise(c, Rest(c, split), FaultsLeft(split), REGISTERING_FAILED_1601)
           /\ UNCHANGED storeVars
        \/ /\ registered' = "new" /\ nul_id' \in NulIds
           /\ table' = [table EXCEPT !.id = "new"]
           /\ Reply(c, split, Answer(REGISTERING_DONE_1600, "new"))
           /\ UNCHANGED <<public_key, aes_key, file, disk>>
        \/ /\ Reply(c, split, Answer(REGISTERING_DONE_1600, "stray"))
           /\ UNCHANGED storeVars
        \/ /\ IoError(c, split, REGISTERING_FAILED_1601)
           /\ \/ UNCHANGED <<registered, nul_id>>
              \/ registered' = "new" /\ nul_id' \in NulIds
           /\ UNCHANGED <<public_key, aes_key, file, disk, table>>
  BY DEF registration_request_825, storeVars
<1>5. \/ ServerEffect(c, REGISTERING_FAILED_1601)
      \/ ServerEffect(c, REGISTERING_DONE_1600)
  <2>1. /\ EndOf(stream[c], Rest(c, split))
        /\ FaultsLeft(split) \in 0..MaxFaults
    BY <1>1, RestIsEnd
  <2> QED
    BY <1>1, <1>2, <1>3, <1>4, <2>1, RaiseEffect, ReplyEffect, IoErrorEffect
<1>6. /\ registered' \in Ids /\ nul_id' \in BOOLEAN
      /\ UNCHANGED <<public_key, aes_key, file, disk>>
  BY <1>4, NulIdsAssumption DEF TypeOK, ServerTypeOK, storeVars, Ids
<1>7. table' \in Rows /\ table'.file = table.file
  <2>1. "new" \in Ids
    BY DEF Ids
  <2> QED
    BY <1>4, <2>1, RowType DEF TypeOK, storeVars
<1> QED
  BY <1>5, <1>6, <1>7, CodesFacts
     DEF SameRecord, ServerPart, ServerEffect, Codes, TypeOK, ServerTypeOK

LEMMA CreateSendAesStep ==
  ASSUME TypeOK, NEW c \in Conns, stream[c] # <<>>, up, NEW split \in Splits,
         NEW code \in AnswerCodes, NEW pair \in Int, NEW row \in Rows,
         row.file = table.file, create_send_aes(c, split, code, pair, row)
  PROVE  /\ ServerEffect(c, code) /\ aes_key' \in Nat
         /\ table' \in Rows /\ table'.file = table.file
<1>1. aes_key \in Nat /\ registered \in Ids /\ aes_key + 1 \in Nat
  BY DEF TypeOK, ServerTypeOK
<1>2. /\ AesAnswer(code, registered, aes_key + 1, pair) \in Answers
      /\ AesAnswer(code, registered, aes_key + 1, pair).code = code
  <2>1. Answer(code, registered) \in Answers
    BY <1>1, AnswerType
  <2>2. Answer(code, registered).code = code
    BY DEF Answer
  <2> QED
    BY <1>1, <2>1, <2>2, AnswerType DEF AesAnswer, Answers
<1>3. table' \in Rows /\ table'.file = table.file
  <2>1. ServerTypeOK
    BY DEF TypeOK
  <2>2. /\ [row EXCEPT !.aes_key = aes_key + 1] \in Rows
        /\ [row EXCEPT !.aes_key = aes_key + 1].file = table.file
    BY <1>1 DEF Rows
  <2> QED
    BY <2>1, <2>2 DEF Updated, ServerTypeOK, create_send_aes
<1> QED
  BY <1>1, <1>2, <1>3, ReplyEffect DEF create_send_aes, TypeOK

LEMMA ReconnectionStep ==
  ASSUME TypeOK, NEW c \in Conns, reconnection_request_827(c)
  PROVE  ServerPart(c, Codes) /\ SameRecord
<1>1. /\ ConnectionTypeOK /\ stream[c] \in Seq(Requests) /\ stream[c] # <<>>
      /\ up /\ Head(stream[c]) \in Requests
  BY HeadType DEF reconnection_request_827, TypeOK
<1>2. /\ Answer(INVALID_RECONNECT_1606, Head(stream[c]).id) \in Answers
      /\ Answer(INVALID_RECONNECT_1606, Head(stream[c]).id).code
           = INVALID_RECONNECT_1606
  <2>1. Head(stream[c]).id \in Ids
    BY <1>1 DEF Requests
  <2> QED
    BY <2>1, AnswerType, CodesFacts DEF Codes, Answer
<1>3. PICK split \in Splits :
        \/ Error(c, split) /\ UNCHANGED <<aes_key, table>>
        \/ /\ Reply(c, split, Answer(INVALID_RECONNECT_1606, Head(stream[c]).id))
           /\ UNCHANGED <<aes_key, table>>
        \/ create_send_aes(c, split, VALID_RECONNECT_1605, public_key, table)
        \/ /\ IoError(c, split, GENERAL_ERROR_1607)
           /\ aes_key' \in {aes_key, aes_key + 1}
           /\ UNCHANGED table
  BY DEF reconnection_request_827
<1>4. GENERAL_ERROR_1607 \in BareAnswers /\ VALID_RECONNECT_1605 \in AnswerCodes
      /\ public_key \in Int /\ aes_key \in Nat /\ table \in Rows
  BY DEF BareAnswers, AnswerCodes, TypeOK, ServerTypeOK
<1>5. /\ \/ ServerEffect(c, GENERAL_ERROR_1607)
         \/ ServerEffect(c, INVALID_RECONNECT_1606)
         \/ ServerEffect(c, VALID_RECONNECT_1605)
      /\ aes_key' \in Nat /\ table' \in Rows /\ table'.file = table.file
  BY <1>1, <1>2, <1>3, <1>4, ErrorEffect, ReplyEffect, CreateSendAesStep,
     IoErrorEffect
<1> QED
  BY <1>5 DEF reconnection_request_827, SameRecord, ServerPart, ServerEffect, Codes,
              TypeOK, ServerTypeOK

LEMMA PublicKeyStep ==
  ASSUME TypeOK, NEW c \in Conns, send_public_key_request_826(c)
  PROVE  ServerPart(c, Codes) /\ SameRecord
<1>1. /\ ConnectionTypeOK /\ stream[c] \in Seq(Requests) /\ stream[c] # <<>>
      /\ up /\ Head(stream[c]) \in Requests
  BY HeadType DEF send_public_key_request_826, TypeOK
<1> DEFINE pair(split) == IF split THEN -1 ELSE Head(stream[c]).pair
           row(split) == Updated([table EXCEPT !.public_key = pair(split)])
<1>2. PICK split \in Splits :
        \/ Error(c, split) /\ UNCHANGED <<public_key, aes_key, table>>
        \/ /\ public_key' = pair(split)
           /\ create_send_aes(c, split, GET_PUBLIC_KEY_SEND_AES_1602,
                              pair(split), row(split))
        \/ /\ public_key' = pair(split) /\ aes_key' = aes_key + 1
           /\ table' = Updated([row(split) EXCEPT !.aes_key = aes_key + 1])
           /\ Error(c, split)
        \/ /\ IoError(c, split, GENERAL_ERROR_1607)
           /\ public_key' = pair(split)
           /\ aes_key' \in {aes_key, aes_key + 1}
           /\ table' \in {table, row(split)}
  BY DEF send_public_key_request_826
<1>3. /\ GENERAL_ERROR_1607 \in BareAnswers
      /\ GET_PUBLIC_KEY_SEND_AES_1602 \in AnswerCodes
      /\ public_key \in Int /\ aes_key \in Nat /\ Head(stream[c]).pair \in Int
      /\ table \in Rows /\ aes_key + 1 \in Nat
  BY <1>1 DEF BareAnswers, AnswerCodes, TypeOK, ServerTypeOK, Requests
<1>4. pair(split) \in Int
  BY <1>3
<1> HIDE DEF pair
<1>5. row(split) \in Rows /\ row(split).file = table.file
  <2>1. ServerTypeOK
    BY DEF TypeOK
  <2>2. /\ [table EXCEPT !.public_key = pair(split)] \in Rows
        /\ [table EXCEPT !.public_key = pair(split)].file = table.file
    BY <1>3, <1>4 DEF Rows
  <2> QED
    BY <2>1, <2>2 DEF Updated, ServerTypeOK
<1> HIDE DEF row
<1>6. /\ Updated([row(split) EXCEPT !.aes_key = aes_key + 1]) \in Rows
      /\ Updated([row(split) EXCEPT !.aes_key = aes_key + 1]).file = table.file
  <2>1. ServerTypeOK
    BY DEF TypeOK
  <2>2. /\ [row(split) EXCEPT !.aes_key = aes_key + 1] \in Rows
        /\ [row(split) EXCEPT !.aes_key = aes_key + 1].file = table.file
    BY <1>3, <1>5 DEF Rows
  <2> QED
    BY <2>1, <2>2 DEF Updated, ServerTypeOK
<1>7. /\ \/ ServerEffect(c, GENERAL_ERROR_1607)
         \/ ServerEffect(c, GET_PUBLIC_KEY_SEND_AES_1602)
      /\ aes_key' \in Nat /\ public_key' \in Int
      /\ table' \in Rows /\ table'.file = table.file
  BY <1>1, <1>2, <1>3, <1>4, <1>5, <1>6, ErrorEffect, CreateSendAesStep,
     IoErrorEffect
<1> QED
  BY <1>7 DEF send_public_key_request_826, SameRecord, ServerPart,
              ServerEffect, Codes, TypeOK, ServerTypeOK

LEMMA WrittenType ==
  ASSUME TypeOK, NEW r \in Requests, NEW short \in BOOLEAN
  PROVE  Written(r, short) \in Seq(Chunks) /\ Written(r, short) # <<>>
<1>1. Chunk(r, short) \in Chunks
  BY DEF Chunk, Chunks, Requests
<1>2. disk \in Seq(Chunks)
  BY DEF TypeOK, ServerTypeOK
<1> QED
  BY <1>1, <1>2, AppendProperties DEF Written

LEMMA DecryptedType ==
  ASSUME NEW content \in Seq(Chunks)
  PROVE  /\ Decrypted(content) \in Seq(Chunks)
         /\ content # <<>> => Decrypted(content) # <<>>
<1>1. /\ Len(content) \in Nat /\ DOMAIN content = 1..Len(content)
      /\ content \in [1..Len(content) -> Chunks]
  BY LenProperties
<1>2. Decrypted(content) \in [1..Len(content) -> Chunks]
  BY <1>1 DEF Decrypted, Chunks
<1>3. Decrypted(content) \in Seq(Chunks)
  BY <1>1, <1>2, SeqDef
<1>4. Len(Decrypted(content)) = Len(content)
  BY <1>1, <1>2, <1>3, LenProperties
<1> QED
  BY <1>3, <1>4, <1>1, EmptySeq

LEMMA LastPacketStep ==
  ASSUME TypeOK, NEW c \in Conns, stream[c] # <<>>, up, NEW split \in Splits,
         NEW content \in Seq(Chunks), content # <<>>,
         last_packet(c, split, content)
  PROVE  /\ \E code \in Codes : ServerEffect(c, code)
         /\ disk' \in Seq(Chunks) /\ disk' # <<>>
<1>1. \A match \in BOOLEAN : /\ CrcAnswer(registered, match) \in Answers
                             /\ CrcAnswer(registered, match).code
                                  = VALID_FILE_AND_CRC_1603
  <2>1. /\ Answer(VALID_FILE_AND_CRC_1603, registered) \in Answers
        /\ \A match \in BOOLEAN : CrcAnswer(registered, match) \in Answers
    BY AnswerType, CodesFacts DEF Codes, TypeOK, ServerTypeOK
  <2>2. Answer(VALID_FILE_AND_CRC_1603, registered).code
          = VALID_FILE_AND_CRC_1603
    BY DEF Answer
  <2> QED
    BY <2>1, <2>2 DEF CrcAnswer, Answers
<1>2. \/ /\ disk' = Decrypted(content)
         /\ \/ Reply(c, split, CrcAnswer(registered, TRUE))
            \/ Reply(c, split, CrcAnswer(registered, FALSE))
      \/ disk' \in {content, Decrypted(content)} /\ Error(c, split)
  BY DEF last_packet
<1>3. \/ ServerEffect(c, VALID_FILE_AND_CRC_1603)
      \/ ServerEffect(c, GENERAL_ERROR_1607)
  BY <1>1, <1>2, ReplyEffect, ErrorEffect DEF TypeOK
<1> QED
  BY <1>2, <1>3, DecryptedType DEF Codes

(* 828: the client is not thanked for it; what is listed afterwards was    *)
(* listed before or has just been written.                                 *)
LEMMA SendFileStep ==
  ASSUME TypeOK, NEW c \in Conns, send_file_request_828(c)
  PROVE  /\ ServerPart(c, Codes)
         /\ disk' # <<>> \/ SameRecord
         /\ \/ UNCHANGED <<file, table>>
            \/ /\ file' = Recorded(Head(stream[c]))
               /\ \/ table' = RecordedRow(Head(stream[c]))
                  \/ UNCHANGED table /\ file # "absent" /\ "io" \in FaultKinds
<1> DEFINE r == Head(stream[c])
<1>1. /\ ConnectionTypeOK /\ stream[c] \in Seq(Requests) /\ stream[c] # <<>>
      /\ up /\ r \in Requests
  BY HeadType DEF send_file_request_828, TypeOK
<1>2. PICK split \in Splits :
        \/ /\ Error(c, split) \/ NoAnswer(c, split)
           /\ UNCHANGED <<file, disk, table>>
        \/ /\ disk' = Written(r, split) /\ Error(c, split)
           /\ UNCHANGED <<file, table>>
        \/ /\ file' = Recorded(r) /\ table' = RecordedRow(r)
           /\ disk' = Written(r, split)
           /\ NoAnswer(c, split)
        \/ /\ file' = Recorded(r) /\ table' = RecordedRow(r)
           /\ last_packet(c, split, Written(r, split))
        \/ /\ IoError(c, split, GENERAL_ERROR_1607)
           /\ \/ /\ disk' \in {disk, Written(r, TRUE), Written(r, split)}
                 /\ UNCHANGED <<file, table>>
              \/ /\ file # "absent" /\ disk' = Written(r, split)
                 /\ file' = Recorded(r) /\ UNCHANGED table
              \/ /\ disk' \in {Written(r, split), Torn(r)}
                 /\ file' = Recorded(r) /\ table' = RecordedRow(r)
  BY DEF send_file_request_828
<1>3. split \in BOOLEAN /\ GENERAL_ERROR_1607 \in BareAnswers
  BY DEF Splits, BareAnswers
<1>4. /\ \A short \in BOOLEAN : /\ Written(r, short) \in Seq(Chunks)
                                /\ Written(r, short) # <<>>
      /\ Torn(r) \in Seq(Chunks) /\ Torn(r) # <<>>
  <2>1. PICK chunk \in Chunks : chunk = Chunk(r, TRUE)
    BY <1>1 DEF Chunk, Chunks, Requests
  <2>2. <<chunk>> \in Seq(Chunks) /\ Len(<<chunk>>) = 1
    OBVIOUS
  <2>3. Torn(r) \in Seq(Chunks) /\ Torn(r) # <<>>
    BY <2>1, <2>2 DEF Torn
  <2> QED
    BY <1>1, <2>3, WrittenType
<1>5. Recorded(r) \in FileStates /\ RecordedRow(r) \in Rows
  <2>1. "unverified" \in FileStates
    BY DEF FileStates
  <2> QED
    BY <2>1, RowType DEF Recorded, RecordedRow, TypeOK, ServerTypeOK
<1>6. IoError(c, split, GENERAL_ERROR_1607) => "io" \in FaultKinds
  BY DEF IoError, Fault
<1> HIDE DEF r
<1>7. \E code \in Codes : ServerEffect(c, code)
  <2>1. CASE Error(c, split)
    BY <1>1, <2>1, ErrorEffect DEF Codes
  <2>2. CASE NoAnswer(c, split)
    BY <1>1, <2>2, NoAnswerEffect DEF Codes
  <2>3. CASE last_packet(c, split, Written(r, split))
    BY <1>1, <1>3, <1>4, <2>3, LastPacketStep
  <2>4. CASE IoError(c, split, GENERAL_ERROR_1607)
    BY <1>1, <1>3, <2>4, IoErrorEffect DEF Codes
  <2> QED
    BY <1>2, <2>1, <2>2, <2>3, <2>4
<1>8. disk' \in Seq(Chunks) /\ (disk' # <<>> \/ UNCHANGED <<file, disk, table>>)
  <2>1. CASE last_packet(c, split, Written(r, split))
    BY <1>1, <1>3, <1>4, <2>1, LastPacketStep
  <2> QED
    BY <1>2, <1>3, <1>4, <2>1 DEF TypeOK, ServerTypeOK
<1>9. \/ UNCHANGED <<file, table>>
      \/ /\ file' = Recorded(r)
         /\ \/ table' = RecordedRow(r)
            \/ UNCHANGED table /\ file # "absent" /\ "io" \in FaultKinds
  BY <1>2, <1>6
<1>10. file' \in FileStates /\ table' \in Rows
  BY <1>5, <1>9 DEF TypeOK, ServerTypeOK
<1> QED
  BY <1>7, <1>8, <1>9, <1>10 DEF r, send_file_request_828, SameRecord,
     ServerPart, ServerEffect, TypeOK, ServerTypeOK

\* What 900 and 902 make of a listed file, object and row.
Kept(code)    == code = VALID_CRC_900 /\ file' = "verified"
Dropped(code) == code = WRONG_CRC_4TH_902 /\ file' = "absent" /\ disk' = <<>>

(* 900, 901 and 902: either nothing changes that the client will hear of,  *)
(* or the file is settled as the request says and the client is thanked.   *)
LEMMA CrcResponseStep ==
  ASSUME TypeOK, NEW c \in Conns, crc_response_900_901_902(c)
  PROVE  LET code == Head(stream[c]).code
         IN  /\ ServerTypeOK'
             /\ \/ /\ \E a \in Codes : ServerEffect(c, a)
                   /\ UNCHANGED table
                   /\ \/ UNCHANGED <<file, disk>>
                      \/ /\ file = "unverified" /\ "io" \in FaultKinds
                         /\ (Kept(code) /\ UNCHANGED disk) \/ Dropped(code)
                \/ /\ ServerEffect(c, THANK_YOU_1604)
                   /\ file = "unverified"
                   /\ \/ /\ Kept(code) /\ UNCHANGED disk
                         /\ table' = set_valid_crc("verified")
                      \/ Dropped(code) /\ table' = delete_file
<1> DEFINE code == Head(stream[c]).code
<1>1. /\ ConnectionTypeOK /\ stream[c] \in Seq(Requests) /\ stream[c] # <<>>
      /\ up /\ code \in CrcCodes
  BY HeadType DEF crc_response_900_901_902, TypeOK
<1>2. /\ Answer(THANK_YOU_1604, registered) \in Answers
      /\ Answer(THANK_YOU_1604, registered).code = THANK_YOU_1604
  BY AnswerType, CodesFacts DEF Answer, TypeOK, ServerTypeOK
<1>3. PICK split \in Splits :
        \/ Error(c, split) /\ UNCHANGED <<file, disk, table>>
        \/ /\ file = "unverified" /\ Kept(code) /\ UNCHANGED disk
           /\ table' = set_valid_crc("verified")
           /\ Reply(c, split, Answer(THANK_YOU_1604, registered))
        \/ NoAnswer(c, split) /\ UNCHANGED <<file, disk, table>>
        \/ /\ file = "unverified" /\ Dropped(code)
           /\ table' = delete_file
           /\ Reply(c, split, Answer(THANK_YOU_1604, registered))
        \/ /\ file = "unverified" /\ UNCHANGED table
           /\ IoError(c, split, GENERAL_ERROR_1607)
           /\ \/ UNCHANGED <<file, disk>>
              \/ Kept(code) /\ UNCHANGED disk
              \/ Dropped(code)
  BY DEF crc_response_900_901_902, HalfDone, Removed, Kept, Dropped
<1>4. GENERAL_ERROR_1607 \in BareAnswers
  BY DEF BareAnswers
<1>5. /\ file' \in FileStates /\ disk' \in Seq(Chunks) /\ table' \in Rows
  <2>1. "verified" \in FileStates /\ "absent" \in FileStates
    BY DEF FileStates
  <2> QED
    BY <1>3, <2>1, EmptySeq, RowType
       DEF TypeOK, ServerTypeOK, Kept, Dropped
<1>6. up' \in BOOLEAN => ServerTypeOK'
  BY <1>5 DEF crc_response_900_901_902, TypeOK, ServerTypeOK
<1>7. CASE Error(c, split) /\ UNCHANGED <<file, disk, table>>
  BY <1>1, <1>6, <1>7, ErrorEffect DEF ServerEffect, Codes
<1>8. CASE NoAnswer(c, split) /\ UNCHANGED <<file, disk, table>>
  BY <1>1, <1>6, <1>8, NoAnswerEffect DEF ServerEffect, Codes
<1>9. CASE /\ file = "unverified" /\ UNCHANGED table
           /\ IoError(c, split, GENERAL_ERROR_1607)
           /\ \/ UNCHANGED <<file, disk>>
              \/ Kept(code) /\ UNCHANGED disk
              \/ Dropped(code)
  <2>1. "io" \in FaultKinds
    BY <1>9 DEF IoError, Fault
  <2>2. \E a \in Codes : ServerEffect(c, a)
    BY <1>1, <1>4, <1>9, IoErrorEffect DEF Codes
  <2> QED
    BY <1>6, <1>9, <2>1, <2>2 DEF ServerEffect
<1>10. CASE /\ Reply(c, split, Answer(THANK_YOU_1604, registered))
            /\ file = "unverified"
            /\ \/ /\ Kept(code) /\ UNCHANGED disk
                  /\ table' = set_valid_crc("verified")
               \/ Dropped(code) /\ table' = delete_file
  <2>1. ServerEffect(c, THANK_YOU_1604)
    BY <1>1, <1>2, <1>10, ReplyEffect
  <2> QED
    BY <1>6, <1>10, <2>1 DEF ServerEffect
<1> QED
  BY <1>3, <1>7, <1>8, <1>9, <1>10

LEMMA OtherServerStep ==
  ASSUME TypeOK, NEW c \in Conns, EndOfStream(c) \/ ReadReset(c)
  PROVE  ServerPart(c, Codes) /\ UNCHANGED storeVars
<1>1. CASE EndOfStream(c)
  <2>1. \A d \in Conns : EndOf(stream[d], stream[d])
    BY TailIsEnd DEF TypeOK, ConnectionTypeOK
  <2>2. ConnectionTypeOK'
    BY <1>1 DEF EndOfStream, TypeOK, ConnectionTypeOK, Links
  <2> QED
    BY <1>1, <2>1, <2>2 DEF EndOfStream, serverVars, storeVars, ServerPart,
       ServerEffect, Sent, Codes, TypeOK, ServerTypeOK
<1>2. CASE ReadReset(c)
  <2>1. ServerEffect(c, GENERAL_ERROR_1607)
    BY <1>2, ExitEffect DEF ReadReset, TypeOK, ConnectionTypeOK
  <2> QED
    BY <1>2, <2>1 DEF ReadReset, storeVars, ServerPart, ServerEffect, Codes,
                      TypeOK, ServerTypeOK
<1> QED
  BY <1>1, <1>2

LEMMA ServerStepTypes ==
  ASSUME TypeOK, NEW c \in Conns, ServerStep(c)
  PROVE  ConnectionTypeOK' /\ ServerTypeOK'
<1>1. ASSUME ServerPart(c, Codes)
      PROVE  ConnectionTypeOK' /\ ServerTypeOK'
  BY <1>1 DEF ServerPart, ServerEffect
<1> QED
  BY <1>1, ReadGarbageStep, ReadShortStep, RegistrationStep, ReconnectionStep,
     PublicKeyStep, SendFileStep, CrcResponseStep, OtherServerStep
     DEF ServerStep, ServerEffect

-----------------------------------------------------------------------------
(* The lists and the rows. A client with a row is listed under its id, and *)
(* a listed file has a row, whatever fails; as long as nothing fails they  *)
(* hold the same.                                                          *)

RowsFit ==
  /\ table.id # "none" => registered = table.id
  /\ file # "absent" => table.file # "absent"
  /\ "io" \notin FaultKinds => RestartReadsBack

LEMMA SameStore ==
  ASSUME RowsFit, UNCHANGED storeVars
  PROVE  RowsFit'
BY DEF RowsFit, RestartReadsBack, storeVars

LEMMA RegistrationRows ==
  ASSUME TypeOK, RowsFit, NEW c \in Conns, registration_request_825(c)
  PROVE  RowsFit'
<1>1. /\ UNCHANGED <<public_key, aes_key, file, disk>>
      /\ \/ UNCHANGED <<registered, table>>
         \/ /\ registered = "none" /\ registered' = "new"
            /\ \/ table' = [table EXCEPT !.id = "new"]
               \/ UNCHANGED table /\ "io" \in FaultKinds
  BY DEF registration_request_825, NameTaken, IoError, Fault
<1> QED
  BY <1>1 DEF RowsFit, RestartReadsBack, TypeOK, ServerTypeOK, Rows, Ids

LEMMA UpdatedRow ==
  ASSUME TypeOK, RowsFit, NEW row \in Rows,
         row.id = table.id, row.file = table.file
  PROVE  /\ Updated(row).id = table.id /\ Updated(row).file = table.file
         /\ Updated(row) \in Rows
         /\ "io" \notin FaultKinds /\ registered # "none" => Updated(row) = row
BY DEF Updated, RowsFit, RestartReadsBack, TypeOK, ServerTypeOK

LEMMA ReconnectionRows ==
  ASSUME TypeOK, RowsFit, NEW c \in Conns, reconnection_request_827(c)
  PROVE  RowsFit'
<1> DEFINE row == [table EXCEPT !.aes_key = aes_key + 1]
<1>1. /\ UNCHANGED <<registered, public_key, file, disk>>
      /\ \/ UNCHANGED <<aes_key, table>>
         \/ /\ registered # "none"
            /\ aes_key' = aes_key + 1 /\ table' = Updated(row)
         \/ UNCHANGED table /\ "io" \in FaultKinds
  BY DEF reconnection_request_827, create_send_aes, IdMatches, IoError, Fault
<1>2. table \in Rows /\ aes_key \in Nat
  BY DEF TypeOK, ServerTypeOK
<1>3. row \in Rows /\ row.id = table.id /\ row.file = table.file
  BY <1>2 DEF Rows
<1>4. /\ Updated(row).id = table.id /\ Updated(row).file = table.file
      /\ "io" \notin FaultKinds /\ registered # "none" => Updated(row) = row
  BY <1>3, UpdatedRow
<1> HIDE DEF row
<1>5. CASE UNCHANGED <<aes_key, table>>
  BY <1>1, <1>5 DEF RowsFit, RestartReadsBack
<1>6. CASE UNCHANGED table /\ "io" \in FaultKinds
  BY <1>1, <1>6 DEF RowsFit
<1>7. CASE /\ registered # "none"
           /\ aes_key' = aes_key + 1 /\ table' = Updated(row)
  <2>1. CASE "io" \in FaultKinds
    BY <1>1, <1>4, <1>7, <2>1 DEF RowsFit
  <2>2. CASE "io" \notin FaultKinds
    <3>1. table' = [table EXCEPT !.aes_key = aes_key + 1]
      BY <1>4, <1>7, <2>2 DEF row
    <3> QED
      BY <1>1, <1>2, <1>7, <2>2, <3>1 DEF RowsFit, RestartReadsBack, Rows
  <2> QED
    BY <2>1, <2>2
<1> QED
  BY <1>1, <1>5, <1>6, <1>7

LEMMA PublicKeyRows ==
  ASSUME TypeOK, RowsFit, NEW c \in Conns, send_public_key_request_826(c)
  PROVE  RowsFit'
<1> DEFINE pair(split) == IF split THEN -1 ELSE Head(stream[c]).pair
           first(split) == [table EXCEPT !.public_key = pair(split)]
           then(split) == [Updated(first(split)) EXCEPT !.aes_key = aes_key + 1]
<1>1. UNCHANGED <<registered, file, disk>>
  BY DEF send_public_key_request_826
<1>2. PICK split \in Splits :
        \/ UNCHANGED <<public_key, aes_key, table>>
        \/ /\ registered # "none"
           /\ public_key' = pair(split) /\ aes_key' = aes_key + 1
           /\ table' = Updated(then(split))
        \/ "io" \in FaultKinds /\ table' \in {table, Updated(first(split))}
  BY DEF send_public_key_request_826, create_send_aes, IdMatches, IoError, Fault
<1>3. /\ table \in Rows /\ aes_key \in Nat /\ aes_key + 1 \in Nat
      /\ pair(split) \in Int
  BY HeadType
     DEF TypeOK, ServerTypeOK, send_public_key_request_826, Requests
<1> HIDE DEF pair
<1>4. /\ first(split) \in Rows /\ first(split).id = table.id
      /\ first(split).file = table.file
  BY <1>3 DEF Rows
<1>5. /\ Updated(first(split)) \in Rows
      /\ Updated(first(split)).id = table.id
      /\ Updated(first(split)).file = table.file
      /\ "io" \notin FaultKinds /\ registered # "none"
           => Updated(first(split)) = first(split)
  BY <1>4, UpdatedRow
<1>6. /\ then(split) \in Rows /\ then(split).id = table.id
      /\ then(split).file = table.file
  BY <1>3, <1>5 DEF Rows
<1>7. /\ Updated(then(split)).id = table.id
      /\ Updated(then(split)).file = table.file
      /\ "io" \notin FaultKinds /\ registered # "none"
           => Updated(then(split)) = then(split)
  BY <1>6, UpdatedRow
<1>8. CASE UNCHANGED <<public_key, aes_key, table>>
  BY <1>1, <1>8 DEF RowsFit, RestartReadsBack
<1>9. CASE "io" \in FaultKinds /\ table' \in {table, Updated(first(split))}
  BY <1>1, <1>5, <1>9 DEF RowsFit
<1>10. CASE /\ registered # "none"
            /\ public_key' = pair(split) /\ aes_key' = aes_key + 1
            /\ table' = Updated(then(split))
  <2>1. CASE "io" \in FaultKinds
    BY <1>1, <1>7, <1>10, <2>1 DEF RowsFit
  <2>2. CASE "io" \notin FaultKinds
    <3>1. table' = [first(split) EXCEPT !.aes_key = aes_key + 1]
      BY <1>5, <1>7, <1>10, <2>2
    <3>2. /\ table = [id |-> registered, public_key |-> public_key,
                      aes_key |-> aes_key, file |-> file]
          /\ table.file # "absent" => disk # <<>>
      BY <2>2 DEF RowsFit, RestartReadsBack
    <3>3. table' = [id |-> registered, public_key |-> pair(split),
                    aes_key |-> aes_key + 1, file |-> file]
      BY <3>1, <3>2 DEF first
    <3> HIDE DEF first, then
    <3> QED
      BY <1>1, <1>10, <2>2, <3>2, <3>3 DEF RowsFit, RestartReadsBack
  <2> QED
    BY <2>1, <2>2
<1> QED
  BY <1>2, <1>8, <1>9, <1>10

LEMMA SendFileRows ==
  ASSUME TypeOK, RowsFit, NEW c \in Conns, send_file_request_828(c)
  PROVE  RowsFit'
<1> DEFINE r == Head(stream[c])
<1>1. UNCHANGED <<registered, public_key, aes_key>>
  BY DEF send_file_request_828
<1>2. /\ disk' # <<>> \/ SameRecord
      /\ \/ UNCHANGED <<file, table>>
         \/ /\ file' = Recorded(r)
            /\ \/ table' = RecordedRow(r)
               \/ UNCHANGED table /\ file # "absent" /\ "io" \in FaultKinds
  BY SendFileStep
<1>3. table \in Rows /\ file \in FileStates
  BY DEF TypeOK, ServerTypeOK
<1> HIDE DEF r
<1>4. CASE UNCHANGED <<file, table>>
  BY <1>1, <1>2, <1>4 DEF RowsFit, RestartReadsBack, SameRecord
<1>5. CASE /\ file' = Recorded(r)
           /\ UNCHANGED table /\ file # "absent" /\ "io" \in FaultKinds
  BY <1>1, <1>5 DEF RowsFit, Recorded
<1>6. CASE file' = Recorded(r) /\ table' = RecordedRow(r)
  <2>1. /\ table'.id = table.id
        /\ table'.public_key = table.public_key
        /\ table'.aes_key = table.aes_key
        /\ table'.file = IF r.packet # 1 THEN table.file
                         ELSE IF file # "absent" /\ table.file = "absent"
                         THEN "absent" ELSE "unverified"
        /\ table' \in Rows
    BY <1>3, <1>6 DEF RecordedRow, add_file_db, set_valid_crc, Rows, FileStates
  <2>2. file' = IF r.packet # 1 THEN file ELSE "unverified"
    BY <1>6 DEF Recorded
  <2>3. ASSUME "io" \notin FaultKinds PROVE RestartReadsBack'
    BY <1>1, <1>2, <2>1, <2>2, <2>3
       DEF RowsFit, RestartReadsBack, SameRecord, Rows
  <2> QED
    BY <1>1, <2>1, <2>2, <2>3 DEF RowsFit
<1> QED
  BY <1>2, <1>4, <1>5, <1>6

LEMMA CrcResponseRows ==
  ASSUME TypeOK, RowsFit, NEW c \in Conns, crc_response_900_901_902(c)
  PROVE  RowsFit'
<1>1. UNCHANGED <<registered, public_key, aes_key>>
  BY DEF crc_response_900_901_902
<1>2. \/ /\ UNCHANGED table
         /\ \/ UNCHANGED <<file, disk>>
            \/ file = "unverified" /\ "io" \in FaultKinds
      \/ /\ file = "unverified" /\ file' = "verified" /\ UNCHANGED disk
         /\ table' = set_valid_crc("verified")
      \/ file' = "absent" /\ table' = delete_file
  BY CrcResponseStep DEF Kept, Dropped
<1>3. table \in Rows /\ file \in FileStates
  BY DEF TypeOK, ServerTypeOK
<1>4. CASE /\ UNCHANGED table
           /\ \/ UNCHANGED <<file, disk>>
              \/ file = "unverified" /\ "io" \in FaultKinds
  BY <1>1, <1>4 DEF RowsFit, RestartReadsBack
<1>5. CASE /\ file = "unverified" /\ file' = "verified" /\ UNCHANGED disk
           /\ table' = set_valid_crc("verified")
  BY <1>1, <1>3, <1>5 DEF RowsFit, RestartReadsBack, set_valid_crc, Rows
<1>6. CASE file' = "absent" /\ table' = delete_file
  BY <1>1, <1>3, <1>6 DEF RowsFit, RestartReadsBack, delete_file, Rows
<1> QED
  BY <1>2, <1>4, <1>5, <1>6

LEMMA ServerStepRows ==
  ASSUME TypeOK, RowsFit, NEW c \in Conns, ServerStep(c)
  PROVE  RowsFit'
BY RegistrationRows, ReconnectionRows, PublicKeyRows, SendFileRows,
   CrcResponseRows, OtherServerStep, SameStore
   DEF ServerStep, ReadGarbage, ReadShort

-----------------------------------------------------------------------------
(* The client.                                                             *)

ClientPart == ConnectionTypeOK' /\ ClientTypeOK'

\* A client that runs has a connection, and a message if it was answered.
LEMMA RunningType ==
  ASSUME TypeOK, pc # "off"
  PROVE  /\ run \in Conns
         /\ answers[run] \in Seq(Answers)
         /\ Answered => /\ Received \in Answers
                        /\ Tail(answers[run]) \in Seq(Answers)
BY HeadTailProperties
   DEF TypeOK, ClientTypeOK, ConnectionTypeOK, Conns, Answered, Received

LEMMA SendToServerType ==
  ASSUME TypeOK, NEW r \in Requests, SendToServer(r)
  PROVE  stream' \in [Conns -> Seq(Requests)] /\ UNCHANGED <<link, faults>>
BY AppendProperties DEF SendToServer, TypeOK, ConnectionTypeOK

LEMMA TakeAnswerType ==
  ASSUME TypeOK, pc # "off", Answered, TakeAnswer
  PROVE  ConnectionTypeOK'
BY RunningType DEF TakeAnswer, TypeOK, ConnectionTypeOK

LEMMA LeaveType ==
  ASSUME TypeOK, pc # "off", NEW how, NEW unread, Leave(how, unread)
  PROVE  /\ pc' = "off" /\ outcome' = how
         /\ stream' = stream
         /\ answers' \in [Conns -> Seq(Answers)]
         /\ link' \in [Conns -> Links]
BY EmptySeq DEF Leave, TypeOK, ConnectionTypeOK, Links

LEMMA ExitType ==
  ASSUME TypeOK, pc # "off", NEW how \in Outcomes, NEW left, Exit(how, left)
  PROVE  ClientPart /\ pc' = "off" /\ outcome' = how /\ stream' = stream
BY LeaveType DEF Exit, ClientPart, TypeOK, ConnectionTypeOK, ClientTypeOK,
                 Places, keysOfClient, filesOfClient

LEMMA GeneralErrorType ==
  ASSUME TypeOK, pc # "off", Answered, NEW again \in Places \ {"await_end"},
         NEW how \in Outcomes, GeneralError(again, how)
  PROVE  ClientPart
<1>1. CASE Exit(how, FALSE)
  BY <1>1, ExitType
<1>2. CASE /\ Failed # MaxTries /\ failures' = Failed /\ pc' = again
           /\ TakeAnswer
           /\ UNCHANGED <<run, outcome, packet_number, verdict, keysOfClient,
                          filesOfClient>>
  <2>1. failures' \in 0..(MaxTries - 1)
    BY <1>2, ProtocolAssumption DEF Failed, TypeOK, ClientTypeOK
  <2>2. run # 0
    BY RunningType DEF Conns
  <2> QED
    BY <1>2, <2>1, <2>2, TakeAnswerType
       DEF ClientPart, TypeOK, ClientTypeOK, keysOfClient, filesOfClient
<1> QED
  BY <1>1, <1>2 DEF GeneralError

LEMMA GetAesKeyType ==
  ASSUME TypeOK, pc # "off", Answered, NEW nul, GetAesKey(nul)
  PROVE  ClientPart
<1>1. CASE WrongId(nul)
  BY <1>1, ExitType DEF WrongId, Outcomes
<1>2. CASE Exit("cannot_decrypt", FALSE)
  BY <1>2, ExitType DEF Outcomes
<1>3. CASE /\ session_key' = Received.key /\ failures' = 0
           /\ packet_number' = 1 /\ pc' = "send_file"
           /\ TakeAnswer
           /\ UNCHANGED <<run, outcome, verdict, client_id, my_pair,
                          filesOfClient>>
  <2>1. session_key' \in Nat
    BY <1>3, RunningType DEF Answers
  <2>2. run # 0
    BY RunningType DEF Conns
  <2> QED
    BY <1>3, <2>1, <2>2, TakeAnswerType, ProtocolAssumption
       DEF ClientPart, TypeOK, ClientTypeOK, filesOfClient, Places
<1> QED
  BY <1>1, <1>2, <1>3 DEF GetAesKey

LEMMA UnrecognizedType ==
  ASSUME TypeOK, pc # "off", NEW codes, Unrecognized(codes)
  PROVE  ClientPart
BY ExitType DEF Unrecognized, Outcomes

LEMMA StartRunType ==
  ASSUME TypeOK, StartRun
  PROVE  ClientPart
<1>1. run + 1 \in 0..MaxRuns /\ run + 1 # 0
  BY ConnectionAssumption DEF StartRun, TypeOK, ClientTypeOK
<1>2. link' \in [Conns -> Links]
  BY DEF StartRun, TypeOK, ConnectionTypeOK, Links
<1> QED
  BY <1>1, <1>2, ProtocolAssumption
     DEF StartRun, ClientPart, TypeOK, ConnectionTypeOK, ClientTypeOK, Places,
         Outcomes, Ids, filesOfClient

LEMMA SendReconnectType ==
  ASSUME TypeOK, SendReconnect
  PROVE  ClientPart
<1>1. pc # "off" /\ run # 0
  BY DEF SendReconnect, TypeOK, ClientTypeOK
<1>2. CASE /\ Leave("no_private_key", answers[run] # <<>>)
           /\ UNCHANGED <<keysOfClient, faults>>
  BY <1>1, <1>2, LeaveType
     DEF SendReconnect, ClientPart, TypeOK, ConnectionTypeOK, ClientTypeOK,
         Places, Outcomes, keysOfClient, filesOfClient
<1>3. CASE /\ my_pair' = priv_key /\ client_id' = me_info
           /\ SendToServer(Request(RECONNECT_827, me_info))
           /\ pc' = "await_827"
           /\ UNCHANGED <<outcome, session_key, answers>>
  <2>1. Request(RECONNECT_827, me_info) \in Requests
    BY RequestType DEF RequestCodes, TypeOK, ClientTypeOK
  <2> QED
    BY <1>1, <1>3, <2>1, SendToServerType
       DEF SendReconnect, ClientPart, TypeOK, ConnectionTypeOK, ClientTypeOK,
           Places, Waiting, filesOfClient
<1> QED
  BY <1>2, <1>3 DEF SendReconnect

LEMMA OnReconnectAnswerType ==
  ASSUME TypeOK, NEW nul, OnReconnectAnswer(nul)
  PROVE  ClientPart
<1>1. pc # "off" /\ Answered /\ run # 0
  BY DEF OnReconnectAnswer, TypeOK, ClientTypeOK
<1>2. CASE GeneralError("reconnect", "too_many_tries")
  BY <1>1, <1>2, GeneralErrorType DEF Places, Outcomes
<1>3. CASE /\ failures' = 0 /\ pc' = "register" /\ TakeAnswer
           /\ UNCHANGED <<run, outcome, packet_number, verdict, keysOfClient,
                          filesOfClient>>
  BY <1>1, <1>3, TakeAnswerType, ProtocolAssumption
     DEF ClientPart, TypeOK, ClientTypeOK, Places, keysOfClient, filesOfClient
<1>4. CASE GetAesKey(nul)
  BY <1>1, <1>4, GetAesKeyType
<1>5. CASE Unrecognized({GENERAL_ERROR_1607, INVALID_RECONNECT_1606,
                         VALID_RECONNECT_1605})
  BY <1>1, <1>5, UnrecognizedType
<1> QED
  BY <1>2, <1>3, <1>4, <1>5 DEF OnReconnectAnswer

LEMMA SendRegistrationType ==
  ASSUME TypeOK, SendRegistration
  PROVE  ClientPart
<1>1. Request(REGISTERING_825, "none") \in Requests
  BY RequestType DEF RequestCodes, Ids
<1> QED
  BY <1>1, SendToServerType
     DEF SendRegistration, ClientPart, TypeOK, ConnectionTypeOK, ClientTypeOK,
         Places, Waiting, keysOfClient, filesOfClient

LEMMA OnRegistrationAnswerType ==
  ASSUME TypeOK, OnRegistrationAnswer
  PROVE  ClientPart
<1>1. pc # "off" /\ Answered /\ run # 0
  BY DEF OnRegistrationAnswer, TypeOK, ClientTypeOK
<1>2. CASE GeneralError("register", "too_many_tries")
  BY <1>1, <1>2, GeneralErrorType DEF Places, Outcomes
<1>3. CASE /\ client_id' = Received.id /\ failures' = 0 /\ pc' = "make_keys"
           /\ TakeAnswer
           /\ UNCHANGED <<run, outcome, packet_number, verdict, my_pair,
                          session_key, filesOfClient>>
  <2>1. client_id' \in Ids
    BY <1>1, <1>3, RunningType DEF Answers
  <2> QED
    BY <1>1, <1>3, <2>1, TakeAnswerType, ProtocolAssumption
       DEF ClientPart, TypeOK, ClientTypeOK, Places, filesOfClient
<1>4. CASE Unrecognized({GENERAL_ERROR_1607, REGISTERING_FAILED_1601,
                         REGISTERING_DONE_1600})
  BY <1>1, <1>4, UnrecognizedType
<1> QED
  BY <1>2, <1>3, <1>4 DEF OnRegistrationAnswer

LEMMA SavingType ==
  ASSUME TypeOK, CreateMeInfo \/ CreatePrivKeyFile
  PROVE  ClientPart
BY DEF CreateMeInfo, CreatePrivKeyFile, ClientPart, TypeOK, ConnectionTypeOK,
       ClientTypeOK, Places, connectionVars, keysOfClient

LEMMA SendPublicKeyType ==
  ASSUME TypeOK, SendPublicKey
  PROVE  ClientPart
<1>1. PublicKeyRequest(client_id, my_pair) \in Requests
  BY PublicKeyRequestType DEF TypeOK, ClientTypeOK
<1> QED
  BY <1>1, SendToServerType
     DEF SendPublicKey, ClientPart, TypeOK, ConnectionTypeOK, ClientTypeOK,
         Places, Waiting, keysOfClient, filesOfClient

LEMMA OnPublicKeyAnswerType ==
  ASSUME TypeOK, NEW nul, OnPublicKeyAnswer(nul)
  PROVE  ClientPart
<1>1. pc # "off" /\ Answered
  BY DEF OnPublicKeyAnswer
<1> QED
  BY <1>1, GeneralErrorType, GetAesKeyType, UnrecognizedType
     DEF OnPublicKeyAnswer, Places, Outcomes

LEMMA SendPacketType ==
  ASSUME TypeOK, SendPacket
  PROVE  ClientPart
<1>1. PICK damaged \in BOOLEAN :
        /\ damaged => Fault("noise")
        /\ stream' = IF link[run] = "open"
                     THEN [stream EXCEPT ![run] =
                             Append(@, PacketRequest(client_id, packet_number,
                                                     session_key, damaged))]
                     ELSE stream
        /\ faults' = IF damaged THEN faults - 1 ELSE faults
  BY DEF SendPacket
<1>2. PacketRequest(client_id, packet_number, session_key, damaged) \in Requests
  BY PacketRequestType DEF TypeOK, ClientTypeOK
<1>3. stream' \in [Conns -> Seq(Requests)]
  BY <1>1, <1>2, AppendProperties DEF TypeOK, ConnectionTypeOK
<1>4. faults' \in 0..MaxFaults
  BY <1>1, ConnectionAssumption DEF Fault, TypeOK, ConnectionTypeOK
<1>5. packet_number' \in 1..TotalPackets /\ pc' \in {"send_file", "await_828"}
  BY ProtocolAssumption DEF SendPacket, TypeOK, ClientTypeOK
<1> QED
  BY <1>3, <1>4, <1>5
     DEF SendPacket, ClientPart, TypeOK, ConnectionTypeOK, ClientTypeOK,
         Places, Waiting, keysOfClient, filesOfClient

LEMMA SendFinishRequestType ==
  ASSUME TypeOK, pc # "off", Answered, NEW code \in CrcCodes,
         SendFinishRequest(code)
  PROVE  ConnectionTypeOK'
<1>1. Request(code, client_id) \in Requests
  BY RequestType DEF RequestCodes, TypeOK, ClientTypeOK
<1>2. stream' \in [Conns -> Seq(Requests)]
  BY <1>1, AppendProperties DEF SendFinishRequest, TypeOK, ConnectionTypeOK
<1>3. answers' \in [Conns -> Seq(Answers)]
  BY RunningType DEF SendFinishRequest, TypeOK, ConnectionTypeOK
<1> QED
  BY <1>2, <1>3 DEF SendFinishRequest, TypeOK, ConnectionTypeOK

LEMMA OnCrcAnswerType ==
  ASSUME TypeOK, NEW nul, OnCrcAnswer(nul)
  PROVE  ClientPart
<1>1. pc # "off" /\ Answered /\ run # 0
  BY DEF OnCrcAnswer, TypeOK, ClientTypeOK
<1>2. CASE GeneralError("send_file", "too_many_sends")
  BY <1>1, <1>2, GeneralErrorType DEF Places, Outcomes
<1>3. CASE WrongId(nul)
  BY <1>1, <1>3, ExitType DEF WrongId, Outcomes
<1>4. CASE /\ SendFinishRequest(FinishCode(Received.match))
           /\ verdict' = FinishCode(Received.match)
           /\ IF FinishCode(Received.match) = WRONG_CRC_TRY_AGAIN_901
              THEN failures' = Failed /\ pc' = "send_file"
              ELSE failures' = 0 /\ pc' = "await_end"
           /\ UNCHANGED <<run, outcome, packet_number, keysOfClient,
                          filesOfClient>>
  <2>1. /\ FinishCode(Received.match) \in CrcCodes
        /\ \/ FinishCode(Received.match) = WRONG_CRC_TRY_AGAIN_901
           \/ FinishCode(Received.match) \in FinishCodes
    BY DEF FinishCode, CrcCodes, FinishCodes
  <2>2. FinishCode(Received.match) = WRONG_CRC_TRY_AGAIN_901
          => Failed # MaxTries
    BY DEF FinishCode, WRONG_CRC_TRY_AGAIN_901, WRONG_CRC_4TH_902,
           VALID_CRC_900
  <2>3. failures' \in 0..(MaxTries - 1)
    BY <1>4, <2>2, ProtocolAssumption DEF Failed, TypeOK, ClientTypeOK
  <2> QED
    BY <1>1, <1>4, <2>1, <2>3, SendFinishRequestType
       DEF ClientPart, TypeOK, ClientTypeOK, Places, Waiting, keysOfClient,
           filesOfClient
<1>5. CASE Unrecognized({GENERAL_ERROR_1607, VALID_FILE_AND_CRC_1603})
  BY <1>1, <1>5, UnrecognizedType
<1> QED
  BY <1>2, <1>3, <1>4, <1>5 DEF OnCrcAnswer

LEMMA OnFinalAnswerType ==
  ASSUME TypeOK, NEW nul, OnFinalAnswer(nul)
  PROVE  ClientPart
<1>1. pc # "off" /\ Answered /\ run # 0 /\ verdict \in CrcCodes
  BY DEF OnFinalAnswer, TypeOK, ClientTypeOK, CrcCodes
<1>2. CASE \E how \in Outcomes, left \in BOOLEAN : Exit(how, left)
  BY <1>1, <1>2, ExitType
<1>3. CASE /\ Failed # MaxTries /\ failures' = Failed
           /\ SendFinishRequest(verdict)
           /\ UNCHANGED <<run, pc, outcome, packet_number, verdict,
                          keysOfClient, filesOfClient>>
  <2>1. failures' \in 0..(MaxTries - 1)
    BY <1>3, ProtocolAssumption DEF Failed, TypeOK, ClientTypeOK
  <2> QED
    BY <1>1, <1>3, <2>1, SendFinishRequestType
       DEF ClientPart, TypeOK, ClientTypeOK, keysOfClient, filesOfClient
<1>4. CASE WrongId(nul)
  BY <1>1, <1>4, ExitType DEF WrongId, Outcomes
<1>5. CASE Unrecognized({GENERAL_ERROR_1607, THANK_YOU_1604})
  BY <1>1, <1>5, UnrecognizedType
<1> QED
  BY <1>2, <1>3, <1>4, <1>5 DEF OnFinalAnswer, Outcomes

LEMMA OtherClientType ==
  ASSUME TypeOK, ReadFails \/ Kill
  PROVE  ClientPart
<1>1. CASE ReadFails
  <2>1. pc # "off"
    BY <1>1 DEF ReadFails, Waiting
  <2> QED
    BY <1>1, <2>1, LeaveType
       DEF ReadFails, ClientPart, TypeOK, ConnectionTypeOK, ClientTypeOK,
           Places, Outcomes, keysOfClient, filesOfClient
<1>2. CASE Kill
  <2>1. faults' \in 0..MaxFaults
    BY <1>2, ConnectionAssumption DEF Kill, Fault, TypeOK, ConnectionTypeOK
  <2> QED
    BY <1>2, <2>1, LeaveType
       DEF Kill, ClientPart, TypeOK, ConnectionTypeOK, ClientTypeOK,
           Places, Outcomes, keysOfClient, filesOfClient
<1> QED
  BY <1>1, <1>2

LEMMA ClientStepType ==
  ASSUME TypeOK, NEW nul, ClientStep(nul)
  PROVE  ClientPart
BY SendReconnectType, OnReconnectAnswerType, SendRegistrationType,
   OnRegistrationAnswerType, SavingType, SendPublicKeyType,
   OnPublicKeyAnswerType, SendPacketType, OnCrcAnswerType, OnFinalAnswerType,
   OtherClientType
   DEF ClientStep

-----------------------------------------------------------------------------
(* Every reachable state is well typed, and lists and rows fit.            *)

TypesAndRecords == TypeOK /\ RowsFit

LEMMA TypesInitially == Init => TypesAndRecords
<1> SUFFICES ASSUME Init PROVE TypesAndRecords
  OBVIOUS
<1>1. ConnectionTypeOK
  BY EmptySeq, ConnectionAssumption
     DEF Init, ConnectionInit, ConnectionTypeOK, Links
<1>2. ClientTypeOK
  BY ConnectionAssumption, ProtocolAssumption
     DEF Init, ClientTypeOK, Places, Outcomes, Ids, CrcCodes
<1>3. ServerTypeOK
  <2>1. PICK s \in Situations :
          /\ registered = IF s = "known" THEN "old"
                          ELSE IF s \in {"taken", "usurped"} THEN "other"
                          ELSE "none"
          /\ nul_id \in IF s = "known" THEN NulIds ELSE {FALSE}
          /\ public_key = IF s = "known" THEN 1 ELSE 0
          /\ aes_key = IF s = "known" THEN 1 ELSE 0
          /\ table = [id |-> registered, public_key |-> public_key,
                      aes_key |-> aes_key, file |-> "absent"]
    BY DEF Init
  <2>2. nul_id \in BOOLEAN
    <3>1. CASE s = "known"
      BY <2>1, <3>1, NulIdsAssumption, Zenon
    <3>2. CASE s # "known"
      BY <2>1, <3>2, Zenon
    <3> QED
      BY <3>1, <3>2
  <2>3. registered \in Ids /\ public_key \in Int /\ aes_key \in Nat
    BY <2>1 DEF Ids
  <2>4. up \in BOOLEAN /\ file \in FileStates /\ disk \in Seq(Chunks)
    BY EmptySeq DEF Init, FileStates
  <2>5. table \in Rows
    BY <2>1, <2>3 DEF Rows, FileStates
  <2> QED
    BY <2>2, <2>3, <2>4, <2>5 DEF ServerTypeOK
<1>4. RowsFit
  <2>1. /\ file = "absent"
        /\ table = [id |-> registered, public_key |-> public_key,
                    aes_key |-> aes_key, file |-> "absent"]
    BY DEF Init
  <2> QED
    BY <2>1 DEF RowsFit, RestartReadsBack
<1> QED
  BY <1>1, <1>2, <1>3, <1>4 DEF TypesAndRecords, TypeOK

LEMMA TypesPreserved == TypesAndRecords /\ [Next]_vars => TypesAndRecords'
<1> SUFFICES ASSUME TypesAndRecords, [Next]_vars PROVE TypesAndRecords'
  OBVIOUS
<1> USE DEF TypesAndRecords
<1>1. ASSUME ClientPart, UNCHANGED serverVars
      PROVE  TypesAndRecords'
  BY <1>1, SameStore
     DEF ClientPart, serverVars, storeVars, TypeOK, ServerTypeOK
<1>2. CASE Start
  BY <1>1, <1>2, StartRunType DEF Start
<1>3. CASE Client
  BY <1>1, <1>3, ClientStepType DEF Client
<1>4. CASE ClientKilled
  BY <1>1, <1>4, OtherClientType DEF ClientKilled
<1>5. CASE \E c \in Conns : Server(c)
  <2>1. PICK c \in Conns : Server(c)
    BY <1>5
  <2>2. ConnectionTypeOK' /\ ServerTypeOK' /\ RowsFit'
    BY <2>1, ServerStepTypes, ServerStepRows DEF Server
  <2> QED
    BY <2>1, <2>2 DEF Server, clientVars, TypeOK, ClientTypeOK
<1>6. CASE ServerRestart
  <2>1. TypeOK'
    BY <1>6 DEF ServerRestart, Restart, connectionVars, clientVars, TypeOK,
                ConnectionTypeOK, ClientTypeOK, ServerTypeOK, Rows
  <2>2. RowsFit'
    BY <1>6 DEF ServerRestart, Restart, RowsFit, RestartReadsBack, TypeOK,
                ServerTypeOK, Rows
  <2> QED
    BY <2>1, <2>2
<1>7. CASE UNCHANGED vars
  BY <1>7, SameStore
     DEF vars, connectionVars, clientVars, serverVars, storeVars, TypeOK,
         ConnectionTypeOK, ClientTypeOK, ServerTypeOK
<1> QED
  BY <1>2, <1>3, <1>4, <1>5, <1>6, <1>7 DEF Next, Finished

(* Every variable of client, connections and server keeps its type: no     *)
(* handler indexes past a stream, no counter leaves its range.             *)
THEOREM TypeCorrect == Spec => []TypeOK
<1>1. TypesAndRecords => TypeOK
  BY DEF TypesAndRecords
<1> QED
  BY <1>1, TypesInitially, TypesPreserved, PTL DEF Spec

(* As long as no call of the server to its database or its disk fails, the *)
(* tables hold what the lists hold whenever a handler has ended, and every *)
(* listed file is on the disk: a restart in the middle of any transfer     *)
(* (server.py:61-76) changes nothing, whatever the network and the client  *)
(* do.                                                                     *)
THEOREM RestartsReadBack ==
  ASSUME "io" \notin FaultKinds
  PROVE  Spec => []RestartReadsBack
<1>1. TypesAndRecords => RestartReadsBack
  BY DEF TypesAndRecords, RowsFit
<1> QED
  BY <1>1, TypesInitially, TypesPreserved, PTL DEF Spec

(* Whichever call fails and however often the server starts again: a       *)
(* client with a row is in the list under its id and a listed file has a   *)
(* row, since the handlers append a client before they insert it, insert a *)
(* file before they append it and remove it before they delete its row.    *)
THEOREM ListKeepsToRows == Spec => []ListAndRows
<1>1. TypesAndRecords => ListAndRows
  BY DEF TypesAndRecords, RowsFit, ListAndRows
<1> QED
  BY <1>1, TypesInitially, TypesPreserved, PTL DEF Spec

-----------------------------------------------------------------------------
(* One run of the client: what it reports is what the server recorded.     *)
(*                                                                         *)
(* VerdictAgreement is not inductive: requests may be on their way when    *)
(* the client ends. But the stream holds nothing after the first 900 or    *)
(* 902 but copies of it, and once the server has carried it out (Thanked)  *)
(* the whole stream does; the server refuses those copies, so the file     *)
(* stays as it was settled.                                                *)

FollowedBy(s, code) ==
  \A i \in 1..Len(s) :
    s[i].code \in FinishCodes => \A j \in i..Len(s) : s[j].code = code

Only(s, code) == \A i \in 1..Len(s) : s[i].code = code

Thanked ==
  \/ outcome \in {"success", "deleted"}
  \/ \E i \in 1..Len(answers[1]) : answers[1][i].code = THANK_YOU_1604

VerdictInv ==
  /\ FollowedBy(stream[1], verdict)
  /\ Thanked => /\ \/ /\ verdict = VALID_CRC_900
                      /\ file = "verified" /\ table.file = "verified"
                   \/ /\ verdict = WRONG_CRC_4TH_902
                      /\ file = "absent" /\ table.file = "absent" /\ disk = <<>>
                /\ Only(stream[1], verdict)
  /\ outcome = "success" => verdict = VALID_CRC_900
  /\ outcome = "deleted" => verdict = WRONG_CRC_4TH_902
  /\ pc # "off" /\ verdict \in FinishCodes => pc = "await_end"
  /\ run = 0 => stream[1] = <<>> /\ answers[1] = <<>> /\ link[1] = "idle"

LEMMA EndKeeps ==
  ASSUME NEW s \in Seq(Requests), NEW t, EndOf(s, t), NEW code
  PROVE  /\ FollowedBy(s, code) => FollowedBy(t, code)
         /\ Only(s, code) => Only(t, code)
<1>1. PICK k \in 0..Len(s) : /\ Len(t) = Len(s) - k
                             /\ \A i \in 1..Len(t) : t[i].code = s[k + i].code
  BY DEF EndOf
<1>2. Len(s) \in Nat /\ Len(t) \in Nat
  BY DEF EndOf
<1>3. \A i \in 1..Len(t) : k + i \in 1..Len(s)
  BY <1>1, <1>2
<1>4. ASSUME FollowedBy(s, code) PROVE FollowedBy(t, code)
  <2>1. SUFFICES ASSUME NEW i \in 1..Len(t), t[i].code \in FinishCodes,
                        NEW j \in i..Len(t)
                 PROVE  t[j].code = code
    BY DEF FollowedBy
  <2>2. /\ k + i \in 1..Len(s) /\ k + j \in (k + i)..Len(s)
        /\ j \in 1..Len(t)
    BY <1>1, <1>2, <1>3, <2>1
  <2> QED
    BY <1>1, <1>4, <2>1, <2>2 DEF FollowedBy
<1> QED
  BY <1>1, <1>3, <1>4 DEF Only

\* The client adds a copy of its verdict, or knows none yet.
InOrder(r) ==
  \/ r.code = verdict
  \/ r.code \notin FinishCodes /\ verdict \notin FinishCodes

LEMMA AppendKeeps ==
  ASSUME NEW s \in Seq(Requests), NEW r \in Requests, InOrder(r)
  PROVE  /\ FollowedBy(s, verdict) => FollowedBy(Append(s, r), verdict)
         /\ Only(s, verdict) /\ verdict \in FinishCodes
              => Only(Append(s, r), verdict)
<1>1. /\ Len(s) \in Nat /\ Len(Append(s, r)) = Len(s) + 1
      /\ \A i \in 1..Len(s) : Append(s, r)[i] = s[i]
      /\ Append(s, r)[Len(s) + 1] = r
  BY AppendProperties
<1>2. ASSUME FollowedBy(s, verdict) PROVE FollowedBy(Append(s, r), verdict)
  <2>1. SUFFICES ASSUME NEW i \in 1..(Len(s) + 1),
                        Append(s, r)[i].code \in FinishCodes,
                        NEW j \in i..(Len(s) + 1)
                 PROVE  Append(s, r)[j].code = verdict
    BY <1>1 DEF FollowedBy
  <2>2. CASE j = Len(s) + 1
    <3>1. CASE i = Len(s) + 1
      BY <1>1, <2>1, <2>2, <3>1 DEF InOrder
    <3>2. CASE i # Len(s) + 1
      <4>1. i \in 1..Len(s) /\ s[i].code \in FinishCodes
        BY <1>1, <2>1, <3>2
      <4>2. s[i].code = verdict
        BY <1>1, <1>2, <4>1 DEF FollowedBy
      <4> QED
        BY <1>1, <2>2, <4>1, <4>2 DEF InOrder
    <3> QED
      BY <3>1, <3>2
  <2>3. CASE j # Len(s) + 1
    <3>1. i \in 1..Len(s) /\ j \in i..Len(s) /\ j \in 1..Len(s)
      BY <1>1, <2>3
    <3> QED
      BY <1>1, <1>2, <2>1, <3>1 DEF FollowedBy
  <2> QED
    BY <2>2, <2>3
<1>3. ASSUME Only(s, verdict), verdict \in FinishCodes
      PROVE  Only(Append(s, r), verdict)
  BY <1>1, <1>3 DEF Only, InOrder
<1> QED
  BY <1>2, <1>3

\* Before the verdict no 900 or 902 is on its way, and any may follow.
LEMMA Undecided ==
  ASSUME NEW s \in Seq(Requests), NEW old, old \notin FinishCodes,
         FollowedBy(s, old), NEW new
  PROVE  FollowedBy(s, new)
BY DEF FollowedBy

(* Every step of the client but the one that reaches its verdict.          *)
LEMMA QuietClientStep ==
  ASSUME TypeOK, VerdictInv, MaxRuns = 1, pc # "off",
         UNCHANGED <<run, verdict>>, SameRecord,
         \/ stream' = stream
         \/ \E r \in Requests : /\ InOrder(r)
                                /\ stream' = [stream EXCEPT ![run] = Append(@, r)],
         \A i \in 1..Len(answers'[1]) :
            \E j \in 1..Len(answers[1]) : answers'[1][i] = answers[1][j],
         \/ outcome' = outcome
         \/ outcome' \notin {"success", "deleted"}
         \/ /\ Thanked
            /\ outcome' = IF verdict = VALID_CRC_900
                          THEN "success" ELSE "deleted",
         pc' # "off" /\ verdict \in FinishCodes => pc' = "await_end"
  PROVE  VerdictInv'
<1>1. run = 1 /\ 1 \in Conns /\ stream[1] \in Seq(Requests)
  BY DEF TypeOK, ClientTypeOK, ConnectionTypeOK, Conns
<1>2. /\ FollowedBy(stream'[1], verdict)
      /\ Only(stream[1], verdict) /\ verdict \in FinishCodes
           => Only(stream'[1], verdict)
  <2>1. CASE stream' = stream
    BY <2>1 DEF VerdictInv
  <2>2. CASE \E r \in Requests : /\ InOrder(r)
                                 /\ stream' = [stream EXCEPT ![run] = Append(@, r)]
    <3>1. PICK r \in Requests : /\ InOrder(r)
                                /\ stream'[1] = Append(stream[1], r)
      BY <1>1, <2>2 DEF TypeOK, ConnectionTypeOK
    <3> QED
      BY <1>1, <3>1, AppendKeeps DEF VerdictInv
  <2> QED
    BY <2>1, <2>2
<1>3. Thanked' => Thanked
  BY DEF Thanked
<1>4. Thanked => verdict \in FinishCodes
  BY DEF VerdictInv, FinishCodes
<1>5. /\ outcome' = "success" => verdict = VALID_CRC_900
      /\ outcome' = "deleted" => verdict = WRONG_CRC_4TH_902
  BY DEF VerdictInv
<1>6. Only(stream'[1], verdict') <=> Only(stream'[1], verdict)
  OBVIOUS
<1> QED
  BY <1>1, <1>2, <1>3, <1>4, <1>5 DEF VerdictInv, SameRecord

\* Nothing but the server adds an answer.
LEMMA FewerAnswers ==
  ASSUME TypeOK, MaxRuns = 1, pc # "off",
         \/ answers' = answers
         \/ Answered /\ answers' = [answers EXCEPT ![run] = Tail(@)]
         \/ answers' = [answers EXCEPT ![run] = <<>>]
  PROVE  \A i \in 1..Len(answers'[1]) :
            \E j \in 1..Len(answers[1]) : answers'[1][i] = answers[1][j]
<1>1. run = 1 /\ 1 \in Conns /\ answers[1] \in Seq(Answers)
  BY DEF TypeOK, ClientTypeOK, ConnectionTypeOK, Conns
<1>2. CASE answers' = answers
  BY <1>2
<1>3. CASE Answered /\ answers' = [answers EXCEPT ![run] = Tail(@)]
  <2>1. answers'[1] = Tail(answers[1]) /\ answers[1] # <<>>
    BY <1>1, <1>3 DEF Answered, TypeOK, ConnectionTypeOK
  <2>2. /\ Len(answers[1]) \in Nat /\ Len(answers'[1]) = Len(answers[1]) - 1
        /\ \A i \in 1..Len(answers'[1]) : answers'[1][i] = answers[1][i + 1]
    BY <1>1, <2>1, HeadTailProperties
  <2>3. \A i \in 1..Len(answers'[1]) : i + 1 \in 1..Len(answers[1])
    BY <2>2
  <2> QED
    BY <2>2, <2>3
<1>4. CASE answers' = [answers EXCEPT ![run] = <<>>]
  <2>1. answers'[1] = <<>>
    BY <1>1, <1>4 DEF TypeOK, ConnectionTypeOK
  <2>2. Len(answers'[1]) = 0
    BY <2>1
  <2> QED
    BY <2>2
<1> QED
  BY <1>2, <1>3, <1>4

LEMMA LeaveKeepsVerdict ==
  ASSUME TypeOK, VerdictInv, MaxRuns = 1, pc # "off", NEW how, NEW unread,
         Leave(how, unread), UNCHANGED <<run, verdict>>, SameRecord,
         \/ how \notin {"success", "deleted"}
         \/ /\ Thanked
            /\ how = IF verdict = VALID_CRC_900 THEN "success" ELSE "deleted"
  PROVE  VerdictInv'
<1>1. /\ pc' = "off" /\ outcome' = how /\ stream' = stream
      /\ answers' = [answers EXCEPT ![run] = <<>>]
  BY DEF Leave
<1> QED
  BY <1>1, FewerAnswers, QuietClientStep

LEMMA ExitKeepsVerdict ==
  ASSUME TypeOK, VerdictInv, MaxRuns = 1, pc # "off", NEW how, NEW left,
         Exit(how, left), SameRecord,
         \/ how \notin {"success", "deleted"}
         \/ /\ Thanked
            /\ how = IF verdict = VALID_CRC_900 THEN "success" ELSE "deleted"
  PROVE  VerdictInv'
BY LeaveKeepsVerdict DEF Exit

\* A step of the client before its verdict.
LEMMA EarlyStep ==
  ASSUME TypeOK, VerdictInv, MaxRuns = 1, pc \notin {"off", "await_end"},
         UNCHANGED <<run, verdict, outcome>>, SameRecord,
         \/ stream' = stream
         \/ \E r \in Requests : /\ r.code \notin FinishCodes
                                /\ stream' = [stream EXCEPT ![run] = Append(@, r)],
         \/ answers' = answers
         \/ Answered /\ answers' = [answers EXCEPT ![run] = Tail(@)]
  PROVE  VerdictInv'
<1>1. verdict \notin FinishCodes
  BY DEF VerdictInv
<1> QED
  BY <1>1, FewerAnswers, QuietClientStep DEF InOrder

LEMMA RetryKeepsVerdict ==
  ASSUME TypeOK, VerdictInv, MaxRuns = 1, pc \notin {"off", "await_end"},
         Answered, NEW again, NEW how, how \notin {"success", "deleted"},
         GeneralError(again, how), SameRecord
  PROVE  VerdictInv'
<1>1. CASE Exit(how, FALSE)
  BY <1>1, ExitKeepsVerdict
<1>2. CASE TakeAnswer /\ UNCHANGED <<run, outcome, verdict>>
  BY <1>2, EarlyStep DEF TakeAnswer
<1> QED
  BY <1>1, <1>2 DEF GeneralError

LEMMA GetAesKeyKeepsVerdict ==
  ASSUME TypeOK, VerdictInv, MaxRuns = 1, pc \notin {"off", "await_end"},
         Answered, NEW nul, GetAesKey(nul), SameRecord
  PROVE  VerdictInv'
<1>1. CASE WrongId(nul)
  BY <1>1, ExitKeepsVerdict DEF WrongId
<1>2. CASE Exit("cannot_decrypt", FALSE)
  BY <1>2, ExitKeepsVerdict
<1>3. CASE TakeAnswer /\ UNCHANGED <<run, outcome, verdict>>
  BY <1>3, EarlyStep DEF TakeAnswer
<1> QED
  BY <1>1, <1>2, <1>3 DEF GetAesKey

LEMMA SentKeepsVerdict ==
  ASSUME TypeOK, VerdictInv, MaxRuns = 1, pc \notin {"off", "await_end"},
         NEW r \in Requests, r.code \notin FinishCodes, SendToServer(r),
         UNCHANGED <<run, verdict, outcome, answers>>, SameRecord
  PROVE  VerdictInv'
BY EarlyStep DEF SendToServer

LEMMA RequestCodesFacts ==
  /\ REGISTERING_825 \in RequestCodes \ FinishCodes
  /\ SEND_PUBLIC_KEY_826 \in RequestCodes \ FinishCodes
  /\ RECONNECT_827 \in RequestCodes \ FinishCodes
  /\ SEND_FILE_828 \in RequestCodes \ FinishCodes
  /\ WRONG_CRC_TRY_AGAIN_901 \notin FinishCodes
  /\ VALID_CRC_900 # WRONG_CRC_4TH_902
  /\ 0 \notin FinishCodes
BY DEF REGISTERING_825, SEND_PUBLIC_KEY_826, RECONNECT_827, SEND_FILE_828,
       WRONG_CRC_TRY_AGAIN_901, VALID_CRC_900, WRONG_CRC_4TH_902,
       RequestCodes, CrcCodes, FinishCodes

LEMMA CrcAnswerKeepsVerdict ==
  ASSUME TypeOK, VerdictInv, MaxRuns = 1, NEW nul, OnCrcAnswer(nul),
         SameRecord
  PROVE  VerdictInv'
<1>1. /\ pc = "await_828" /\ Answered /\ run = 1 /\ 1 \in Conns
      /\ stream[1] \in Seq(Requests) /\ answers[1] \in Seq(Answers)
  BY DEF OnCrcAnswer, TypeOK, ClientTypeOK, ConnectionTypeOK, Conns
<1>2. CASE GeneralError("send_file", "too_many_sends")
  BY <1>1, <1>2, RetryKeepsVerdict
<1>3. CASE WrongId(nul)
  BY <1>1, <1>3, ExitKeepsVerdict DEF WrongId
<1>4. CASE Unrecognized({GENERAL_ERROR_1607, VALID_FILE_AND_CRC_1603})
  BY <1>1, <1>4, ExitKeepsVerdict DEF Unrecognized
\* The verdict: nothing was settled before it, and it may follow anything.
<1>5. CASE /\ SendFinishRequest(FinishCode(Received.match))
           /\ verdict' = FinishCode(Received.match)
           /\ IF FinishCode(Received.match) = WRONG_CRC_TRY_AGAIN_901
              THEN failures' = Failed /\ pc' = "send_file"
              ELSE failures' = 0 /\ pc' = "await_end"
           /\ UNCHANGED <<run, outcome, packet_number, keysOfClient,
                          filesOfClient>>
  <2> DEFINE code == FinishCode(Received.match)
             r == Request(code, client_id)
  <2>1. verdict \notin FinishCodes /\ ~Thanked
    BY <1>1 DEF VerdictInv, FinishCodes
  <2>2. /\ code \in CrcCodes
        /\ code \in FinishCodes \/ code = WRONG_CRC_TRY_AGAIN_901
    BY DEF FinishCode, CrcCodes, FinishCodes
  <2>3. r \in Requests /\ r.code = code
    BY <2>2, RequestType DEF Request, RequestCodes, TypeOK, ClientTypeOK
  <2>4. \/ stream'[1] = stream[1]
        \/ stream'[1] = Append(stream[1], r)
    BY <1>1, <1>5 DEF SendFinishRequest, TypeOK, ConnectionTypeOK
  <2> HIDE DEF r, code
  <2>5. FollowedBy(stream'[1], verdict')
    <3>1. FollowedBy(stream[1], code)
      BY <1>1, <2>1, Undecided DEF VerdictInv
    <3>2. FollowedBy(Append(stream[1], r), code)
      <4>1. /\ Len(stream[1]) \in Nat
            /\ Len(Append(stream[1], r)) = Len(stream[1]) + 1
            /\ \A i \in 1..Len(stream[1]) :
                  /\ Append(stream[1], r)[i] = stream[1][i]
                  /\ stream[1][i].code \notin FinishCodes
            /\ Append(stream[1], r)[Len(stream[1]) + 1] = r
        <5>1. \A i \in 1..Len(stream[1]) : stream[1][i].code \notin FinishCodes
          BY <1>1, <2>1 DEF VerdictInv, FollowedBy
        <5> QED
          BY <1>1, <2>3, <5>1, AppendProperties
      <4> QED
        BY <2>3, <4>1 DEF FollowedBy
    <3>3. verdict' = code
      BY <1>5 DEF code
    <3> QED
      BY <2>4, <3>1, <3>2, <3>3
  <2>6. ~Thanked'
    <3>1. \A i \in 1..Len(answers'[1]) :
             \E j \in 1..Len(answers[1]) : answers'[1][i] = answers[1][j]
      BY <1>1, <1>5, FewerAnswers DEF SendFinishRequest
    <3> QED
      BY <1>5, <2>1, <3>1 DEF Thanked
  <2>7. pc' # "off" /\ verdict' \in FinishCodes => pc' = "await_end"
    BY <1>5, RequestCodesFacts
  <2>8. run' = 1 /\ outcome' \notin {"success", "deleted"}
    BY <1>1, <1>5, <2>1 DEF Thanked
  <2> QED
    BY <2>5, <2>6, <2>7, <2>8 DEF VerdictInv, Thanked
<1> QED
  BY <1>2, <1>3, <1>4, <1>5 DEF OnCrcAnswer

LEMMA FinalAnswerKeepsVerdict ==
  ASSUME TypeOK, VerdictInv, MaxRuns = 1, NEW nul, OnFinalAnswer(nul),
         SameRecord
  PROVE  VerdictInv'
<1>1. /\ pc = "await_end" /\ pc # "off" /\ Answered /\ run = 1 /\ 1 \in Conns
      /\ answers[1] \in Seq(Answers) /\ verdict \in FinishCodes
  BY DEF OnFinalAnswer, TypeOK, ClientTypeOK, ConnectionTypeOK, Conns
<1>2. CASE Exit("too_many_tries", FALSE)
  BY <1>1, <1>2, ExitKeepsVerdict
\* finish_request is sent again: a copy of the verdict.
<1>3. CASE /\ SendFinishRequest(verdict)
           /\ UNCHANGED <<run, pc, outcome, verdict>>
  <2> DEFINE r == Request(verdict, client_id)
  <2>1. r \in Requests /\ InOrder(r)
    BY <1>1, RequestType
       DEF Request, RequestCodes, CrcCodes, InOrder, TypeOK, ClientTypeOK
  <2>2. \/ stream' = stream
        \/ stream' = [stream EXCEPT ![run] = Append(@, r)]
    BY <1>3 DEF SendFinishRequest
  <2> HIDE DEF r
  <2>3. \A i \in 1..Len(answers'[1]) :
           \E j \in 1..Len(answers[1]) : answers'[1][i] = answers[1][j]
    BY <1>1, <1>3, FewerAnswers DEF SendFinishRequest
  <2> QED
    BY <1>1, <1>3, <2>1, <2>2, <2>3, QuietClientStep
\* Thanked: the server has settled the file the way verdict says.
<1>4. CASE /\ Received.code = THANK_YOU_1604
           /\ Exit(IF verdict = VALID_CRC_900 THEN "success" ELSE "deleted",
                   FALSE)
  <2>1. Thanked
    BY <1>1, <1>4, HeadTailProperties DEF Thanked, Received, Answered
  <2> QED
    BY <1>1, <1>4, <2>1, ExitKeepsVerdict
<1>5. CASE WrongId(nul)
  BY <1>1, <1>5, ExitKeepsVerdict DEF WrongId
<1>6. CASE Unrecognized({GENERAL_ERROR_1607, THANK_YOU_1604})
  BY <1>1, <1>6, ExitKeepsVerdict DEF Unrecognized
<1> QED
  BY <1>2, <1>3, <1>4, <1>5, <1>6 DEF OnFinalAnswer

LEMMA ClientKeepsVerdict ==
  ASSUME TypeOK, VerdictInv, MaxRuns = 1, NEW nul, ClientStep(nul),
         SameRecord
  PROVE  VerdictInv'
<1>1. CASE SendReconnect
  <2>1. Request(RECONNECT_827, me_info) \in Requests
        /\ Request(RECONNECT_827, me_info).code = RECONNECT_827
    BY RequestType, RequestCodesFacts DEF Request, TypeOK, ClientTypeOK
  <2> QED
    BY <1>1, <2>1, LeaveKeepsVerdict, SentKeepsVerdict, RequestCodesFacts
       DEF SendReconnect
<1>2. CASE OnReconnectAnswer(nul)
  <2>1. CASE GeneralError("reconnect", "too_many_tries")
    BY <1>2, <2>1, RetryKeepsVerdict DEF OnReconnectAnswer
  <2>2. CASE TakeAnswer /\ UNCHANGED <<run, outcome, verdict>>
    BY <1>2, <2>2, EarlyStep DEF OnReconnectAnswer, TakeAnswer
  <2>3. CASE GetAesKey(nul)
    BY <1>2, <2>3, GetAesKeyKeepsVerdict DEF OnReconnectAnswer
  <2>4. CASE \E codes : Unrecognized(codes)
    BY <1>2, <2>4, ExitKeepsVerdict DEF OnReconnectAnswer, Unrecognized
  <2> QED
    BY <1>2, <2>1, <2>2, <2>3, <2>4 DEF OnReconnectAnswer
<1>3. CASE SendRegistration
  <2>1. Request(REGISTERING_825, "none") \in Requests
        /\ Request(REGISTERING_825, "none").code = REGISTERING_825
    BY RequestType, RequestCodesFacts DEF Request, Ids
  <2> QED
    BY <1>3, <2>1, SentKeepsVerdict, RequestCodesFacts DEF SendRegistration
<1>4. CASE OnRegistrationAnswer
  <2>1. CASE GeneralError("register", "too_many_tries")
    BY <1>4, <2>1, RetryKeepsVerdict DEF OnRegistrationAnswer
  <2>2. CASE TakeAnswer /\ UNCHANGED <<run, outcome, verdict>>
    BY <1>4, <2>2, EarlyStep DEF OnRegistrationAnswer, TakeAnswer
  <2>3. CASE \E codes : Unrecognized(codes)
    BY <1>4, <2>3, ExitKeepsVerdict DEF OnRegistrationAnswer, Unrecognized
  <2> QED
    BY <1>4, <2>1, <2>2, <2>3 DEF OnRegistrationAnswer
<1>5. CASE CreateMeInfo \/ CreatePrivKeyFile
  BY <1>5, EarlyStep DEF CreateMeInfo, CreatePrivKeyFile, connectionVars
<1>6. CASE SendPublicKey
  <2>1. PublicKeyRequest(client_id, my_pair) \in Requests
        /\ PublicKeyRequest(client_id, my_pair).code = SEND_PUBLIC_KEY_826
    BY PublicKeyRequestType DEF PublicKeyRequest, Request, TypeOK, ClientTypeOK
  <2> QED
    BY <1>6, <2>1, SentKeepsVerdict, RequestCodesFacts DEF SendPublicKey
<1>7. CASE OnPublicKeyAnswer(nul)
  <2>1. CASE GeneralError("make_keys", "too_many_tries")
    BY <1>7, <2>1, RetryKeepsVerdict DEF OnPublicKeyAnswer
  <2>2. CASE GetAesKey(nul)
    BY <1>7, <2>2, GetAesKeyKeepsVerdict DEF OnPublicKeyAnswer
  <2>3. CASE \E codes : Unrecognized(codes)
    BY <1>7, <2>3, ExitKeepsVerdict DEF OnPublicKeyAnswer, Unrecognized
  <2> QED
    BY <1>7, <2>1, <2>2, <2>3 DEF OnPublicKeyAnswer
<1>8. CASE SendPacket
  <2>1. \A damaged \in BOOLEAN :
           LET r == PacketRequest(client_id, packet_number, session_key, damaged)
           IN  r \in Requests /\ r.code = SEND_FILE_828
    <3>1. /\ client_id \in Ids /\ session_key \in Nat
          /\ packet_number \in 0..TotalPackets
      BY ProtocolAssumption DEF TypeOK, ClientTypeOK
    <3>2. \A damaged \in BOOLEAN :
             PacketRequest(client_id, packet_number, session_key, damaged)
               \in Requests
      BY <3>1, PacketRequestType
    <3>3. \A damaged \in BOOLEAN :
             PacketRequest(client_id, packet_number, session_key, damaged).code
               = SEND_FILE_828
      BY DEF PacketRequest, Request
    <3> QED
      BY <3>2, <3>3
  <2>2. \/ stream' = stream
        \/ \E r \in Requests : /\ r.code \notin FinishCodes
                               /\ stream' = [stream EXCEPT ![run] = Append(@, r)]
    BY <1>8, <2>1, RequestCodesFacts DEF SendPacket
  <2> QED
    BY <1>8, <2>2, EarlyStep DEF SendPacket
<1>9. CASE OnCrcAnswer(nul)
  BY <1>9, CrcAnswerKeepsVerdict
<1>10. CASE OnFinalAnswer(nul)
  BY <1>10, FinalAnswerKeepsVerdict
<1>11. CASE ReadFails
  BY <1>11, LeaveKeepsVerdict DEF ReadFails, Waiting
<1> QED
  BY <1>1, <1>2, <1>3, <1>4, <1>5, <1>6, <1>7, <1>8, <1>9, <1>10, <1>11
     DEF ClientStep

\* The server reads nothing from a connection that was never opened.
LEMMA ServerNeedsLink ==
  ASSUME NEW c \in Conns, ServerStep(c)
  PROVE  link[c] # "idle"
BY DEF ServerStep, ReadGarbage, ReadShort, registration_request_825,
       reconnection_request_827, send_public_key_request_826,
       send_file_request_828, crc_response_900_901_902, Readable, EndOfStream,
       ReadReset

\* An answer other than 1604, the file untouched once the client is thanked.
LEMMA QuietServerStep ==
  ASSUME TypeOK, VerdictInv, MaxRuns = 1, NEW c \in Conns, run # 0,
         \E code \in Codes : ServerEffect(c, code),
         UNCHANGED clientVars,
         Thanked => SameRecord
  PROVE  VerdictInv'
<1>1. PICK code \in Codes : ServerEffect(c, code)
  OBVIOUS
<1>2. /\ c = 1 /\ stream[1] \in Seq(Requests) /\ answers[1] \in Seq(Answers)
      /\ code # THANK_YOU_1604
  BY CodesFacts DEF TypeOK, ConnectionTypeOK, Conns
<1>3. EndOf(stream[1], stream'[1])
  BY <1>1, <1>2 DEF ServerEffect
<1>4. /\ FollowedBy(stream'[1], verdict)
      /\ Only(stream[1], verdict) => Only(stream'[1], verdict)
  BY <1>2, <1>3, EndKeeps DEF VerdictInv
<1>5. Thanked' => Thanked
  <2>1. CASE answers' = answers
    BY <2>1 DEF Thanked, clientVars
  <2>2. CASE \E a \in Answers : /\ a.code = code
                                /\ answers' = [answers EXCEPT ![c] = Append(@, a)]
    <3>1. PICK a \in Answers : a.code = code
                               /\ answers'[1] = Append(answers[1], a)
      BY <1>2, <2>2 DEF TypeOK, ConnectionTypeOK
    <3>2. /\ Len(answers'[1]) = Len(answers[1]) + 1 /\ Len(answers[1]) \in Nat
          /\ \A i \in 1..Len(answers[1]) : answers'[1][i] = answers[1][i]
          /\ answers'[1][Len(answers[1]) + 1] = a
      BY <1>2, <3>1, AppendProperties
    <3>3. \A i \in 1..Len(answers'[1]) :
             answers'[1][i].code = THANK_YOU_1604
               => i \in 1..Len(answers[1])
                  /\ answers[1][i].code = THANK_YOU_1604
      BY <1>2, <3>1, <3>2
    <3> QED
      BY <3>3 DEF Thanked, clientVars
  <2> QED
    BY <1>1, <2>1, <2>2 DEF ServerEffect, Sent
<1> QED
  BY <1>4, <1>5 DEF VerdictInv, SameRecord, clientVars

LEMMA ServerKeepsVerdict ==
  ASSUME TypesAndRecords, VerdictInv, MaxRuns = 1, NEW c \in Conns,
         ServerStep(c), UNCHANGED clientVars
  PROVE  VerdictInv'
<1> USE DEF TypesAndRecords
<1>1. /\ run # 0 /\ c = 1 /\ stream[1] \in Seq(Requests)
      /\ answers[1] \in Seq(Answers)
  BY ServerNeedsLink
     DEF VerdictInv, Conns, TypeOK, ConnectionTypeOK
<1>2. ASSUME ServerPart(c, Codes), SameRecord \/ UNCHANGED storeVars
      PROVE  VerdictInv'
  BY <1>1, <1>2, QuietServerStep DEF ServerPart, SameRecord, storeVars
<1>3. CASE ReadGarbage(c)
  BY <1>2, <1>3, ReadGarbageStep DEF ReadGarbage
<1>4. CASE ReadShort(c)
  BY <1>2, <1>4, ReadShortStep DEF ReadShort
<1>5. CASE registration_request_825(c)
  BY <1>2, <1>5, RegistrationStep
<1>6. CASE reconnection_request_827(c)
  BY <1>2, <1>6, ReconnectionStep
<1>7. CASE send_public_key_request_826(c)
  BY <1>2, <1>7, PublicKeyStep
\* Once the client is thanked no packet is left in the stream.
<1>8. CASE send_file_request_828(c)
  <2>1. stream[1] # <<>> /\ stream[1][1].code = SEND_FILE_828
    BY <1>1, <1>8, HeadType DEF send_file_request_828, TypeOK
  <2>2. 1 \in 1..Len(stream[1])
    BY <1>1, <2>1
  <2>3. ~Thanked
    BY <2>1, <2>2, RequestCodesFacts DEF VerdictInv, Only, FinishCodes
  <2> QED
    BY <1>1, <1>8, <2>3, SendFileStep, QuietServerStep DEF ServerPart
\* The file is settled by the first 900 or 902, which is the verdict.
<1>9. CASE crc_response_900_901_902(c)
  <2>1. /\ stream[1] # <<>> /\ Head(stream[1]) = stream[1][1]
        /\ 1 \in 1..Len(stream[1])
    BY <1>1, <1>9, HeadType DEF crc_response_900_901_902, TypeOK
  <2> DEFINE code == Head(stream[c]).code
  <2>2. CASE /\ \E a \in Codes : ServerEffect(c, a)
             /\ UNCHANGED table
             /\ file # "unverified" => UNCHANGED <<file, disk>>
    <3>1. Thanked => file # "unverified"
      BY DEF VerdictInv
    <3> QED
      BY <1>1, <2>2, <3>1, QuietServerStep DEF SameRecord
  <2>3. CASE /\ ServerEffect(c, THANK_YOU_1604) /\ file = "unverified"
             /\ \/ Kept(code) /\ table' = set_valid_crc("verified")
                \/ Dropped(code) /\ table' = delete_file
    <3>1. stream[1][1].code \in FinishCodes
      BY <1>1, <2>1, <2>3 DEF FinishCodes, Kept, Dropped
    <3>2. Only(stream[1], verdict) /\ stream[1][1].code = verdict
      BY <2>1, <3>1 DEF VerdictInv, FollowedBy, Only
    <3>3. FollowedBy(stream'[1], verdict) /\ Only(stream'[1], verdict)
      BY <1>1, <2>3, <3>2, EndKeeps DEF VerdictInv, ServerEffect
    <3>4. /\ set_valid_crc("verified").file = "verified"
          /\ delete_file.file = "absent"
      <4>1. "verified" \in FileStates /\ table.file # "absent"
        BY <2>3 DEF FileStates, RowsFit
      <4> QED
        BY <4>1, RowType DEF TypeOK
    <3>5. \/ /\ verdict = VALID_CRC_900
             /\ file' = "verified" /\ table'.file = "verified"
          \/ /\ verdict = WRONG_CRC_4TH_902
             /\ file' = "absent" /\ table'.file = "absent" /\ disk' = <<>>
      BY <1>1, <2>1, <2>3, <3>2, <3>4 DEF Kept, Dropped
    <3> QED
      BY <1>1, <3>3, <3>5 DEF VerdictInv, clientVars
  <2>4. \/ /\ \E a \in Codes : ServerEffect(c, a)
           /\ UNCHANGED table
           /\ file # "unverified" => UNCHANGED <<file, disk>>
        \/ /\ ServerEffect(c, THANK_YOU_1604) /\ file = "unverified"
           /\ \/ Kept(code) /\ table' = set_valid_crc("verified")
              \/ Dropped(code) /\ table' = delete_file
    BY <1>9, CrcResponseStep
  <2> QED
    BY <2>2, <2>3, <2>4
<1>10. CASE EndOfStream(c) \/ ReadReset(c)
  BY <1>2, <1>10, OtherServerStep
<1> QED
  BY <1>3, <1>4, <1>5, <1>6, <1>7, <1>8, <1>9, <1>10 DEF ServerStep

LEMMA VerdictInitially == Init => VerdictInv
<1> SUFFICES ASSUME Init PROVE VerdictInv
  OBVIOUS
<1>1. /\ stream[1] = <<>> /\ answers[1] = <<>> /\ link[1] = "idle"
  BY ConnectionAssumption DEF Init, ConnectionInit, Conns
<1>2. Len(<<>>) = 0
  OBVIOUS
<1>3. ~Thanked /\ FollowedBy(stream[1], verdict)
  BY <1>1, <1>2 DEF Init, Thanked, FollowedBy
<1> QED
  BY <1>1, <1>3 DEF Init, VerdictInv, Thanked

LEMMA VerdictPreserved ==
  ASSUME MaxRuns = 1
  PROVE  TypesAndRecords /\ VerdictInv /\ [Next]_vars => VerdictInv'
<1> SUFFICES ASSUME TypesAndRecords, VerdictInv, [Next]_vars
             PROVE  VerdictInv'
  OBVIOUS
\* The only run there is: nothing was sent before it.
<1>1. CASE Start
  <2>1. run = 0 /\ run' = 1 /\ verdict' = 0 /\ outcome' = "running"
        /\ UNCHANGED <<stream, answers>>
    BY <1>1 DEF Start, StartRun, TypesAndRecords, TypeOK, ClientTypeOK
  <2>2. stream'[1] = <<>> /\ answers'[1] = <<>> /\ Len(<<>>) = 0
    BY <2>1 DEF VerdictInv
  <2>3. ~Thanked' /\ FollowedBy(stream'[1], verdict')
    BY <2>1, <2>2 DEF Thanked, FollowedBy
  <2> QED
    BY <2>1, <2>3, RequestCodesFacts DEF VerdictInv, Thanked
<1>2. CASE Client
  BY <1>2, ClientKeepsVerdict
     DEF Client, serverVars, storeVars, SameRecord, TypesAndRecords
<1>3. CASE ClientKilled
  BY <1>3, LeaveKeepsVerdict
     DEF ClientKilled, Kill, serverVars, storeVars, SameRecord,
         TypesAndRecords
<1>4. CASE \E c \in Conns : Server(c)
  BY <1>4, ServerKeepsVerdict DEF Server
<1>5. CASE ServerRestart
  BY <1>5 DEF ServerRestart, Restart, connectionVars, clientVars,
              VerdictInv, Thanked
<1>6. CASE UNCHANGED vars
  BY <1>6 DEF vars, connectionVars, clientVars, serverVars, storeVars,
              VerdictInv, Thanked
<1> QED
  BY <1>1, <1>2, <1>3, <1>4, <1>5, <1>6 DEF Next, Finished

(* In one run of the client, whatever is split, damaged or fails on the    *)
(* way, and however often the server is restarted: when the_end reports    *)
(* the file kept the server has marked it valid, in its list and for its   *)
(* next start, and when it reports it deleted neither object nor row nor   *)
(* file is left.                                                           *)
THEOREM VerdictsAgree ==
  ASSUME MaxRuns = 1
  PROVE  Spec => []VerdictAgreement
<1>1. VerdictInv => VerdictAgreement
  BY RequestCodesFacts DEF VerdictInv, VerdictAgreement, Thanked
<1>2. TypesAndRecords /\ VerdictInv /\ [Next]_vars => VerdictInv'
  BY VerdictPreserved
<1> QED
  BY <1>1, <1>2, VerdictInitially, TypesInitially, TypesPreserved, PTL
     DEF Spec

-----------------------------------------------------------------------------
(* One run of the client implements Upload, for every number of packets,   *)
(* tries and faults of every kind.                                         *)

(* The server has carried out what the client decided.                     *)
Settled ==
  \/ verdict = VALID_CRC_900 /\ {file, table.file} = {"verified"}
  \/ verdict = WRONG_CRC_4TH_902 /\ {file, table.file} = {"absent"}

(* A checksum was sent, so there is a record of the file.                  *)
Summed ==
  \E i \in 1..Len(answers[1]) : answers[1][i].code = VALID_FILE_AND_CRC_1603

(* What the refinement needs beyond VerdictInv: at the decision object and *)
(* row are "unverified", so nothing is settled yet, whichever of the two a *)
(* failing call or a restart leaves behind; nothing but copies of the      *)
(* decision is left in the stream once it is; and a run reports once.      *)
UploadInv ==
  /\ verdict # VALID_CRC_900 => file # "verified"
  /\ table.file = "verified" => file = "verified"
  /\ verdict = VALID_CRC_900 => file # "absent"
  /\ verdict \notin FinishCodes /\ Summed => file # "absent"
  /\ Settled => Only(stream[1], verdict)
  /\ pc # "off" => outcome = "running"
  /\ run = 0 => verdict = 0 /\ outcome = "none"

Failures == Outcomes \ {"none", "running", "success", "deleted"}

-----------------------------------------------------------------------------
(* The client.                                                             *)

\* What a step of the client may do to its verdict and its report.
Goes    == UNCHANGED <<verdict, outcome>> /\ pc' # "off"
Fails   == UNCHANGED verdict /\ pc' = "off" /\ outcome' \in Failures
Reports == /\ UNCHANGED verdict /\ pc' = "off" /\ Thanked
           /\ outcome' = IF verdict = VALID_CRC_900 THEN "success" ELSE "deleted"
Repeats == /\ verdict \notin FinishCodes /\ verdict' \notin FinishCodes
           /\ UNCHANGED outcome /\ pc' # "off"
Decides == /\ verdict \notin FinishCodes /\ verdict' \in FinishCodes
           /\ Summed /\ UNCHANGED outcome /\ pc' # "off"

Kinds == Goes \/ Fails \/ Reports \/ Repeats \/ Decides

LEMMA FailureFacts ==
  {"killed", "no_private_key", "too_many_tries", "too_many_sends",
   "unrecognized", "wrong_information", "cannot_decrypt", "connection_failed"}
     \subseteq Failures
BY DEF Failures, Outcomes

LEMMA ExitKind ==
  ASSUME NEW how \in Failures, NEW left, Exit(how, left)
  PROVE  Kinds
BY DEF Exit, Leave, Kinds, Fails

LEMMA RetryKind ==
  ASSUME NEW again \in Places \ {"off"}, NEW how \in Failures, GeneralError(again, how)
  PROVE  Kinds
<1>1. CASE Exit(how, FALSE)
  BY <1>1, ExitKind
<1>2. CASE pc' = again /\ UNCHANGED <<verdict, outcome>>
  BY <1>2 DEF Kinds, Goes
<1> QED
  BY <1>1, <1>2 DEF GeneralError

LEMMA WrongIdKind ==
  ASSUME NEW nul, WrongId(nul)
  PROVE  Kinds
BY ExitKind, FailureFacts DEF WrongId

LEMMA UnrecognizedKind ==
  ASSUME NEW codes, Unrecognized(codes)
  PROVE  Kinds
BY ExitKind, FailureFacts DEF Unrecognized

LEMMA GetAesKeyKind ==
  ASSUME NEW nul, GetAesKey(nul)
  PROVE  Kinds
<1>1. CASE WrongId(nul)
  BY <1>1, WrongIdKind
<1>2. CASE Exit("cannot_decrypt", FALSE)
  BY <1>2, ExitKind, FailureFacts
<1>3. CASE pc' = "send_file" /\ UNCHANGED <<verdict, outcome>>
  BY <1>3 DEF Kinds, Goes
<1> QED
  BY <1>1, <1>2, <1>3 DEF GetAesKey

LEMMA CrcAnswerKind ==
  ASSUME TypeOK, VerdictInv, MaxRuns = 1, NEW nul, OnCrcAnswer(nul)
  PROVE  Kinds
<1>1. /\ pc = "await_828" /\ run = 1 /\ answers[1] \in Seq(Answers)
      /\ answers[1] # <<>>
  BY DEF OnCrcAnswer, Answered, TypeOK, ClientTypeOK, ConnectionTypeOK, Conns
<1>2. CASE GeneralError("send_file", "too_many_sends")
  BY <1>2, RetryKind, FailureFacts DEF Places
<1>3. CASE WrongId(nul)
  BY <1>3, WrongIdKind
<1>4. CASE Unrecognized({GENERAL_ERROR_1607, VALID_FILE_AND_CRC_1603})
  BY <1>4, UnrecognizedKind
<1>5. CASE /\ Received.code = VALID_FILE_AND_CRC_1603
           /\ verdict' = FinishCode(Received.match)
           /\ IF FinishCode(Received.match) = WRONG_CRC_TRY_AGAIN_901
              THEN pc' = "send_file" ELSE pc' = "await_end"
           /\ UNCHANGED outcome
  <2>1. verdict \notin FinishCodes
    BY <1>1 DEF VerdictInv
  <2>2. Summed
    BY <1>1, <1>5, HeadTailProperties DEF Summed, Received
  <2>3. verdict' \in FinishCodes \/ verdict' = WRONG_CRC_TRY_AGAIN_901
    BY <1>5 DEF FinishCode, FinishCodes
  <2>4. pc' # "off"
    BY <1>5
  <2> QED
    BY <1>5, <2>1, <2>2, <2>3, <2>4, RequestCodesFacts DEF Kinds, Repeats, Decides
<1> QED
  BY <1>2, <1>3, <1>4, <1>5 DEF OnCrcAnswer

LEMMA FinalAnswerKind ==
  ASSUME TypeOK, MaxRuns = 1, NEW nul, OnFinalAnswer(nul)
  PROVE  Kinds
<1>1. /\ pc = "await_end" /\ run = 1 /\ answers[1] \in Seq(Answers)
      /\ answers[1] # <<>>
  BY DEF OnFinalAnswer, Answered, TypeOK, ClientTypeOK, ConnectionTypeOK, Conns
<1>2. CASE Exit("too_many_tries", FALSE)
  BY <1>2, ExitKind, FailureFacts
<1>3. CASE UNCHANGED <<pc, outcome, verdict>>
  BY <1>1, <1>3 DEF Kinds, Goes
<1>4. CASE /\ Received.code = THANK_YOU_1604
           /\ Exit(IF verdict = VALID_CRC_900 THEN "success" ELSE "deleted",
                   FALSE)
  <2>1. Thanked
    BY <1>1, <1>4, HeadTailProperties DEF Thanked, Received
  <2> QED
    BY <1>4, <2>1 DEF Exit, Leave, Kinds, Reports
<1>5. CASE WrongId(nul)
  BY <1>5, WrongIdKind
<1>6. CASE Unrecognized({GENERAL_ERROR_1607, THANK_YOU_1604})
  BY <1>6, UnrecognizedKind
<1> QED
  BY <1>2, <1>3, <1>4, <1>5, <1>6 DEF OnFinalAnswer

LEMMA ClientKind ==
  ASSUME TypeOK, VerdictInv, MaxRuns = 1, NEW nul, ClientStep(nul)
  PROVE  Kinds
<1>1. CASE SendReconnect
  <2>1. CASE Leave("no_private_key", answers[run] # <<>>) /\ UNCHANGED verdict
    BY <2>1, FailureFacts DEF Leave, Kinds, Fails
  <2>2. CASE pc' = "await_827" /\ UNCHANGED <<outcome, verdict>>
    BY <2>2 DEF Kinds, Goes
  <2> QED
    BY <1>1, <2>1, <2>2 DEF SendReconnect
<1>2. CASE OnReconnectAnswer(nul)
  <2>1. CASE GeneralError("reconnect", "too_many_tries")
    BY <2>1, RetryKind, FailureFacts DEF Places
  <2>2. CASE pc' = "register" /\ UNCHANGED <<outcome, verdict>>
    BY <2>2 DEF Kinds, Goes
  <2>3. CASE GetAesKey(nul)
    BY <2>3, GetAesKeyKind
  <2>4. CASE \E codes : Unrecognized(codes)
    BY <2>4, UnrecognizedKind
  <2> QED
    BY <1>2, <2>1, <2>2, <2>3, <2>4 DEF OnReconnectAnswer
<1>3. CASE SendRegistration
  BY <1>3 DEF SendRegistration, Kinds, Goes
<1>4. CASE OnRegistrationAnswer
  <2>1. CASE GeneralError("register", "too_many_tries")
    BY <2>1, RetryKind, FailureFacts DEF Places
  <2>2. CASE pc' = "make_keys" /\ UNCHANGED <<outcome, verdict>>
    BY <2>2 DEF Kinds, Goes
  <2>3. CASE \E codes : Unrecognized(codes)
    BY <2>3, UnrecognizedKind
  <2> QED
    BY <1>4, <2>1, <2>2, <2>3 DEF OnRegistrationAnswer
<1>5. CASE CreateMeInfo \/ CreatePrivKeyFile \/ SendPublicKey
  BY <1>5 DEF CreateMeInfo, CreatePrivKeyFile, SendPublicKey, Kinds, Goes
<1>6. CASE OnPublicKeyAnswer(nul)
  <2>1. CASE GeneralError("make_keys", "too_many_tries")
    BY <2>1, RetryKind, FailureFacts DEF Places
  <2>2. CASE GetAesKey(nul)
    BY <2>2, GetAesKeyKind
  <2>3. CASE \E codes : Unrecognized(codes)
    BY <2>3, UnrecognizedKind
  <2> QED
    BY <1>6, <2>1, <2>2, <2>3 DEF OnPublicKeyAnswer
<1>7. CASE SendPacket
  BY <1>7 DEF SendPacket, Kinds, Goes
<1>8. CASE OnCrcAnswer(nul)
  BY <1>8, CrcAnswerKind
<1>9. CASE OnFinalAnswer(nul)
  BY <1>9, FinalAnswerKind
<1>10. CASE ReadFails
  BY <1>10, FailureFacts DEF ReadFails, Leave, Kinds, Fails
<1> QED
  BY <1>1, <1>2, <1>3, <1>4, <1>5, <1>6, <1>7, <1>8, <1>9, <1>10
     DEF ClientStep

\* The client only takes answers.
LEMMA ClientTakesAnswers ==
  ASSUME TypeOK, MaxRuns = 1, pc # "off",
         (\E nul : ClientStep(nul)) \/ Kill
  PROVE  run' = run /\ (Summed' => Summed)
<1> DEFINE Took == \/ answers' = answers
                   \/ Answered /\ answers' = [answers EXCEPT ![run] = Tail(@)]
                   \/ answers' = [answers EXCEPT ![run] = <<>>]
<1>1. ASSUME NEW how, NEW left, Exit(how, left)  PROVE Took /\ run' = run
  BY <1>1 DEF Exit, Leave
<1>2. ASSUME Answered, NEW again, NEW how, GeneralError(again, how)
      PROVE  Took /\ run' = run
  BY <1>1, <1>2 DEF GeneralError, TakeAnswer
<1>3. ASSUME Answered, NEW nul, GetAesKey(nul)  PROVE Took /\ run' = run
  BY <1>1, <1>3 DEF GetAesKey, TakeAnswer, WrongId
<1> HIDE DEF Took
<1>4. Took /\ run' = run
  <2>1. CASE \E nul : OnReconnectAnswer(nul) \/ OnPublicKeyAnswer(nul)
    BY <1>1, <1>2, <1>3, <2>1
       DEF OnReconnectAnswer, OnPublicKeyAnswer, TakeAnswer, Unrecognized, Took
  <2>2. CASE OnRegistrationAnswer
    BY <1>1, <1>2, <2>2 DEF OnRegistrationAnswer, TakeAnswer, Unrecognized, Took
  <2>3. CASE \E nul : OnCrcAnswer(nul)
    BY <1>1, <1>2, <2>3
       DEF OnCrcAnswer, SendFinishRequest, WrongId, Unrecognized, Took
  <2>4. CASE \E nul : OnFinalAnswer(nul)
    BY <1>1, <2>4
       DEF OnFinalAnswer, SendFinishRequest, WrongId, Unrecognized, Took
  <2>5. CASE SendReconnect
    BY <2>5 DEF SendReconnect, Leave, Took
  <2>6. CASE SendRegistration \/ CreateMeInfo \/ CreatePrivKeyFile
             \/ SendPublicKey \/ SendPacket
    BY <2>6 DEF SendRegistration, CreateMeInfo, CreatePrivKeyFile,
                SendPublicKey, SendPacket, connectionVars, Took
  <2>7. CASE ReadFails \/ Kill
    BY <2>7 DEF ReadFails, Kill, Leave, Took
  <2> QED
    BY <2>1, <2>2, <2>3, <2>4, <2>5, <2>6, <2>7 DEF ClientStep
<1>5. \A i \in 1..Len(answers'[1]) :
         \E j \in 1..Len(answers[1]) : answers'[1][i] = answers[1][j]
  BY <1>4, FewerAnswers DEF Took
<1> QED
  BY <1>4, <1>5 DEF Summed

\* Once it has decided, it only repeats its decision.
LEMMA ClientRepeats ==
  ASSUME TypeOK, VerdictInv, MaxRuns = 1, pc # "off", verdict \in FinishCodes,
         (\E nul : ClientStep(nul)) \/ Kill
  PROVE  Only(stream[1], verdict) => Only(stream'[1], verdict)
<1>1. pc = "await_end" /\ run = 1 /\ stream[1] \in Seq(Requests)
  BY DEF VerdictInv, TypeOK, ClientTypeOK, ConnectionTypeOK, Conns
<1> DEFINE r == Request(verdict, client_id)
<1>2. \/ stream' = stream
      \/ stream' = [stream EXCEPT ![run] = Append(@, r)]
  <2>1. CASE \E nul : OnFinalAnswer(nul)
    BY <2>1 DEF OnFinalAnswer, Exit, Leave, SendFinishRequest, WrongId, Unrecognized
  <2>2. CASE ReadFails \/ Kill
    BY <2>2 DEF ReadFails, Kill, Leave
  <2> QED
    BY <1>1, <2>1, <2>2
       DEF ClientStep, SendReconnect, OnReconnectAnswer, SendRegistration,
           OnRegistrationAnswer, CreateMeInfo, CreatePrivKeyFile, SendPublicKey,
           OnPublicKeyAnswer, SendPacket, OnCrcAnswer
<1>3. r \in Requests /\ InOrder(r)
  BY RequestType DEF Request, RequestCodes, CrcCodes, InOrder, TypeOK, ClientTypeOK
<1> HIDE DEF r
<1>4. stream'[1] \in {stream[1], Append(stream[1], r)}
  BY <1>1, <1>2 DEF TypeOK, ConnectionTypeOK, Conns
<1> QED
  BY <1>1, <1>3, <1>4, AppendKeeps

LEMMA ClientKeepsUpload ==
  ASSUME TypeOK, VerdictInv, UploadInv, MaxRuns = 1, pc # "off",
         (\E nul : ClientStep(nul)) \/ Kill, SameRecord
  PROVE  UploadInv' /\ Kinds
<1>1. Kinds
  <2>1. CASE Kill
    BY <2>1, FailureFacts DEF Kill, Leave, Kinds, Fails
  <2> QED
    BY <2>1, ClientKind
<1>2. run' = run /\ run # 0 /\ (Summed' => Summed)
  BY ClientTakesAnswers DEF TypeOK, ClientTypeOK
<1>3. /\ pc' # "off" => outcome' = "running"
      /\ verdict' = verdict \/ verdict \notin FinishCodes
  BY <1>1 DEF Kinds, Goes, Fails, Reports, Repeats, Decides, UploadInv
<1>4. verdict \notin FinishCodes /\ verdict' \in FinishCodes => Summed
  <2>1. CASE UNCHANGED verdict
    BY <2>1
  <2>2. CASE Repeats \/ Decides
    BY <2>2 DEF Repeats, Decides
  <2> QED
    BY <1>1, <2>1, <2>2 DEF Kinds, Goes, Fails, Reports
<1>5. VALID_CRC_900 \in FinishCodes /\ WRONG_CRC_4TH_902 \in FinishCodes
      /\ VALID_CRC_900 # WRONG_CRC_4TH_902
  BY RequestCodesFacts DEF FinishCodes
<1>6. CASE verdict \in FinishCodes
  <2>1. verdict' = verdict
    BY <1>3, <1>6
  <2>2. file' = file /\ table'.file = table.file
    BY DEF SameRecord
  <2>3. Settled' <=> Settled
    BY <2>1, <2>2 DEF Settled
  <2>4. Settled' => Only(stream'[1], verdict')
    BY <1>6, <2>1, <2>3, ClientRepeats DEF UploadInv
  <2> QED
    BY <1>1, <1>2, <1>3, <1>6, <2>1, <2>2, <2>4 DEF UploadInv
<1>7. CASE verdict \notin FinishCodes
  <2>1. CASE verdict' \notin FinishCodes
    <3>1. ~Settled'
      BY <1>5, <2>1 DEF Settled
    <3> QED
      BY <1>1, <1>2, <1>3, <1>5, <1>7, <2>1, <3>1 DEF UploadInv, SameRecord
  <2>2. CASE verdict' \in FinishCodes
    <3>1. file' # "absent" /\ file' # "verified"
      BY <1>4, <1>5, <1>7, <2>2 DEF UploadInv, SameRecord
    <3>2. ~Settled'
      BY <3>1 DEF Settled
    <3> QED
      BY <1>1, <1>2, <1>3, <2>2, <3>1, <3>2 DEF UploadInv, SameRecord
  <2> QED
    BY <2>1, <2>2
<1> QED
  BY <1>6, <1>7

-----------------------------------------------------------------------------
(* The server.                                                             *)

\* At most one answer is added, of this code.
Adds(code) ==
  \/ answers'[1] = answers[1]
  \/ \E a \in Answers : a.code = code /\ answers'[1] = Append(answers[1], a)

LEMMA EffectAdds ==
  ASSUME TypeOK, MaxRuns = 1, NEW code, ServerEffect(1, code)
  PROVE  Adds(code)
<1>1. 1 \in Conns /\ answers \in [Conns -> Seq(Answers)]
  BY DEF Conns, TypeOK, ConnectionTypeOK
<1> QED
  BY <1>1 DEF ServerEffect, Sent, Adds

LEMMA AddedSum ==
  ASSUME TypeOK, MaxRuns = 1, NEW code, Adds(code), Summed'
  PROVE  Summed \/ code = VALID_FILE_AND_CRC_1603
<1>1. answers[1] \in Seq(Answers)
  BY DEF Conns, TypeOK, ConnectionTypeOK
<1>2. CASE answers'[1] = answers[1]
  BY <1>2 DEF Summed
<1>3. CASE \E a \in Answers : a.code = code /\ answers'[1] = Append(answers[1], a)
  <2>1. PICK a \in Answers : a.code = code /\ answers'[1] = Append(answers[1], a)
    BY <1>3
  <2>2. /\ Len(answers'[1]) = Len(answers[1]) + 1 /\ Len(answers[1]) \in Nat
        /\ \A i \in 1..Len(answers[1]) : answers'[1][i] = answers[1][i]
        /\ answers'[1][Len(answers[1]) + 1] = a
    BY <1>1, <2>1, AppendProperties
  <2>3. PICK i \in 1..Len(answers'[1]) :
           answers'[1][i].code = VALID_FILE_AND_CRC_1603
    BY DEF Summed
  <2>4. i \in 1..Len(answers[1]) \/ i = Len(answers[1]) + 1
    BY <2>2
  <2> QED
    BY <2>1, <2>2, <2>3, <2>4 DEF Summed
<1> QED
  BY <1>2, <1>3 DEF Adds

\* Only send_file_request_828 answers with a checksum.
LEMMA OtherAnswers ==
  /\ \A code \in BareAnswers : code # VALID_FILE_AND_CRC_1603
  /\ REGISTERING_DONE_1600 # VALID_FILE_AND_CRC_1603
  /\ GET_PUBLIC_KEY_SEND_AES_1602 # VALID_FILE_AND_CRC_1603
  /\ THANK_YOU_1604 # VALID_FILE_AND_CRC_1603
  /\ VALID_RECONNECT_1605 # VALID_FILE_AND_CRC_1603
  /\ INVALID_RECONNECT_1606 # VALID_FILE_AND_CRC_1603
  /\ GENERAL_ERROR_1607 \in BareAnswers /\ REGISTERING_FAILED_1601 \in BareAnswers
BY DEF BareAnswers, REGISTERING_DONE_1600, REGISTERING_FAILED_1601,
       GET_PUBLIC_KEY_SEND_AES_1602, VALID_FILE_AND_CRC_1603, THANK_YOU_1604,
       VALID_RECONNECT_1605, INVALID_RECONNECT_1606, GENERAL_ERROR_1607

NoSum == \E code : code # VALID_FILE_AND_CRC_1603 /\ Adds(code)

LEMMA SendNoSum ==
  ASSUME TypeOK, MaxRuns = 1, NEW rest, NEW a \in Answers,
         a.code # VALID_FILE_AND_CRC_1603, Send(1, rest, a)
  PROVE  NoSum
<1>1. 1 \in Conns /\ answers \in [Conns -> Seq(Answers)]
  BY DEF Conns, TypeOK, ConnectionTypeOK
<1>2. answers' = answers \/ answers' = [answers EXCEPT ![1] = Append(@, a)]
  BY DEF Send, ServerExit
<1>3. Adds(a.code)
  BY <1>1, <1>2 DEF Adds
<1> QED
  BY <1>3 DEF NoSum

LEMMA RaiseNoSum ==
  ASSUME TypeOK, MaxRuns = 1, NEW rest, NEW n, NEW code \in BareAnswers,
         Raise(1, rest, n, code)
  PROVE  NoSum
<1>1. Answer(code, "none") \in Answers /\ Answer(code, "none").code = code
  BY AnswerType DEF Answer, AnswerCodes, Ids
<1>2. PICK d \in Cleaned(rest, n) : Send(1, d[1], Answer(code, "none"))
  BY DEF Raise
<1> QED
  BY <1>1, <1>2, SendNoSum, OtherAnswers

LEMMA ErrorNoSum ==
  ASSUME TypeOK, MaxRuns = 1, NEW split
  PROVE  /\ Error(1, split) => NoSum
         /\ NoAnswer(1, split) => NoSum
         /\ \A code \in BareAnswers : IoError(1, split, code) => NoSum
<1>1. NoAnswer(1, split) => NoSum
  BY OtherAnswers DEF NoAnswer, NoSum, Adds
<1> QED
  BY <1>1, RaiseNoSum, OtherAnswers DEF Error, IoError

LEMMA ReplyNoSum ==
  ASSUME TypeOK, MaxRuns = 1, NEW split, NEW a \in Answers,
         a.code # VALID_FILE_AND_CRC_1603, Reply(1, split, a)
  PROVE  NoSum
BY SendNoSum DEF Reply

LEMMA ServerSums ==
  ASSUME TypeOK, MaxRuns = 1, ServerStep(1)
  PROVE  NoSum \/ file' # "absent"
<1> USE OtherAnswers
<1>1. registered \in Ids /\ aes_key + 1 \in Nat /\ public_key \in Int
      /\ 1 \in Conns /\ "new" \in Ids /\ "stray" \in Ids
  BY DEF TypeOK, ServerTypeOK, Conns, Ids
<1>2. ASSUME NEW codes, Readable(1, codes)
      PROVE  Head(stream[1]).id \in Ids /\ Head(stream[1]).pair \in Int
  BY <1>1, <1>2, HeadType DEF TypeOK, Requests
<1>3. ASSUME NEW id \in Ids,
             NEW code \in {REGISTERING_DONE_1600, INVALID_RECONNECT_1606,
                           THANK_YOU_1604},
             NEW split, Reply(1, split, Answer(code, id))
      PROVE  NoSum
  <2>1. Answer(code, id) \in Answers /\ Answer(code, id).code = code
    BY <1>3, AnswerType DEF AnswerCodes, Answer
  <2> QED
    BY <1>3, <2>1, ReplyNoSum
<1>3a. ASSUME NEW id \in Ids, NEW key \in Nat, NEW pair \in Int,
              NEW code \in {VALID_RECONNECT_1605, GET_PUBLIC_KEY_SEND_AES_1602},
              NEW split, Reply(1, split, AesAnswer(code, id, key, pair))
       PROVE  NoSum
  <2>1. /\ AesAnswer(code, id, key, pair) \in Answers
        /\ AesAnswer(code, id, key, pair).code = code
    <3>1. code \in AnswerCodes
      BY DEF AnswerCodes
    <3>2. AesAnswer(code, id, key, pair).code = code
      BY DEF AesAnswer, Answer
    <3> QED
      BY <3>1, <3>2, AnswerType
  <2> QED
    BY <1>3a, <2>1, ReplyNoSum
<1>4. CASE ReadGarbage(1) \/ ReadShort(1)
  BY <1>4, RaiseNoSum DEF ReadGarbage, ReadShort
<1>5. CASE registration_request_825(1)
  BY <1>1, <1>3, <1>5, RaiseNoSum, ErrorNoSum
     DEF registration_request_825
<1>6. CASE reconnection_request_827(1)
  <2>1. Head(stream[1]).id \in Ids
    BY <1>2, <1>6 DEF reconnection_request_827
  <2> QED
    BY <1>1, <1>3, <1>6, <1>3a, <2>1, ErrorNoSum
       DEF reconnection_request_827, create_send_aes
<1>7. CASE send_public_key_request_826(1)
  <2>1. Head(stream[1]).pair \in Int
    BY <1>2, <1>7 DEF send_public_key_request_826
  <2> QED
    BY <1>1, <1>7, <1>3a, <2>1, ErrorNoSum
       DEF send_public_key_request_826, create_send_aes
<1>8. CASE send_file_request_828(1)
  <2>1. ~Unwelcome(Head(stream[1])) => Recorded(Head(stream[1])) # "absent"
    BY DEF Unwelcome, Recorded
  <2> QED
    BY <1>8, <2>1, ErrorNoSum DEF send_file_request_828
<1>9. CASE crc_response_900_901_902(1)
  BY <1>1, <1>3, <1>9, ErrorNoSum DEF crc_response_900_901_902
<1>10. CASE EndOfStream(1) \/ ReadReset(1)
  BY <1>10 DEF EndOfStream, ReadReset, ServerExit, NoSum, Adds
<1> QED
  BY <1>4, <1>5, <1>6, <1>7, <1>8, <1>9, <1>10 DEF ServerStep

\* What a step of the server does to object and row, and which request did it.
First828 == /\ Head(stream[1]).code = SEND_FILE_828
            /\ file' = "unverified"
            /\ \/ table'.file = "unverified"
               \/ table'.file = table.file /\ file # "absent"
Accepted == /\ file = "unverified"
            /\ \/ Kept(Head(stream[1]).code)
                  /\ table'.file \in {table.file, "verified"}
               \/ Dropped(Head(stream[1]).code)
                  /\ table'.file \in {table.file, "absent"}

LEMMA RecordEffect ==
  ASSUME TypesAndRecords, MaxRuns = 1, ServerStep(1)
  PROVE  /\ EndOf(stream[1], stream'[1])
         /\ \/ UNCHANGED <<file, table.file>>
            \/ /\ First828 \/ Accepted
               /\ stream[1] # <<>> /\ Head(stream[1]) = stream[1][1]
<1> USE DEF TypesAndRecords
<1>1. 1 \in Conns
  BY DEF Conns
<1>2. ASSUME ServerPart(1, Codes)  PROVE EndOf(stream[1], stream'[1])
  BY <1>1, <1>2 DEF ServerPart, ServerEffect
<1>3. CASE ReadGarbage(1)
  BY <1>1, <1>2, <1>3, ReadGarbageStep DEF ReadGarbage, storeVars
<1>4. CASE ReadShort(1)
  BY <1>1, <1>2, <1>4, ReadShortStep DEF ReadShort, storeVars
<1>5. CASE registration_request_825(1)
  BY <1>1, <1>2, <1>5, RegistrationStep DEF SameRecord
<1>6. CASE reconnection_request_827(1)
  BY <1>1, <1>2, <1>6, ReconnectionStep DEF SameRecord
<1>7. CASE send_public_key_request_826(1)
  BY <1>1, <1>2, <1>7, PublicKeyStep DEF SameRecord
<1>8. CASE send_file_request_828(1)
  <2>1. EndOf(stream[1], stream'[1])
    BY <1>1, <1>2, <1>8, SendFileStep
  <2>2. /\ stream[1] # <<>> /\ Head(stream[1]) = stream[1][1]
        /\ Head(stream[1]).code = SEND_FILE_828
    BY <1>1, <1>8, HeadType DEF send_file_request_828, TypeOK
  <2>3. \/ UNCHANGED <<file, table>>
        \/ /\ file' = Recorded(Head(stream[1]))
           /\ \/ table' = RecordedRow(Head(stream[1]))
              \/ UNCHANGED table /\ file # "absent"
    BY <1>1, <1>8, SendFileStep
  <2>4. file # "absent" => set_valid_crc("unverified").file = "unverified"
    <3>1. "unverified" \in FileStates
      BY DEF FileStates
    <3> QED
      BY <3>1, RowType DEF RowsFit, TypeOK
  <2>5. add_file_db.file = "unverified"
    BY RowType DEF TypeOK
  <2> QED
    BY <2>1, <2>2, <2>3, <2>4, <2>5 DEF Recorded, RecordedRow, First828
<1>9. CASE crc_response_900_901_902(1)
  <2>1. EndOf(stream[1], stream'[1])
    BY <1>1, <1>9, CrcResponseStep DEF ServerEffect
  <2>2. stream[1] # <<>> /\ Head(stream[1]) = stream[1][1]
    BY <1>1, <1>9, HeadType DEF crc_response_900_901_902, TypeOK
  <2>3. /\ delete_file.file = "absent"
        /\ file # "absent" => set_valid_crc("verified").file = "verified"
    <3>1. "verified" \in FileStates
      BY DEF FileStates
    <3> QED
      BY <3>1, RowType DEF RowsFit, TypeOK
  <2>4. UNCHANGED <<file, table.file>> \/ Accepted
    BY <1>1, <1>9, <2>3, CrcResponseStep DEF Accepted, Kept, Dropped
  <2> QED
    BY <2>1, <2>2, <2>4
<1>10. CASE EndOfStream(1) \/ ReadReset(1)
  BY <1>1, <1>2, <1>10, OtherServerStep DEF storeVars
<1> QED
  BY <1>3, <1>4, <1>5, <1>6, <1>7, <1>8, <1>9, <1>10 DEF ServerStep

LEMMA ServerKeepsUpload ==
  ASSUME TypesAndRecords, VerdictInv, UploadInv, MaxRuns = 1, ServerStep(1),
         UNCHANGED clientVars
  PROVE  /\ UploadInv' /\ run # 0
         /\ \/ UNCHANGED table.file /\ (Settled' <=> Settled)
            \/ ~Settled /\ ~Settled' /\ table'.file = "unverified"
            \/ /\ ~Settled /\ Settled' /\ table.file = "unverified"
               /\ verdict = VALID_CRC_900 \/ verdict = WRONG_CRC_4TH_902
<1>1. /\ TypeOK /\ 1 \in Conns /\ run # 0 /\ stream[1] \in Seq(Requests)
      /\ UNCHANGED <<run, verdict, outcome, pc>>
  BY ServerNeedsLink
     DEF VerdictInv, Conns, TypesAndRecords, TypeOK, ConnectionTypeOK, clientVars
<1>2. /\ EndOf(stream[1], stream'[1])
      /\ \/ UNCHANGED <<file, table.file>>
         \/ /\ First828 \/ Accepted
            /\ stream[1] # <<>> /\ Head(stream[1]) = stream[1][1]
  BY RecordEffect
<1>3. Only(stream[1], verdict) => Only(stream'[1], verdict')
  BY <1>1, <1>2, EndKeeps
<1>4. Summed' => Summed \/ file' # "absent"
  BY <1>1, ServerSums, AddedSum DEF NoSum
<1>5. VALID_CRC_900 \in FinishCodes /\ WRONG_CRC_4TH_902 \in FinishCodes
      /\ VALID_CRC_900 # WRONG_CRC_4TH_902 /\ SEND_FILE_828 \notin FinishCodes
  BY RequestCodesFacts DEF FinishCodes
<1>6. table.file \in FileStates /\ (file # "absent" => table.file # "absent")
  BY <1>1 DEF TypesAndRecords, RowsFit, TypeOK, ServerTypeOK, Rows
<1>7. CASE UNCHANGED <<file, table.file>>
  <2>1. Settled' <=> Settled
    BY <1>1, <1>7 DEF Settled
  <2> QED
    BY <1>1, <1>3, <1>4, <1>7, <2>1 DEF UploadInv
<1>8. CASE stream[1] # <<>> /\ Head(stream[1]) = stream[1][1] /\ First828
  <2>1. 1 \in 1..Len(stream[1]) /\ stream[1][1].code \notin FinishCodes
    BY <1>1, <1>5, <1>8 DEF First828
  <2>2. ~Settled
    BY <1>5, <2>1 DEF Settled, UploadInv, Only
  <2>3. ~Settled'
    BY <1>8 DEF Settled, First828
  <2>4. table.file # "verified"
    BY <1>5, <2>2 DEF Settled, UploadInv
  <2>5. table'.file = "unverified"
    BY <1>6, <1>8, <2>4 DEF First828, FileStates
  <2> QED
    BY <1>1, <1>8, <2>2, <2>3, <2>5 DEF UploadInv, First828
<1>9. CASE stream[1] # <<>> /\ Head(stream[1]) = stream[1][1] /\ Accepted
  <2>1. 1 \in 1..Len(stream[1]) /\ stream[1][1].code \in FinishCodes
    BY <1>1, <1>5, <1>9 DEF Accepted, Kept, Dropped
  <2>2. stream[1][1].code = verdict /\ Only(stream[1], verdict)
    BY <2>1 DEF VerdictInv, FollowedBy, Only
  <2>3. table.file = "unverified" /\ ~Settled /\ file = "unverified"
    BY <1>6, <1>9 DEF Settled, UploadInv, Accepted, FileStates
  <2>4. Only(stream'[1], verdict')
    BY <1>3, <2>2
  <2>5. CASE verdict = VALID_CRC_900
    <3>1. file' = "verified" /\ table'.file \in {"unverified", "verified"}
      BY <1>5, <1>9, <2>2, <2>3, <2>5 DEF Accepted, Kept, Dropped
    <3>2. UploadInv'
      BY <1>1, <1>5, <2>4, <2>5, <3>1 DEF UploadInv
    <3>3. CASE table'.file = "verified"
      BY <1>1, <2>3, <2>5, <3>1, <3>2, <3>3 DEF Settled
    <3>4. CASE table'.file = "unverified"
      <4>1. ~Settled'
        BY <3>4 DEF Settled
      <4> QED
        BY <1>1, <2>3, <3>2, <3>4, <4>1
    <3> QED
      BY <3>1, <3>3, <3>4
  <2>6. CASE verdict = WRONG_CRC_4TH_902
    <3>1. file' = "absent" /\ table'.file \in {"unverified", "absent"}
      BY <1>5, <1>9, <2>2, <2>3, <2>6 DEF Accepted, Kept, Dropped
    <3>2. UploadInv'
      BY <1>1, <1>5, <2>4, <2>6, <3>1 DEF UploadInv
    <3>3. CASE table'.file = "absent"
      BY <1>1, <2>3, <2>6, <3>1, <3>2, <3>3 DEF Settled
    <3>4. CASE table'.file = "unverified"
      <4>1. ~Settled'
        BY <3>4 DEF Settled
      <4> QED
        BY <1>1, <2>3, <3>2, <3>4, <4>1
    <3> QED
      BY <3>1, <3>3, <3>4
  <2> QED
    BY <2>1, <2>2, <2>5, <2>6 DEF FinishCodes
<1> QED
  BY <1>1, <1>2, <1>7, <1>8, <1>9

-----------------------------------------------------------------------------
(* The refinement, step by step.                                           *)

(* Under the refinement mapping: the client's decision and its report.     *)
Decision ==
  CASE verdict = VALID_CRC_900 -> "keep"
    [] verdict = WRONG_CRC_4TH_902 -> "drop"
    [] OTHER -> "open"
Reported ==
  CASE outcome \in {"none", "running"} -> "none"
    [] outcome = "success" -> "kept"
    [] outcome = "deleted" -> "dropped"
    [] OTHER -> "failed"

LEMMA DecisionFacts ==
  /\ verdict \notin FinishCodes => Decision = "open"
  /\ verdict = VALID_CRC_900 => Decision = "keep"
  /\ verdict = WRONG_CRC_4TH_902 => Decision = "drop"
  /\ verdict \notin FinishCodes => ~Settled
BY RequestCodesFacts DEF Decision, Settled, FinishCodes

LEMMA ReportedFacts ==
  /\ outcome \in {"none", "running"} => Reported = "none"
  /\ outcome = "success" => Reported = "kept"
  /\ outcome = "deleted" => Reported = "dropped"
  /\ outcome \in Failures => Reported = "failed"
BY DEF Reported, Failures

\* A step of Upload, in the terms of the session.
AbstractStep ==
  \/ /\ ~Settled /\ table'.file = "unverified"
     /\ Decision' = Decision /\ (Settled' <=> Settled) /\ Reported' = Reported
  \/ /\ Decision = "open" /\ Reported = "none" /\ Decision' \in {"keep", "drop"}
     /\ UNCHANGED table.file
     /\ (Settled' <=> Settled) /\ Reported' = Reported
  \/ /\ ~Settled /\ table.file = "unverified"
     /\ \/ Decision = "keep" /\ table'.file = "verified"
        \/ Decision = "drop" /\ table'.file = "absent"
     /\ Settled'
     /\ Decision' = Decision /\ Reported' = Reported
  \/ /\ Reported = "none" /\ Settled
     /\ Reported' = IF Decision = "keep" THEN "kept" ELSE "dropped"
     /\ Decision' = Decision
     /\ UNCHANGED table.file /\ (Settled' <=> Settled)
  \/ /\ Reported = "none" /\ Reported' = "failed"
     /\ Decision' = Decision
     /\ UNCHANGED table.file /\ (Settled' <=> Settled)
  \/ /\ Decision' = Decision /\ Reported' = Reported
     /\ UNCHANGED table.file /\ (Settled' <=> Settled)

LEMMA ClientImplements ==
  ASSUME TypeOK, VerdictInv, UploadInv, MaxRuns = 1, pc # "off", Kinds,
         SameRecord
  PROVE  AbstractStep
<1>1. outcome = "running" /\ Reported = "none"
  BY ReportedFacts DEF UploadInv
<1>2. Thanked => Settled
  BY DEF VerdictInv, Settled
<1>3. /\ UNCHANGED verdict => Decision' = Decision /\ (Settled' <=> Settled)
      /\ UNCHANGED table.file
  BY DEF Decision, Settled, SameRecord
<1>4. /\ outcome' = "running" => Reported' = "none"
      /\ outcome' = "success" => Reported' = "kept"
      /\ outcome' = "deleted" => Reported' = "dropped"
      /\ outcome' \in Failures => Reported' = "failed"
  BY DEF Reported, Failures
<1>5. VALID_CRC_900 # WRONG_CRC_4TH_902
  BY RequestCodesFacts
<1>6. CASE Goes
  BY <1>1, <1>3, <1>4, <1>6 DEF Goes, AbstractStep
<1>7. CASE Fails
  BY <1>1, <1>3, <1>4, <1>7 DEF Fails, AbstractStep
<1>8. CASE Reports
  <2>1. Settled /\ (verdict = VALID_CRC_900 \/ verdict = WRONG_CRC_4TH_902)
    BY <1>2, <1>8 DEF Reports, Settled
  <2>2. Reported' = IF Decision = "keep" THEN "kept" ELSE "dropped"
    BY <1>4, <1>5, <1>8, <2>1, DecisionFacts DEF Reports
  <2> QED
    BY <1>1, <1>3, <1>8, <2>1, <2>2 DEF Reports, AbstractStep
<1>9. CASE Repeats
  <2>1. Decision = "open" /\ Decision' = "open" /\ ~Settled /\ ~Settled'
    BY <1>9, RequestCodesFacts DEF Repeats, Decision, Settled, FinishCodes
  <2> QED
    BY <1>1, <1>3, <1>4, <1>9, <2>1 DEF Repeats, AbstractStep
<1>10. CASE Decides
  <2>1. Decision = "open" /\ ~Settled
    BY <1>10, DecisionFacts DEF Decides
  <2>2. Decision' \in {"keep", "drop"}
    BY <1>10, RequestCodesFacts DEF Decides, Decision, FinishCodes
  <2>3. ~Settled'
    <3>1. file' # "verified" /\ file' # "absent"
      BY <1>10, RequestCodesFacts
         DEF Decides, UploadInv, SameRecord, FinishCodes
    <3> QED
      BY <3>1 DEF Settled
  <2> QED
    BY <1>1, <1>3, <1>4, <1>10, <2>1, <2>2, <2>3 DEF Decides, AbstractStep
<1> QED
  BY <1>6, <1>7, <1>8, <1>9, <1>10 DEF Kinds

LEMMA ServerImplements ==
  ASSUME TypesAndRecords, VerdictInv, UploadInv, MaxRuns = 1, ServerStep(1),
         UNCHANGED clientVars
  PROVE  AbstractStep
<1>1. UNCHANGED <<verdict, outcome>>
  BY DEF clientVars
<1>2. Decision' = Decision /\ Reported' = Reported
  BY <1>1 DEF Decision, Reported
<1>3. CASE UNCHANGED table.file /\ (Settled' <=> Settled)
  BY <1>2, <1>3 DEF AbstractStep
<1>4. CASE ~Settled /\ ~Settled' /\ table'.file = "unverified"
  BY <1>2, <1>4 DEF AbstractStep
<1>5. CASE /\ ~Settled /\ Settled' /\ table.file = "unverified"
           /\ verdict = VALID_CRC_900 \/ verdict = WRONG_CRC_4TH_902
  <2>1. \/ verdict = VALID_CRC_900 /\ table'.file = "verified"
        \/ verdict = WRONG_CRC_4TH_902 /\ table'.file = "absent"
    BY <1>1, <1>5 DEF Settled
  <2> QED
    BY <1>2, <1>5, <2>1, DecisionFacts DEF AbstractStep
<1> QED
  BY <1>3, <1>4, <1>5, ServerKeepsUpload

LEMMA UploadInitially == Init => UploadInv
<1> SUFFICES ASSUME Init PROVE UploadInv
  OBVIOUS
<1>1. stream[1] = <<>> /\ answers[1] = <<>> /\ Len(<<>>) = 0
  BY ConnectionAssumption DEF Init, ConnectionInit, Conns
<1>2. ~Summed /\ Only(stream[1], verdict)
  BY <1>1 DEF Summed, Only
<1>3. /\ verdict = 0 /\ file = "absent" /\ table.file = "absent"
      /\ pc = "off" /\ run = 0 /\ outcome = "none"
  BY DEF Init
<1>4. verdict \notin FinishCodes /\ verdict # VALID_CRC_900
      /\ verdict # WRONG_CRC_4TH_902
  BY <1>3, RequestCodesFacts DEF FinishCodes
<1> QED
  BY <1>2, <1>3, <1>4 DEF UploadInv

LEMMA UploadPreserved ==
  ASSUME MaxRuns = 1
  PROVE  TypesAndRecords /\ VerdictInv /\ UploadInv /\ [Next]_vars
           => UploadInv' /\ AbstractStep
<1> SUFFICES ASSUME TypesAndRecords, VerdictInv, UploadInv, [Next]_vars
             PROVE  UploadInv' /\ AbstractStep
  OBVIOUS
<1>1. TypeOK
  BY DEF TypesAndRecords
<1>2. CASE Start
  <2>1. /\ run = 0 /\ run' = 1 /\ verdict' = 0 /\ outcome' = "running"
        /\ verdict = 0 /\ outcome = "none"
        /\ UNCHANGED <<stream, answers, file, table>>
    BY <1>1, <1>2 DEF Start, StartRun, serverVars, storeVars, TypeOK,
                      ClientTypeOK, UploadInv
  <2>2. Summed' => Summed
    BY <2>1 DEF Summed
  <2>3. Decision' = Decision /\ (Settled' <=> Settled) /\ Reported' = Reported
    BY <2>1 DEF Decision, Settled, Reported
  <2>4. UploadInv'
    BY <2>1, <2>2, RequestCodesFacts DEF UploadInv, Settled, FinishCodes
  <2> QED
    BY <2>1, <2>3, <2>4 DEF AbstractStep
<1>3. CASE Client \/ ClientKilled
  <2>1. /\ (\E nul : ClientStep(nul)) \/ Kill
        /\ SameRecord
    BY <1>3 DEF Client, ClientKilled, serverVars, storeVars, SameRecord
  <2>2. pc # "off"
    <3>1. CASE Kill
      BY <3>1 DEF Kill
    <3>2. CASE \E nul : ClientStep(nul)
      BY <3>2 DEF ClientStep, SendReconnect, OnReconnectAnswer,
         SendRegistration, OnRegistrationAnswer, CreateMeInfo,
         CreatePrivKeyFile, SendPublicKey, OnPublicKeyAnswer, SendPacket,
         OnCrcAnswer, OnFinalAnswer, ReadFails, Waiting
    <3> QED
      BY <2>1, <3>1, <3>2
  <2>3. UploadInv' /\ Kinds
    BY <1>1, <2>1, <2>2, ClientKeepsUpload
  <2> QED
    BY <1>1, <2>1, <2>2, <2>3, ClientImplements
<1>4. CASE \E c \in Conns : Server(c)
  <2>1. ServerStep(1) /\ UNCHANGED clientVars
    BY <1>4 DEF Server, Conns
  <2> QED
    BY <2>1, ServerKeepsUpload, ServerImplements
<1>5. CASE UNCHANGED vars
  <2>1. UNCHANGED <<stream, answers, file, table, run, pc, outcome, verdict>>
    BY <1>5 DEF vars, connectionVars, serverVars, storeVars, clientVars
  <2> QED
    BY <2>1 DEF UploadInv, Settled, Summed, AbstractStep, Decision, Reported
\* The list is read back; it does not matter which of the two had changed.
<1>6. CASE ServerRestart
  <2>1. /\ UNCHANGED <<stream, answers, table, run, pc, outcome, verdict>>
        /\ file' = table.file
    BY <1>6 DEF ServerRestart, Restart, connectionVars, clientVars
  <2>2. file # "absent" => table.file # "absent"
    BY DEF TypesAndRecords, RowsFit
  <2>3. Settled' <=> Settled
    BY <2>1, <2>2 DEF Settled, UploadInv
  <2>4. UploadInv'
    BY <2>1, <2>2, <2>3 DEF UploadInv, Summed
  <2> QED
    BY <2>1, <2>3, <2>4 DEF AbstractStep, Decision, Reported
<1> QED
  BY <1>2, <1>3, <1>4, <1>5, <1>6 DEF Next, Finished

(* One run of the client program and the server's handlers, whatever is    *)
(* split, damaged, killed or fails: the client decides once, crc_checking  *)
(* before it sends 900 or 902; crc_response_900_901_902 carries that       *)
(* decision out at most once, in list and row, and neither a packet nor a  *)
(* restart that reads the rows back touches the record afterwards;         *)
(* the_end reports it only after that.                                     *)
THEOREM RunIsUpload ==
  ASSUME MaxRuns = 1
  PROVE  Spec => IsUpload
<1>1. Init => upload!Init
  <2> SUFFICES ASSUME Init PROVE upload!Init
    OBVIOUS
  <2>1. verdict = 0 /\ table.file = "absent" /\ outcome = "none"
    BY DEF Init
  <2> QED
    BY <2>1 DEF upload!Init, VALID_CRC_900, WRONG_CRC_4TH_902
<1>2. AbstractStep => [upload!Next]_(upload!uploadVars)
  BY DEF AbstractStep, Decision, Settled, Reported, upload!Next, upload!Store,
         upload!Decide, upload!Settle, upload!Report, upload!Fail,
         upload!uploadVars
<1>3. TypesAndRecords /\ VerdictInv /\ UploadInv /\ [Next]_vars
        => UploadInv' /\ AbstractStep
  BY UploadPreserved
<1>4. TypesAndRecords /\ VerdictInv /\ [Next]_vars => VerdictInv'
  BY VerdictPreserved
<1> QED
  BY <1>1, <1>2, <1>3, <1>4, TypesInitially, TypesPreserved, VerdictInitially,
     UploadInitially, PTL DEF Spec, IsUpload, upload!Spec
=============================================================================
