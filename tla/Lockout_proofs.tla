--------------------------- MODULE Lockout_proofs ----------------------------
(***************************************************************************)
(* Installations that come back, for every number of runs, tries, packets  *)
(* and faults. While no call of the server fails, one that has succeeded   *)
(* fits the server's records. And whatever fails: one whose files no       *)
(* longer fit the server's table never uploads again.                      *)
(***************************************************************************)
EXTENDS TransferSession_proofs

Live == {"open", "closed", "reset"}

(* Which connections there are, and which of them may hold requests.       *)
Linked ==
  /\ \A c \in Conns : c > run => link[c] = "idle"
  /\ \A c \in Conns : c # run \/ pc = "off" => answers[c] = <<>>
  /\ \A c \in Conns : link[c] \in {"idle", "lost", "gone"} => stream[c] = <<>>
  /\ pc # "off" => link[run] \in {"open", "lost"}
  /\ \A c \in Conns : link[c] \in {"open", "lost"} => c = run /\ pc # "off"
  /\ \A c, d \in Conns : link[c] = "lost" => link[d] \notin Live

KeyMaking == {"make_keys", "save_key", "send_key", "await_826"}
InSession == {"send_file", "await_828", "await_end"}

\* A public key for the id this model hands out, which a handler may read.
IsKey(r) == r.code = SEND_PUBLIC_KEY_826 /\ r.id = "new" /\ ~r.cut
KeyAt(c, i) == i \in 1..Len(stream[c]) /\ IsKey(stream[c][i])

\* No connection but the current run's holds such a key.
Sole == \A c \in Conns \ {run} : \A i \in 1..Len(stream[c]) : ~KeyAt(c, i)

(* The id of a registration reaches one run only, which is the only one    *)
(* that sends public keys for it.                                          *)
Naming ==
  /\ registered \in {"none", "old", "new", "other"}
  /\ pc \in KeyMaking => client_id \in {"new", "stray"}
  /\ pc \in KeyMaking /\ client_id = "new" => registered = "new" /\ Sole
  /\ pc \in KeyMaking \ {"make_keys"} => me_info = client_id
  /\ pc = "await_827" => me_info = client_id
  /\ pc \in {"send_key", "await_826", "await_827"} => my_pair = priv_key

(* Its key pairs are numbered upwards: what is still in the stream is      *)
(* newer than the key the server has, and not newer than priv.key.         *)
KeysSent ==
  /\ \A c \in Conns : \A i \in 1..Len(stream[c]) :
       stream[c][i].code = SEND_PUBLIC_KEY_826 => stream[c][i].id \in {"new", "stray"}
  /\ \A c \in Conns : \A i \in 1..Len(stream[c]) : KeyAt(c, i) =>
       /\ registered = "new"
       /\ 0 < stream[c][i].pair /\ public_key < stream[c][i].pair
       /\ stream[c][i].pair <= priv_key
       /\ pc \in {"save_key", "send_key"} => stream[c][i].pair < my_pair
  /\ \A c \in Conns : \A i, j \in 1..Len(stream[c]) :
       KeyAt(c, i) /\ KeyAt(c, j) /\ i < j => stream[c][i].pair < stream[c][j].pair
  /\ \A c, d \in Conns : \A i \in 1..Len(stream[c]), j \in 1..Len(stream[d]) :
       KeyAt(c, i) /\ KeyAt(d, j) => c = d

Pairs ==
  /\ public_key <= priv_key /\ priv_key <= last_pair
  /\ pc \in {"save_key", "send_key"} => /\ my_pair = last_pair /\ 0 < my_pair
                                       /\ public_key < my_pair
  /\ pc = "save_key" => priv_key < my_pair

AesCodes == {GET_PUBLIC_KEY_SEND_AES_1602, VALID_RECONNECT_1605}

(* An answer the client has not read: a new id is for this run alone; an   *)
(* AES key encrypted for the pair of priv.key is for the server's public   *)
(* key too.                                                                *)
HeardOK(a) ==
  /\ a.code = REGISTERING_DONE_1600 => a.id \in {"new", "stray"}
  /\ a.code = REGISTERING_DONE_1600 /\ a.id = "new" => registered = "new" /\ Sole
  /\ a.code \in AesCodes => /\ a.id = registered /\ registered # "none"
                            /\ 0 < a.pair /\ a.pair <= priv_key
                            /\ a.pair = priv_key => public_key = a.pair
Heard == run > 0 => \A i \in 1..Len(answers[run]) : HeardOK(answers[run][i])

\* The installation and the server agree on the id and on the key pair.
Fits ==
  /\ registered # "none" /\ registered = client_id /\ client_id = me_info
  /\ 0 < priv_key /\ priv_key = public_key
  /\ ~nul_id

LockInv ==
  /\ Linked /\ Naming /\ KeysSent /\ Pairs /\ Heard
  /\ pc \in InSession \/ outcome = "success" => Fits

-----------------------------------------------------------------------------
(* What the server leaves of a stream: an end of it without the request it *)
(* read, of which the rest may stay as something that is no request.       *)

Left(s, t) ==
  /\ t \in Seq(Requests)
  /\ \E k \in 0..Len(s) :
       /\ Len(t) = Len(s) - k
       /\ \A i \in 1..Len(t) : /\ t[i].code = s[k + i].code
                               /\ t[i].id = s[k + i].id
                               /\ ~t[i].cut => k + i > 1 /\ t[i] = s[k + i]

LEMMA CutRequest ==
  ASSUME NEW s \in Seq(Requests), s # <<>>
  PROVE  /\ Cut(s) \in Seq(Requests) /\ Len(Cut(s)) = Len(s)
         /\ Cut(s)[1].cut /\ Cut(s)[1].code = s[1].code /\ Cut(s)[1].id = s[1].id
         /\ \A i \in 1..Len(s) : i > 1 => Cut(s)[i] = s[i]
<1> DEFINE h == [Head(s) EXCEPT !.cut = TRUE]
<1>1. Head(s) \in Requests /\ Tail(s) \in Seq(Requests) /\ Head(s) = s[1]
  BY HeadTailProperties
<1>2. h \in Requests /\ h.code = s[1].code /\ h.id = s[1].id /\ h.cut
  BY <1>1 DEF Requests
<1>3. <<h>> \in Seq(Requests) /\ Len(<<h>>) = 1 /\ <<h>>[1] = h
  BY <1>2
<1>4. Cut(s) = <<h>> \o Tail(s)
  BY DEF Cut
<1> HIDE DEF h
<1>5. /\ <<h>> \o Tail(s) \in Seq(Requests)
      /\ Len(<<h>> \o Tail(s)) = 1 + Len(Tail(s))
      /\ \A i \in 1..Len(s) : (<<h>> \o Tail(s))[i] =
                                 IF i <= 1 THEN <<h>>[i] ELSE Tail(s)[i - 1]
  BY <1>1, <1>3, ConcatProperties
<1>6. Len(s) \in Nat /\ Len(s) >= 1 /\ 1 + Len(Tail(s)) = Len(s)
  BY HeadTailProperties
<1>7. \A i \in 1..Len(s) : i > 1 => Tail(s)[i - 1] = s[i]
  BY HeadTailProperties
<1>8. (<<h>> \o Tail(s))[1] = h
  BY <1>3, <1>5, <1>6
<1> QED
  BY <1>2, <1>4, <1>5, <1>6, <1>7, <1>8

LEMMA TailLeft ==
  ASSUME NEW s \in Seq(Requests), s # <<>>
  PROVE  Left(s, Tail(s)) /\ Left(s, Cut(s))
<1>1. /\ Tail(s) \in Seq(Requests) /\ Len(s) \in Nat /\ Len(s) >= 1
      /\ Len(Tail(s)) = Len(s) - 1
      /\ \A i \in 1..Len(Tail(s)) : Tail(s)[i] = s[1 + i]
  BY HeadTailProperties
<1>2. Left(s, Tail(s))
  BY <1>1 DEF Left
<1>3. Left(s, Cut(s))
  <2>1. /\ 0 \in 0..Len(s) /\ Len(Cut(s)) = Len(s) - 0
        /\ \A i \in 1..Len(Cut(s)) : /\ Cut(s)[i].code = s[0 + i].code
                                     /\ Cut(s)[i].id = s[0 + i].id
                                     /\ ~Cut(s)[i].cut => 0 + i > 1 /\ Cut(s)[i] = s[0 + i]
    BY <1>1, CutRequest
  <2> QED
    BY <2>1, CutRequest DEF Left
<1> QED
  BY <1>2, <1>3

LEMMA NothingLeft ==
  ASSUME NEW s \in Seq(Requests)
  PROVE  Left(s, <<>>)
<1>1. <<>> \in Seq(Requests) /\ Len(<<>>) = 0 /\ 1..0 = {}
  OBVIOUS
<1>2. Len(s) \in 0..Len(s) /\ 0 = Len(s) - Len(s)
  OBVIOUS
<1> QED
  BY <1>1, <1>2 DEF Left

LEMMA SuffixLeft ==
  ASSUME NEW s \in Seq(Requests), NEW t, Left(s, t), NEW j \in 1..(Len(t) + 1)
  PROVE  /\ Left(s, Suffix(t, j))
         /\ Suffix(t, j) # <<>> => Left(s, Cut(Suffix(t, j)))
<1> DEFINE u == Suffix(t, j)
<1>1. PICK k \in 0..Len(s) :
         /\ Len(t) = Len(s) - k
         /\ \A i \in 1..Len(t) : /\ t[i].code = s[k + i].code
                                 /\ t[i].id = s[k + i].id
                                 /\ ~t[i].cut => k + i > 1 /\ t[i] = s[k + i]
  BY DEF Left
<1>2. /\ u \in Seq(Requests) /\ Len(u) = Len(t) - (j - 1)
      /\ \A i \in 1..Len(u) : u[i] = t[(j - 1) + i]
  BY SubSeqProperties DEF Suffix, Left
<1> HIDE DEF u
<1>3. Len(t) \in Nat /\ Len(s) \in Nat /\ Len(u) \in Nat
  BY <1>2 DEF Left
<1>4. k + (j - 1) \in 0..Len(s) /\ Len(u) = Len(s) - (k + (j - 1))
  BY <1>1, <1>2, <1>3
<1>5. ASSUME NEW i \in 1..Len(u)
      PROVE  /\ u[i].code = s[(k + (j - 1)) + i].code
             /\ u[i].id = s[(k + (j - 1)) + i].id
             /\ ~u[i].cut => (k + (j - 1)) + i > 1 /\ u[i] = s[(k + (j - 1)) + i]
  <2>1. (j - 1) + i \in 1..Len(t) /\ k + ((j - 1) + i) = (k + (j - 1)) + i
    BY <1>2, <1>3
  <2>2. u[i] = t[(j - 1) + i]
    BY <1>2
  <2> QED
    BY <1>1, <2>1, <2>2
<1>6. Left(s, u)
  BY <1>2, <1>4, <1>5 DEF Left
<1>7. ASSUME u # <<>>  PROVE Left(s, Cut(u))
  <2>1. /\ Cut(u) \in Seq(Requests) /\ Len(Cut(u)) = Len(u)
        /\ Cut(u)[1].cut /\ Cut(u)[1].code = u[1].code /\ Cut(u)[1].id = u[1].id
        /\ \A i \in 1..Len(u) : i > 1 => Cut(u)[i] = u[i]
    BY <1>2, <1>7, CutRequest
  <2>2. ASSUME NEW i \in 1..Len(u)
        PROVE  /\ Cut(u)[i].code = s[(k + (j - 1)) + i].code
               /\ Cut(u)[i].id = s[(k + (j - 1)) + i].id
               /\ ~Cut(u)[i].cut => (k + (j - 1)) + i > 1
                                    /\ Cut(u)[i] = s[(k + (j - 1)) + i]
    <3>1. CASE i = 1
      BY <1>5, <2>1, <3>1
    <3>2. CASE i > 1
      BY <1>5, <2>1, <3>2
    <3> QED
      BY <3>1, <3>2
  <2> QED
    BY <1>4, <2>1, <2>2 DEF Left
<1> QED
  BY <1>6, <1>7 DEF u

-----------------------------------------------------------------------------
(* What a step of the server does to the connections when it serves c and  *)
(* answers with one of A, if at all.                                       *)

LinkStep(d) ==
  \/ link'[d] = link[d]
  \/ link[d] \in {"closed", "reset"} /\ link'[d] = "reset"
  \/ /\ link[d] \in {"open", "closed", "reset"}
     /\ link'[d] = IF link[d] = "open" THEN "lost" ELSE "gone"
     /\ stream'[d] = <<>>

Serves(c, A) ==
  /\ \A d \in Conns \ {c} : stream'[d] \in {stream[d], <<>>}
  /\ Left(stream[c], stream'[c])
  /\ \A d \in Conns : LinkStep(d)
  /\ \A d, e \in Conns : link'[d] = "lost" => link'[e] \notin Live
  /\ \/ answers' = answers
     \/ \E a \in A : /\ link[c] = "open"
                     /\ answers' = [answers EXCEPT ![c] = Append(@, a)]

LEMMA ServesMore ==
  ASSUME NEW c, NEW A, NEW B, A \subseteq B, Serves(c, A)
  PROVE  Serves(c, B)
BY DEF Serves

NoneLost == \A d \in Conns : link[d] # "lost"

LEMMA ExitServes ==
  ASSUME ConnectionTypeOK, NoneLost, NEW c \in Conns, NEW A, ServerExit
  PROVE  Serves(c, A)
<1>1. stream[c] \in Seq(Requests) /\ link \in [Conns -> Links]
  BY DEF ConnectionTypeOK
<1>2. \A d \in Conns : stream'[d] = <<>>
  BY DEF ServerExit
<1>3. \A d \in Conns : LinkStep(d)
  <2> TAKE d \in Conns
  <2>1. link'[d] = IF link[d] = "open" THEN "lost"
                   ELSE IF link[d] = "idle" THEN "idle" ELSE "gone"
    BY DEF ServerExit
  <2>2. link[d] \in {"idle", "open", "closed", "reset", "lost", "gone"}
    BY <1>1 DEF Links
  <2> QED
    BY <1>2, <2>1, <2>2 DEF LinkStep, NoneLost
<1>4. \A d \in Conns : link'[d] \notin Live
  BY <1>1 DEF ServerExit, Live
<1> QED
  BY <1>1, <1>2, <1>3, <1>4, NothingLeft DEF Serves, ServerExit

LEMMA SendServes ==
  ASSUME ConnectionTypeOK, NoneLost, NEW c \in Conns, stream[c] # <<>>,
         NEW rest, Left(stream[c], rest), NEW A, NEW a \in A, Send(c, rest, a)
  PROVE  Serves(c, A)
<1>1. CASE ServerExit
  BY <1>1, ExitServes
<1>2. CASE /\ link[c] \in {"open", "closed"}
           /\ stream' = [stream EXCEPT ![c] = rest]
           /\ link' = IF link[c] = "open" THEN link
                      ELSE [link EXCEPT ![c] = "reset"]
           /\ \/ answers' = answers
              \/ /\ link[c] = "open"
                 /\ answers' = [answers EXCEPT ![c] = Append(@, a)]
  <2>1. /\ stream'[c] = rest
        /\ \A d \in Conns \ {c} : stream'[d] = stream[d]
    BY <1>2 DEF ConnectionTypeOK
  <2>2. \A d \in Conns : LinkStep(d) /\ link'[d] # "lost"
    BY <1>2 DEF LinkStep, ConnectionTypeOK, NoneLost
  <2> QED
    BY <1>2, <2>1, <2>2 DEF Serves
<1> QED
  BY <1>1, <1>2 DEF Send

Errors == {a \in Answers : a.code \in BareAnswers}

LEMMA RestLeft ==
  ASSUME ConnectionTypeOK, NEW c \in Conns, stream[c] # <<>>, NEW split
  PROVE  Left(stream[c], Rest(c, split))
<1>1. stream[c] \in Seq(Requests)
  BY DEF ConnectionTypeOK
<1> QED
  BY <1>1, TailLeft DEF Rest

LEMMA RaiseServes ==
  ASSUME ConnectionTypeOK, NoneLost, NEW c \in Conns, stream[c] # <<>>,
         NEW rest, Left(stream[c], rest), NEW n, NEW code \in BareAnswers,
         Raise(c, rest, n, code)
  PROVE  Serves(c, Errors)
<1>1. PICK d \in Cleaned(rest, n) : Send(c, d[1], Answer(code, "none"))
  BY DEF Raise
<1>2. /\ stream[c] \in Seq(Requests) /\ rest \in Seq(Requests) /\ Len(rest) \in Nat
  BY DEF ConnectionTypeOK, Left
<1>3. Left(stream[c], d[1])
  <2>1. CASE \E i \in 1..(Len(rest) + 1) : d = <<Suffix(rest, i), n>>
    <3>1. PICK i \in 1..(Len(rest) + 1) : d = <<Suffix(rest, i), n>>
      BY <2>1
    <3>2. d[1] = Suffix(rest, i)
      BY <3>1
    <3> QED
      BY <1>2, <3>2, SuffixLeft
  <2>2. CASE \E i \in 1..Len(rest) : d = <<Cut(Suffix(rest, i)), n - 1>>
    <3>1. PICK i \in 1..Len(rest) : d = <<Cut(Suffix(rest, i)), n - 1>>
      BY <2>2
    <3>2. d[1] = Cut(Suffix(rest, i)) /\ i \in 1..(Len(rest) + 1)
      BY <1>2, <3>1
    <3>3. Len(Suffix(rest, i)) = Len(rest) - (i - 1)
      BY <1>2, <3>2, SubSeqProperties DEF Suffix
    <3>4. Suffix(rest, i) # <<>>
      BY <1>2, <3>3
    <3> QED
      BY <1>2, <3>2, <3>4, SuffixLeft
  <2> QED
    BY <2>1, <2>2 DEF Cleaned
<1>4. Answer(code, "none") \in Errors
  BY AnswerType DEF Errors, Answer, AnswerCodes, Ids
<1> QED
  BY <1>1, <1>3, <1>4, SendServes

LEMMA ErrorServes ==
  ASSUME ConnectionTypeOK, NoneLost, NEW c \in Conns, stream[c] # <<>>,
         NEW split, Error(c, split) \/ \E code \in BareAnswers : IoError(c, split, code)
  PROVE  Serves(c, Errors)
<1>1. GENERAL_ERROR_1607 \in BareAnswers
  BY DEF BareAnswers
<1> QED
  BY <1>1, RestLeft, RaiseServes DEF Error, IoError

LEMMA ReplyServes ==
  ASSUME ConnectionTypeOK, NoneLost, NEW c \in Conns, stream[c] # <<>>,
         NEW split, NEW A, NEW a \in A, Reply(c, split, a)
  PROVE  Serves(c, A)
BY RestLeft, SendServes DEF Reply

LEMMA NoAnswerServes ==
  ASSUME ConnectionTypeOK, NoneLost, NEW c \in Conns, stream[c] # <<>>,
         NEW split, NEW A, NoAnswer(c, split)
  PROVE  Serves(c, A)
<1>1. /\ stream'[c] = Rest(c, split)
      /\ \A d \in Conns \ {c} : stream'[d] = stream[d]
  BY DEF NoAnswer, ConnectionTypeOK
<1> QED
  BY <1>1, RestLeft DEF NoAnswer, Serves, LinkStep, NoneLost

-----------------------------------------------------------------------------
(* What a step of the server may do to the names and keys.                 *)

Done(id) == Answer(REGISTERING_DONE_1600, id)
AesFor(code, pair) == {a \in Answers : a.code = code /\ a.id = registered /\ a.pair = pair}
Plain == {a \in Answers : a.code \notin AesCodes \cup {REGISTERING_DONE_1600}}

sameKeys == UNCHANGED <<registered, nul_id, public_key>>

Ignores(c)    == Serves(c, Plain) /\ sameKeys
Registers(c)  == /\ registered = "none" /\ registered' = "new"
                 /\ public_key' = public_key
                 /\ Serves(c, Plain \cup {Done("new")})
Strays(c)     == Serves(c, {Done("stray")}) /\ sameKeys
Reconnects(c) == /\ registered # "none" /\ public_key > 0
                 /\ Serves(c, AesFor(VALID_RECONNECT_1605, public_key))
                 /\ sameKeys
TakesKey(c)   == LET r == stream[c][1] IN
                 /\ 1 \in 1..Len(stream[c]) /\ registered # "none"
                 /\ r.code = SEND_PUBLIC_KEY_826 /\ r.id = registered /\ ~r.cut
                 /\ UNCHANGED <<registered, nul_id>>
                 /\ \/ public_key' \in {-1, r.pair} /\ Serves(c, Plain)
                    \/ /\ public_key' = r.pair
                       /\ Serves(c, AesFor(GET_PUBLIC_KEY_SEND_AES_1602, r.pair))

ServerKinds(c) ==
  Ignores(c) \/ Registers(c) \/ Strays(c) \/ Reconnects(c) \/ TakesKey(c)

LEMMA AnswerKinds ==
  /\ Errors \subseteq Plain
  /\ \A id \in Ids : /\ Answer(INVALID_RECONNECT_1606, id) \in Plain
                     /\ Answer(THANK_YOU_1604, id) \in Plain
                     /\ \A match \in BOOLEAN : CrcAnswer(id, match) \in Plain
<1> USE DEF AesCodes, BareAnswers, REGISTERING_DONE_1600, REGISTERING_FAILED_1601,
            GET_PUBLIC_KEY_SEND_AES_1602, VALID_FILE_AND_CRC_1603,
            THANK_YOU_1604, VALID_RECONNECT_1605, INVALID_RECONNECT_1606,
            GENERAL_ERROR_1607
<1>1. Errors \subseteq Plain
  BY DEF Errors, Plain
<1>2. ASSUME NEW id \in Ids, NEW code \in {INVALID_RECONNECT_1606, THANK_YOU_1604}
      PROVE  Answer(code, id) \in Plain
  <2>1. Answer(code, id).code = code
    BY DEF Answer
  <2>2. Answer(code, id) \in Answers
    BY AnswerType DEF AnswerCodes
  <2> QED
    BY <2>1, <2>2 DEF Plain
<1>3. ASSUME NEW id \in Ids, NEW match \in BOOLEAN  PROVE CrcAnswer(id, match) \in Plain
  <2>1. CrcAnswer(id, match).code = VALID_FILE_AND_CRC_1603
    BY DEF CrcAnswer, Answer
  <2>2. CrcAnswer(id, match) \in Answers
    BY AnswerType DEF AnswerCodes
  <2> QED
    BY <2>1, <2>2 DEF Plain
<1> QED
  BY <1>1, <1>2, <1>3

LEMMA AesAnswerKind ==
  ASSUME TypeOK, NEW code \in AesCodes, NEW key \in Nat, NEW pair \in Int
  PROVE  AesAnswer(code, registered, key, pair) \in AesFor(code, pair)
<1>1. AesAnswer(code, registered, key, pair) \in Answers
  BY AnswerType DEF AesCodes, AnswerCodes, TypeOK, ServerTypeOK
<1>2. /\ AesAnswer(code, registered, key, pair).code = code
      /\ AesAnswer(code, registered, key, pair).id = registered
      /\ AesAnswer(code, registered, key, pair).pair = pair
  BY DEF AesAnswer, Answer
<1> QED
  BY <1>1, <1>2 DEF AesFor

LEMMA ErrorKind ==
  ASSUME TypeOK, NoneLost, NEW c \in Conns, stream[c] # <<>>,
         \E split : \/ Error(c, split) \/ NoAnswer(c, split)
                    \/ \E code \in BareAnswers : IoError(c, split, code)
                    \/ \E a \in Plain : Reply(c, split, a)
  PROVE  Serves(c, Plain)
<1>1. ConnectionTypeOK
  BY DEF TypeOK
<1>2. Serves(c, Errors) => Serves(c, Plain)
  BY ServesMore, AnswerKinds
<1> QED
  BY <1>1, <1>2, ErrorServes, NoAnswerServes, ReplyServes

LEMMA ShortKind ==
  ASSUME TypeOK, NoneLost, NEW c \in Conns, ReadGarbage(c) \/ ReadShort(c)
  PROVE  ServerKinds(c)
<1>1. ConnectionTypeOK /\ stream[c] # <<>> /\ stream[c] \in Seq(Requests)
  BY DEF TypeOK, ConnectionTypeOK, ReadGarbage, ReadShort, Readable
<1>2. \E n, rest : \E code \in BareAnswers :
         Left(stream[c], rest) /\ Raise(c, rest, n, code)
  <2>1. CASE ReadGarbage(c)
    BY <1>1, <2>1, TailLeft DEF ReadGarbage, BareAnswers
  <2>2. CASE ReadShort(c)
    BY <1>1, <2>2, TailLeft DEF ReadShort, BareAnswers
  <2> QED
    BY <2>1, <2>2
<1>3. Serves(c, Errors)
  BY <1>1, <1>2, RaiseServes
<1>4. Serves(c, Plain)
  BY <1>3, ServesMore, AnswerKinds
<1> QED
  BY <1>4 DEF ServerKinds, Ignores, sameKeys, ReadGarbage, ReadShort, storeVars

LEMMA RegistrationKind ==
  ASSUME TypeOK, NoneLost, NEW c \in Conns, registration_request_825(c)
  PROVE  ServerKinds(c)
<1>1. ConnectionTypeOK /\ stream[c] # <<>>
  BY DEF TypeOK, registration_request_825, Readable
<1>2. REGISTERING_FAILED_1601 \in BareAnswers
  BY DEF BareAnswers
<1>3. PICK split \in Splits :
        \/ /\ Raise(c, Rest(c, split), FaultsLeft(split), REGISTERING_FAILED_1601)
           /\ sameKeys
        \/ /\ ~NameTaken /\ registered' = "new" /\ UNCHANGED public_key
           /\ Reply(c, split, Done("new"))
        \/ Reply(c, split, Done("stray")) /\ sameKeys
        \/ /\ ~NameTaken
           /\ IoError(c, split, REGISTERING_FAILED_1601)
           /\ sameKeys \/ (registered' = "new" /\ UNCHANGED public_key)
  BY DEF registration_request_825, Done, sameKeys
<1>4. CASE /\ Raise(c, Rest(c, split), FaultsLeft(split), REGISTERING_FAILED_1601)
           /\ sameKeys
  <2>1. Serves(c, Errors)
    BY <1>1, <1>2, <1>4, RestLeft, RaiseServes
  <2>2. Serves(c, Plain)
    BY <2>1, ServesMore, AnswerKinds
  <2> QED
    BY <1>4, <2>2 DEF ServerKinds, Ignores
<1>5. CASE /\ ~NameTaken /\ registered' = "new" /\ UNCHANGED public_key
           /\ Reply(c, split, Done("new"))
  <2>1. Serves(c, Plain \cup {Done("new")})
    BY <1>1, <1>5, ReplyServes
  <2> QED
    BY <1>5, <2>1 DEF ServerKinds, Registers, NameTaken
<1>6. CASE Reply(c, split, Done("stray")) /\ sameKeys
  <2>1. Serves(c, {Done("stray")})
    BY <1>1, <1>6, ReplyServes
  <2> QED
    BY <1>6, <2>1 DEF ServerKinds, Strays
<1>7. CASE /\ ~NameTaken /\ IoError(c, split, REGISTERING_FAILED_1601)
           /\ sameKeys \/ (registered' = "new" /\ UNCHANGED public_key)
  <2>1. Serves(c, Plain)
    BY <1>1, <1>2, <1>7, ErrorKind
  <2>2. Serves(c, Plain \cup {Done("new")})
    BY <2>1, ServesMore
  <2> QED
    BY <1>7, <2>1, <2>2 DEF ServerKinds, Ignores, Registers, NameTaken
<1> QED
  BY <1>3, <1>4, <1>5, <1>6, <1>7

LEMMA ReconnectionKind ==
  ASSUME TypeOK, NoneLost, NEW c \in Conns, reconnection_request_827(c)
  PROVE  ServerKinds(c)
<1>1. /\ ConnectionTypeOK /\ stream[c] # <<>> /\ Head(stream[c]) \in Requests
      /\ Head(stream[c]).id \in Ids /\ sameKeys
  BY HeadType DEF TypeOK, reconnection_request_827, Requests, sameKeys
<1>2. GENERAL_ERROR_1607 \in BareAnswers /\ VALID_RECONNECT_1605 \in AesCodes
  BY DEF BareAnswers, AesCodes
<1>3. PICK split \in Splits :
        \/ Error(c, split)
        \/ Reply(c, split, Answer(INVALID_RECONNECT_1606, Head(stream[c]).id))
        \/ /\ IdMatches(c) /\ public_key > 0
           /\ create_send_aes(c, split, VALID_RECONNECT_1605, public_key, table)
        \/ IoError(c, split, GENERAL_ERROR_1607)
  BY DEF reconnection_request_827
<1>4. CASE /\ IdMatches(c) /\ public_key > 0
           /\ create_send_aes(c, split, VALID_RECONNECT_1605, public_key, table)
  <2>1. AesAnswer(VALID_RECONNECT_1605, registered, aes_key + 1, public_key)
          \in AesFor(VALID_RECONNECT_1605, public_key)
    BY <1>2, AesAnswerKind DEF TypeOK, ServerTypeOK
  <2>2. Serves(c, AesFor(VALID_RECONNECT_1605, public_key))
    BY <1>1, <1>4, <2>1, ReplyServes DEF create_send_aes
  <2> QED
    BY <1>1, <1>4, <2>2 DEF ServerKinds, Reconnects, IdMatches
<1>5. CASE \/ Error(c, split) \/ IoError(c, split, GENERAL_ERROR_1607)
           \/ Reply(c, split, Answer(INVALID_RECONNECT_1606, Head(stream[c]).id))
  <2>1. Serves(c, Plain)
    BY <1>1, <1>2, <1>5, ErrorKind, AnswerKinds
  <2> QED
    BY <1>1, <2>1 DEF ServerKinds, Ignores
<1> QED
  BY <1>3, <1>4, <1>5

LEMMA PublicKeyKind ==
  ASSUME TypeOK, NoneLost, NEW c \in Conns, send_public_key_request_826(c)
  PROVE  ServerKinds(c)
<1> DEFINE r == Head(stream[c])
<1>1. /\ ConnectionTypeOK /\ stream[c] # <<>> /\ stream[c] \in Seq(Requests)
      /\ r \in Requests /\ r = stream[c][1] /\ r.code = SEND_PUBLIC_KEY_826
      /\ r.pair \in Int /\ ~r.cut
  BY HeadType DEF TypeOK, send_public_key_request_826, Requests, Readable
<1>2. /\ GENERAL_ERROR_1607 \in BareAnswers
      /\ GET_PUBLIC_KEY_SEND_AES_1602 \in AesCodes /\ 1 \in 1..Len(stream[c])
  BY <1>1 DEF BareAnswers, AesCodes
<1>3. UNCHANGED <<registered, nul_id>>
  BY DEF send_public_key_request_826
<1>4. PICK split \in Splits :
        \/ Error(c, split) /\ UNCHANGED public_key
        \/ /\ IdMatches(c) /\ public_key' = r.pair
           /\ \E row : create_send_aes(c, split, GET_PUBLIC_KEY_SEND_AES_1602, r.pair, row)
        \/ /\ IdMatches(c) /\ public_key' \in {-1, r.pair}
           /\ Error(c, split) \/ IoError(c, split, GENERAL_ERROR_1607)
  BY DEF send_public_key_request_826
<1>5. ASSUME Error(c, split) \/ IoError(c, split, GENERAL_ERROR_1607)
      PROVE  Serves(c, Plain)
  BY <1>1, <1>2, <1>5, ErrorKind
<1>6. IdMatches(c) => registered # "none" /\ r.id = registered
  BY DEF IdMatches
<1> HIDE DEF r
<1>7. CASE Error(c, split) /\ UNCHANGED public_key
  BY <1>3, <1>5, <1>7 DEF ServerKinds, Ignores, sameKeys
<1>8. CASE /\ IdMatches(c) /\ public_key' = r.pair
           /\ \E row : create_send_aes(c, split, GET_PUBLIC_KEY_SEND_AES_1602, r.pair, row)
  <2>1. AesAnswer(GET_PUBLIC_KEY_SEND_AES_1602, registered, aes_key + 1, r.pair)
          \in AesFor(GET_PUBLIC_KEY_SEND_AES_1602, r.pair)
    <3>1. aes_key + 1 \in Nat
      BY DEF TypeOK, ServerTypeOK
    <3>2. r.pair \in Int
      BY <1>1
    <3> QED
      BY <1>2, <3>1, <3>2, AesAnswerKind
  <2>2. Serves(c, AesFor(GET_PUBLIC_KEY_SEND_AES_1602, r.pair))
    BY <1>1, <1>8, <2>1, ReplyServes DEF create_send_aes
  <2> QED
    BY <1>1, <1>2, <1>3, <1>6, <1>8, <2>2 DEF ServerKinds, TakesKey
<1>9. CASE /\ IdMatches(c) /\ public_key' \in {-1, r.pair}
           /\ Error(c, split) \/ IoError(c, split, GENERAL_ERROR_1607)
  BY <1>1, <1>2, <1>3, <1>5, <1>6, <1>9 DEF ServerKinds, TakesKey
<1> QED
  BY <1>4, <1>7, <1>8, <1>9

LEMMA ServerKind ==
  ASSUME TypeOK, NoneLost, NEW c \in Conns, ServerStep(c)
  PROVE  ServerKinds(c)
<1>1. GENERAL_ERROR_1607 \in BareAnswers /\ registered \in Ids
  BY DEF BareAnswers, TypeOK, ServerTypeOK
<1>2. ConnectionTypeOK
  BY DEF TypeOK
<1>3. CASE ReadGarbage(c) \/ ReadShort(c)
  BY <1>3, ShortKind
<1>4. CASE registration_request_825(c)
  BY <1>4, RegistrationKind
<1>5. CASE reconnection_request_827(c)
  BY <1>5, ReconnectionKind
<1>6. CASE send_public_key_request_826(c)
  BY <1>6, PublicKeyKind
<1>7. CASE send_file_request_828(c)
  <2>1. stream[c] # <<>> /\ sameKeys
    BY <1>7 DEF send_file_request_828, Readable, sameKeys
  <2>2. \A match \in BOOLEAN : CrcAnswer(registered, match) \in Plain
    BY <1>1, AnswerKinds
  <2>3. PICK split \in Splits : \/ Error(c, split) \/ NoAnswer(c, split)
                                \/ IoError(c, split, GENERAL_ERROR_1607)
                                \/ Reply(c, split, CrcAnswer(registered, TRUE))
                                \/ Reply(c, split, CrcAnswer(registered, FALSE))
    BY <1>7 DEF send_file_request_828, last_packet
  <2>4. Serves(c, Plain)
    BY <1>1, <2>1, <2>2, <2>3, ErrorKind
  <2> QED
    BY <2>1, <2>4 DEF ServerKinds, Ignores
<1>8. CASE crc_response_900_901_902(c)
  <2>1. stream[c] # <<>> /\ sameKeys
    BY <1>8 DEF crc_response_900_901_902, Readable, sameKeys
  <2>2. Answer(THANK_YOU_1604, registered) \in Plain
    BY <1>1, AnswerKinds
  <2>3. PICK split \in Splits : \/ Error(c, split) \/ NoAnswer(c, split)
                                \/ IoError(c, split, GENERAL_ERROR_1607)
                                \/ Reply(c, split, Answer(THANK_YOU_1604, registered))
    BY <1>8 DEF crc_response_900_901_902
  <2>4. Serves(c, Plain)
    BY <1>1, <2>1, <2>2, <2>3, ErrorKind
  <2> QED
    BY <2>1, <2>4 DEF ServerKinds, Ignores
<1>9. CASE EndOfStream(c)
  <2>1. stream[c] = <<>> /\ stream[c] \in Seq(Requests) /\ stream' = stream
    BY <1>2, <1>9 DEF EndOfStream, ConnectionTypeOK
  <2>2. \A d \in Conns : LinkStep(d) /\ link'[d] # "lost"
    BY <1>2, <1>9, <2>1 DEF EndOfStream, LinkStep, ConnectionTypeOK, NoneLost
  <2>3. Left(stream[c], stream'[c])
    BY <2>1, NothingLeft
  <2>4. Serves(c, Plain)
    BY <1>9, <2>1, <2>2, <2>3 DEF EndOfStream, Serves
  <2> QED
    BY <1>9, <2>4 DEF EndOfStream, serverVars, storeVars, ServerKinds, Ignores, sameKeys
<1>10. CASE ReadReset(c)
  <2>1. Serves(c, Plain)
    BY <1>2, <1>10, ExitServes DEF ReadReset
  <2> QED
    BY <1>10, <2>1 DEF ReadReset, storeVars, ServerKinds, Ignores, sameKeys
<1> QED
  BY <1>3, <1>4, <1>5, <1>6, <1>7, <1>8, <1>9, <1>10 DEF ServerStep

-----------------------------------------------------------------------------
(* Public keys in the streams: a step that sends none keeps their order    *)
(* and their bounds.                                                       *)

Inherits(c) ==
  \E k \in 0..Len(stream[c]) : \A i \in 1..Len(stream'[c]) :
    stream'[c][i].code = SEND_PUBLIC_KEY_826 =>
      /\ k + i \in 1..Len(stream[c])
      /\ stream[c][k + i].code = SEND_PUBLIC_KEY_826
      /\ stream'[c][i].id = stream[c][k + i].id
      /\ ~stream'[c][i].cut => stream'[c][i] = stream[c][k + i]

LEMMA SameInherits ==
  ASSUME NEW c, stream[c] \in Seq(Requests),
         stream'[c] \in {stream[c], <<>>}
  PROVE  Inherits(c)
<1>1. 0 \in 0..Len(stream[c]) /\ \A i \in 1..Len(stream[c]) : 0 + i = i
  OBVIOUS
<1>2. CASE stream'[c] = stream[c]
  BY <1>1, <1>2 DEF Inherits
<1>3. CASE stream'[c] = <<>>
  <2>1. 1..Len(stream'[c]) = {}
    BY <1>3
  <2> QED
    BY <1>1, <2>1 DEF Inherits
<1> QED
  BY <1>2, <1>3

LEMMA AppendInherits ==
  ASSUME NEW c, stream[c] \in Seq(Requests), NEW r \in Requests,
         r.code # SEND_PUBLIC_KEY_826, stream'[c] = Append(stream[c], r)
  PROVE  Inherits(c)
<1>1. /\ Len(stream[c]) \in Nat /\ Len(stream'[c]) = Len(stream[c]) + 1
      /\ \A i \in 1..Len(stream[c]) : stream'[c][i] = stream[c][i] /\ 0 + i = i
      /\ stream'[c][Len(stream[c]) + 1] = r
  BY AppendProperties
<1>2. \A i \in 1..Len(stream'[c]) : stream'[c][i].code = SEND_PUBLIC_KEY_826
                                      => i \in 1..Len(stream[c])
  BY <1>1
<1>3. 0 \in 0..Len(stream[c])
  BY <1>1
<1> QED
  BY <1>1, <1>2, <1>3 DEF Inherits

LEMMA ServesInherits ==
  ASSUME TypeOK, NEW c \in Conns, NEW A, Serves(c, A)
  PROVE  \A d \in Conns : Inherits(d)
<1>1. stream \in [Conns -> Seq(Requests)]
  BY DEF TypeOK, ConnectionTypeOK
<1>2. ASSUME NEW d \in Conns \ {c}  PROVE Inherits(d)
  BY <1>1, <1>2, SameInherits DEF Serves
<1>3. Inherits(c)
  <2>1. PICK k \in 0..Len(stream[c]) :
          /\ Len(stream'[c]) = Len(stream[c]) - k
          /\ \A i \in 1..Len(stream'[c]) :
               /\ stream'[c][i].code = stream[c][k + i].code
               /\ stream'[c][i].id = stream[c][k + i].id
               /\ ~stream'[c][i].cut => k + i > 1 /\ stream'[c][i] = stream[c][k + i]
    BY DEF Serves, Left
  <2>2. Len(stream[c]) \in Nat /\ Len(stream'[c]) \in Nat
    BY <1>1 DEF Serves, Left
  <2>3. \A i \in 1..Len(stream'[c]) : k + i \in 1..Len(stream[c])
    BY <2>1, <2>2
  <2> QED
    BY <2>1, <2>3 DEF Inherits
<1> QED
  BY <1>2, <1>3

\* A key in a stream was there before.
LEMMA KeyBefore ==
  ASSUME NEW c, Inherits(c), NEW i \in 1..Len(stream'[c]), KeyAt(c, i)'
  PROVE  \E j \in 1..Len(stream[c]) : KeyAt(c, j) /\ stream'[c][i] = stream[c][j]
BY DEF Inherits, KeyAt, IsKey

LEMMA SoleKept ==
  ASSUME \A c \in Conns : c # run => Inherits(c), run' = run, Sole
  PROVE  Sole'
BY KeyBefore DEF Sole

LEMMA PairType ==
  ASSUME TypeOK, NEW c \in Conns, NEW i \in 1..Len(stream[c])
  PROVE  stream[c][i] \in Requests /\ stream[c][i].pair \in Int
<1>1. stream[c] \in Seq(Requests)
  BY DEF TypeOK, ConnectionTypeOK
<1>2. stream[c][i] \in Requests
  BY <1>1, ElementOfSeq
<1> QED
  BY <1>2 DEF Requests

LEMMA OrderKept ==
  ASSUME TypeOK, KeysSent, NEW c \in Conns, Inherits(c), stream'[c] \in Seq(Requests),
         NEW i \in 1..Len(stream'[c]), NEW j \in 1..Len(stream'[c]),
         KeyAt(c, i)', KeyAt(c, j)', i < j
  PROVE  stream'[c][i].pair < stream'[c][j].pair
<1>1. Len(stream[c]) \in Nat /\ Len(stream'[c]) \in Nat
  BY DEF TypeOK, ConnectionTypeOK
<1>2. PICK k \in 0..Len(stream[c]) : \A l \in 1..Len(stream'[c]) :
        stream'[c][l].code = SEND_PUBLIC_KEY_826 =>
          /\ k + l \in 1..Len(stream[c])
          /\ stream[c][k + l].code = SEND_PUBLIC_KEY_826
          /\ stream'[c][l].id = stream[c][k + l].id
          /\ ~stream'[c][l].cut => stream'[c][l] = stream[c][k + l]
  BY DEF Inherits
<1>3. KeyAt(c, k + i) /\ stream'[c][i] = stream[c][k + i]
  BY <1>2 DEF KeyAt, IsKey
<1>4. KeyAt(c, k + j) /\ stream'[c][j] = stream[c][k + j]
  BY <1>2 DEF KeyAt, IsKey
<1>5. k + i < k + j /\ k + i \in 1..Len(stream[c]) /\ k + j \in 1..Len(stream[c])
  BY <1>1, <1>3, <1>4 DEF KeyAt
<1> QED
  BY <1>3, <1>4, <1>5 DEF KeysSent

LEMMA KeysKept ==
  ASSUME TypeOK, KeysSent, \A c \in Conns : Inherits(c),
         \A c \in Conns : stream'[c] \in Seq(Requests),
         registered = "new" => registered' = "new",
         public_key' = public_key,
         priv_key' \in Nat, my_pair' \in Nat, priv_key <= priv_key',
         \/ pc' \notin {"save_key", "send_key"}
         \/ pc \in {"save_key", "send_key"} /\ my_pair' = my_pair
         \/ priv_key < my_pair'
  PROVE  KeysSent'
<1>1. /\ stream \in [Conns -> Seq(Requests)] /\ priv_key \in Nat /\ my_pair \in Nat
      /\ public_key \in Int
      /\ \A c \in Conns : Len(stream[c]) \in Nat /\ Len(stream'[c]) \in Nat
  BY DEF TypeOK, ConnectionTypeOK, ClientTypeOK, ServerTypeOK
<1>2. \A c \in Conns : \A i \in 1..Len(stream'[c]) :
         stream'[c][i].code = SEND_PUBLIC_KEY_826 => stream'[c][i].id \in {"new", "stray"}
  BY DEF KeysSent, Inherits
<1>3. ASSUME NEW c \in Conns, NEW i \in 1..Len(stream'[c]), KeyAt(c, i)'
      PROVE  /\ registered' = "new"
             /\ 0 < stream'[c][i].pair /\ public_key' < stream'[c][i].pair
             /\ stream'[c][i].pair <= priv_key'
             /\ pc' \in {"save_key", "send_key"} => stream'[c][i].pair < my_pair'
  <2>1. PICK j \in 1..Len(stream[c]) : KeyAt(c, j) /\ stream'[c][i] = stream[c][j]
    BY <1>3, KeyBefore
  <2>2. /\ registered = "new" /\ 0 < stream[c][j].pair /\ public_key < stream[c][j].pair
        /\ stream[c][j].pair <= priv_key
        /\ pc \in {"save_key", "send_key"} => stream[c][j].pair < my_pair
    BY <2>1 DEF KeysSent
  <2>3. stream[c][j].pair \in Int
    BY PairType
  <2> QED
    BY <1>1, <2>1, <2>2, <2>3
<1>4. ASSUME NEW c \in Conns, NEW i \in 1..Len(stream'[c]), NEW j \in 1..Len(stream'[c]),
             KeyAt(c, i)', KeyAt(c, j)', i < j
      PROVE  stream'[c][i].pair < stream'[c][j].pair
  BY <1>1, <1>4, OrderKept
<1>5. ASSUME NEW c \in Conns, NEW d \in Conns, NEW i \in 1..Len(stream'[c]),
             NEW j \in 1..Len(stream'[d]), KeyAt(c, i)', KeyAt(d, j)'
      PROVE  c = d
  BY <1>5, KeyBefore DEF KeysSent
<1> QED
  BY <1>2, <1>3, <1>4, <1>5 DEF KeysSent

-----------------------------------------------------------------------------
(* The server keeps the invariant.                                         *)

LEMMA ServerLive ==
  ASSUME TypeOK, Linked, NEW c \in Conns, ServerStep(c)
  PROVE  link[c] \in Live /\ NoneLost /\ c <= run /\ run > 0
<1>1. link[c] \in Live
  BY DEF Live, ServerStep, ReadGarbage, ReadShort, registration_request_825,
         reconnection_request_827, send_public_key_request_826,
         send_file_request_828, crc_response_900_901_902, Readable,
         EndOfStream, ReadReset
<1>2. NoneLost
  BY <1>1 DEF NoneLost, Linked
<1>3. c \in Nat /\ c > 0 /\ run \in Nat
  BY ConnectionAssumption DEF Conns, TypeOK, ClientTypeOK
<1>4. ~(c > run)
  BY <1>1 DEF Linked, Live
<1> QED
  BY <1>1, <1>2, <1>3, <1>4

LEMMA ServesKeepsLinked ==
  ASSUME TypeOK, Linked, NEW c \in Conns, link[c] \in Live, NoneLost, NEW A,
         Serves(c, A), UNCHANGED clientVars
  PROVE  Linked'
<1>1. UNCHANGED <<run, pc>>
  BY DEF clientVars
<1>2. \A d \in Conns : LinkStep(d) /\ (d # c => stream'[d] \in {stream[d], <<>>})
  BY DEF Serves
<1>3. ASSUME NEW d \in Conns, d > run  PROVE link'[d] = "idle"
  BY <1>2, <1>3 DEF Linked, LinkStep
<1>8. ASSUME NEW d \in Conns, d # run \/ pc = "off"  PROVE answers'[d] = <<>>
  <2>1. answers[d] = <<>> /\ (link[c] = "open" => d # c)
    BY <1>8 DEF Linked
  <2> QED
    BY <2>1 DEF Serves, TypeOK, ConnectionTypeOK
<1>4. ASSUME NEW d \in Conns, link'[d] \in {"idle", "lost", "gone"}
      PROVE  stream'[d] = <<>>
  BY <1>2, <1>4 DEF LinkStep, Linked, Live
<1>5. pc # "off" => link'[run] \in {"open", "lost"}
  <2>1. ASSUME pc # "off"  PROVE run \in Conns
    BY <2>1 DEF TypeOK, ClientTypeOK, Conns
  <2> QED
    BY <1>2, <2>1 DEF LinkStep, Linked
<1>6. \A d \in Conns : link'[d] \in {"open", "lost"} => d = run /\ pc # "off"
  BY <1>2 DEF LinkStep, Linked
<1>7. \A d, e \in Conns : link'[d] = "lost" => link'[e] \notin Live
  BY DEF Serves
<1> QED
  BY <1>1, <1>3, <1>4, <1>5, <1>6, <1>7, <1>8 DEF Linked

\* Answers in reach of the client, when one of A is added.
LEMMA ServesHeard ==
  ASSUME TypeOK, Linked, Heard, NEW c \in Conns, NEW A \in SUBSET Answers, Serves(c, A),
         UNCHANGED clientVars, run > 0,
         \A a \in Answers : HeardOK(a) => HeardOK(a)',
         \A a \in A : link[c] = "open" => HeardOK(a)'
  PROVE  Heard'
<1>1. /\ run' = run /\ run \in Conns /\ answers \in [Conns -> Seq(Answers)]
      /\ answers[run] \in Seq(Answers) /\ Len(answers[run]) \in Nat
  BY DEF clientVars, TypeOK, ConnectionTypeOK, ClientTypeOK, Conns
<1>2. ASSUME NEW i \in 1..Len(answers[run]), NEW a, a = answers[run][i]
      PROVE  HeardOK(a)'
  <2>1. a \in Answers
    BY <1>1, <1>2, ElementOfSeq
  <2>2. HeardOK(a)
    BY <1>2 DEF Heard
  <2> QED
    BY <2>1, <2>2
<1>3. CASE answers'[run] = answers[run]
  BY <1>1, <1>2, <1>3 DEF Heard, HeardOK
<1>4. CASE \E a \in A : link[c] = "open" /\ answers'[run] = Append(answers[run], a)
  <2>1. PICK a \in A : link[c] = "open" /\ answers'[run] = Append(answers[run], a)
    BY <1>4
  <2>2. /\ Len(answers'[run]) = Len(answers[run]) + 1
        /\ \A i \in 1..Len(answers[run]) : answers'[run][i] = answers[run][i]
        /\ answers'[run][Len(answers[run]) + 1] = a
    BY <1>1, <2>1, AppendProperties
  <2>3. HeardOK(a)'
    BY <2>1
  <2>4. \A i \in 1..Len(answers'[run]) :
           i \in 1..Len(answers[run]) \/ i = Len(answers[run]) + 1
    BY <1>1, <2>2
  <2>5. ASSUME NEW i \in 1..Len(answers'[run]), NEW b, b = answers'[run][i]
        PROVE  HeardOK(b)'
    BY <1>2, <2>2, <2>3, <2>4, <2>5
  <2> QED
    BY <1>1, <2>5 DEF Heard, HeardOK
<1>5. \/ answers'[run] = answers[run]
      \/ \E a \in A : link[c] = "open" /\ answers'[run] = Append(answers[run], a)
  BY <1>1 DEF Serves
<1> QED
  BY <1>3, <1>4, <1>5

LEMMA KeyStepHeard ==
  ASSUME TypeOK, sameKeys, UNCHANGED clientVars, Sole => Sole', NEW a, HeardOK(a)
  PROVE  HeardOK(a)'
BY DEF HeardOK, sameKeys, clientVars

\* An answer that tells nothing about ids and keys, or what the server knows.
LEMMA AnswerHeard ==
  ASSUME TypeOK, Pairs, sameKeys, UNCHANGED clientVars, NEW a \in Answers,
         \/ a \in Plain \/ a = Done("stray")
         \/ /\ registered # "none" /\ public_key > 0
            /\ a \in AesFor(VALID_RECONNECT_1605, public_key)
  PROVE  HeardOK(a)'
<1> USE DEF REGISTERING_DONE_1600, GET_PUBLIC_KEY_SEND_AES_1602, VALID_RECONNECT_1605
<1>1. CASE a \in Plain
  BY <1>1 DEF Plain, AesCodes, HeardOK
<1>2. CASE a = Done("stray")
  <2>1. a.code = REGISTERING_DONE_1600 /\ a.id = "stray"
    BY <1>2 DEF Done, Answer
  <2> QED
    BY <2>1 DEF HeardOK, AesCodes
<1>3. CASE /\ registered # "none" /\ public_key > 0
           /\ a \in AesFor(VALID_RECONNECT_1605, public_key)
  <2>1. a.code = VALID_RECONNECT_1605 /\ a.id = registered /\ a.pair = public_key
    BY <1>3 DEF AesFor
  <2>2. public_key \in Int /\ priv_key \in Nat /\ public_key <= priv_key
    BY DEF TypeOK, ServerTypeOK, ClientTypeOK, Pairs
  <2> QED
    BY <1>3, <2>1, <2>2 DEF HeardOK, AesCodes, sameKeys, clientVars
<1> QED
  BY <1>1, <1>2, <1>3

LEMMA ServesSole ==
  ASSUME TypeOK, NEW c \in Conns, NEW A, Serves(c, A), UNCHANGED clientVars
  PROVE  Sole => Sole'
BY ServesInherits, SoleKept DEF clientVars

LEMMA SameKeysKept ==
  ASSUME TypeOK, TypeOK', LockInv, NEW c \in Conns, link[c] \in Live, NoneLost, run > 0,
         Ignores(c) \/ Strays(c) \/ Reconnects(c), UNCHANGED clientVars
  PROVE  LockInv'
<1>1. /\ sameKeys
      /\ \E A \in SUBSET Answers :
           /\ Serves(c, A)
           /\ \A a \in A : \/ a \in Plain \/ a = Done("stray")
                           \/ /\ registered # "none" /\ public_key > 0
                              /\ a \in AesFor(VALID_RECONNECT_1605, public_key)
  <2>1. Plain \subseteq Answers /\ AesFor(VALID_RECONNECT_1605, public_key) \subseteq Answers
    BY DEF Plain, AesFor
  <2>2. Done("stray") \in Answers
    BY AnswerType DEF Done, AnswerCodes, Ids
  <2> QED
    BY <2>1, <2>2 DEF Ignores, Strays, Reconnects
<1>2. PICK A \in SUBSET Answers :
           /\ Serves(c, A)
           /\ \A a \in A : \/ a \in Plain \/ a = Done("stray")
                           \/ /\ registered # "none" /\ public_key > 0
                              /\ a \in AesFor(VALID_RECONNECT_1605, public_key)
  BY <1>1
<1>3. Linked'
  BY <1>2, ServesKeepsLinked DEF LockInv
<1>4. Sole => Sole'
  BY <1>2, ServesSole
<1>5. /\ UNCHANGED <<run, pc, outcome, client_id, my_pair, me_info, priv_key, last_pair>>
      /\ UNCHANGED <<registered, nul_id, public_key>>
  BY <1>1 DEF clientVars, sameKeys
<1>6. Naming'
  BY <1>4, <1>5 DEF LockInv, Naming
<1>7. KeysSent'
  <2>1. \A d \in Conns : Inherits(d)
    BY <1>2, ServesInherits
  <2>2. /\ \A d \in Conns : stream'[d] \in Seq(Requests)
        /\ priv_key \in Nat /\ my_pair \in Nat
    BY DEF TypeOK, ConnectionTypeOK, ClientTypeOK
  <2> QED
    BY <1>5, <2>1, <2>2, KeysKept DEF LockInv
<1>8. Pairs'
  BY <1>5 DEF LockInv, Pairs
<1>9. Heard'
  <2>1. \A a \in Answers : HeardOK(a) => HeardOK(a)'
    BY <1>1, <1>4, KeyStepHeard
  <2>2. \A a \in A : HeardOK(a)'
    BY <1>1, <1>2, AnswerHeard DEF LockInv
  <2> QED
    BY <1>2, <2>1, <2>2, ServesHeard DEF LockInv
<1>10. (pc \in InSession \/ outcome = "success" => Fits)'
  BY <1>5 DEF LockInv, Fits
<1> QED
  BY <1>3, <1>6, <1>7, <1>8, <1>9, <1>10 DEF LockInv

LEMMA RegistersKept ==
  ASSUME TypeOK, TypeOK', LockInv, NEW c \in Conns, link[c] \in Live, NoneLost, run > 0,
         Registers(c), UNCHANGED clientVars
  PROVE  LockInv'
<1> DEFINE A == Plain \cup {Done("new")}
<1>1. /\ UNCHANGED <<run, pc, outcome, client_id, my_pair, me_info, priv_key, last_pair>>
      /\ public_key' = public_key /\ registered = "none" /\ registered' = "new"
      /\ Serves(c, A)
  BY DEF clientVars, Registers
<1>2. A \in SUBSET Answers
  BY AnswerType DEF Plain, Done, AnswerCodes, Ids
<1>3. Linked'
  BY <1>1, ServesKeepsLinked DEF LockInv
<1>4. \A d \in Conns : Inherits(d)
  BY <1>1, ServesInherits
<1>5. Sole'
  <2>1. Sole
    BY <1>1 DEF LockInv, KeysSent, Sole
  <2> QED
    BY <1>1, <2>1, ServesSole
<1>6. Naming'
  BY <1>1, <1>5 DEF LockInv, Naming
<1>7. KeysSent'
  <2>2. /\ \A d \in Conns : stream'[d] \in Seq(Requests)
        /\ priv_key \in Nat /\ my_pair \in Nat
    BY DEF TypeOK, ConnectionTypeOK, ClientTypeOK
  <2> QED
    BY <1>1, <1>4, <2>2, KeysKept DEF LockInv
<1>8. Pairs'
  BY <1>1 DEF LockInv, Pairs
<1>9. Heard'
  <2>1. ASSUME NEW a \in Answers, HeardOK(a)  PROVE HeardOK(a)'
    BY <1>1, <1>5, <2>1 DEF HeardOK
  <2>2. ASSUME NEW a \in A  PROVE HeardOK(a)'
    <3>1. CASE a \in Plain
      BY <3>1 DEF Plain, HeardOK
    <3>2. CASE a = Done("new")
      <4>1. a.code = REGISTERING_DONE_1600 /\ a.id = "new"
        BY <3>2 DEF Done, Answer
      <4> QED
        BY <1>1, <1>5, <4>1 DEF HeardOK, AesCodes, REGISTERING_DONE_1600,
                     GET_PUBLIC_KEY_SEND_AES_1602, VALID_RECONNECT_1605
    <3> QED
      BY <2>2, <3>1, <3>2
  <2> HIDE DEF A
  <2> QED
    BY <1>1, <1>2, <2>1, <2>2, ServesHeard DEF LockInv
<1>10. (pc \in InSession \/ outcome = "success" => Fits)'
  BY <1>1 DEF LockInv, Fits
<1> QED
  BY <1>3, <1>6, <1>7, <1>8, <1>9, <1>10 DEF LockInv

\* The key that is taken is the oldest one under way.
LEMMA TakenKey ==
  ASSUME TypeOK, LockInv, NEW c \in Conns, TakesKey(c)
  PROVE  /\ KeyAt(c, 1) /\ registered = "new" /\ stream[c][1].pair \in Int
         /\ 0 < stream[c][1].pair /\ public_key < stream[c][1].pair
         /\ stream[c][1].pair <= priv_key
         /\ pc \in {"save_key", "send_key"} => stream[c][1].pair < my_pair
<1>1. /\ 1 \in 1..Len(stream[c]) /\ stream[c][1].code = SEND_PUBLIC_KEY_826
      /\ stream[c][1].id = registered /\ ~stream[c][1].cut
  BY DEF TakesKey
<1>2. stream[c][1].id \in {"new", "stray"}
  BY <1>1 DEF LockInv, KeysSent
<1>3. registered = "new"
  BY <1>1, <1>2 DEF LockInv, Naming
<1>4. KeyAt(c, 1)
  BY <1>1, <1>3 DEF KeyAt, IsKey
<1>5. stream[c][1].pair \in Int
  BY <1>1, PairType
<1> QED
  BY <1>1, <1>3, <1>4, <1>5 DEF LockInv, KeysSent

LEMMA LaterKeys ==
  ASSUME TypeOK, LockInv, NEW c \in Conns, TakesKey(c), NEW A, Serves(c, A),
         NEW d \in Conns, NEW i \in 1..Len(stream'[d]), KeyAt(d, i)'
  PROVE  d = c /\ stream'[d][i].pair \in Int /\ stream[c][1].pair < stream'[d][i].pair
<1>1. KeyAt(c, 1) /\ 1 \in 1..Len(stream[c])
  BY TakenKey DEF TakesKey
<1>2. d = c
  <2>1. Inherits(d)
    BY ServesInherits
  <2>2. PICK j \in 1..Len(stream[d]) : KeyAt(d, j)
    BY <2>1, KeyBefore
  <2> QED
    BY <1>1, <2>2 DEF LockInv, KeysSent
<1>3. PICK k \in 0..Len(stream[c]) :
        /\ Len(stream'[c]) = Len(stream[c]) - k
        /\ \A l \in 1..Len(stream'[c]) :
             /\ stream'[c][l].code = stream[c][k + l].code
             /\ stream'[c][l].id = stream[c][k + l].id
             /\ ~stream'[c][l].cut => k + l > 1 /\ stream'[c][l] = stream[c][k + l]
  BY DEF Serves, Left
<1>4. Len(stream[c]) \in Nat /\ Len(stream'[c]) \in Nat
  BY DEF TypeOK, ConnectionTypeOK, Serves, Left
<1>5. k + i > 1 /\ stream'[c][i] = stream[c][k + i]
  BY <1>2, <1>3 DEF KeyAt, IsKey
<1>6. k + i \in 1..Len(stream[c])
  BY <1>2, <1>3, <1>4
<1>7. KeyAt(c, k + i)
  BY <1>2, <1>5, <1>6 DEF KeyAt
<1>8. stream[c][1].pair < stream[c][k + i].pair
  BY <1>1, <1>5, <1>6, <1>7 DEF LockInv, KeysSent
<1>9. stream[c][k + i].pair \in Int
  BY <1>6, PairType
<1> QED
  BY <1>2, <1>5, <1>8, <1>9

LEMMA TakesKeyKept ==
  ASSUME TypeOK, TypeOK', LockInv, NEW c \in Conns, link[c] \in Live, NoneLost, run > 0,
         TakesKey(c), UNCHANGED clientVars
  PROVE  LockInv'
<1> DEFINE r == stream[c][1]
<1>1. /\ KeyAt(c, 1) /\ registered = "new" /\ r.pair \in Int
      /\ 0 < r.pair /\ public_key < r.pair /\ r.pair <= priv_key
      /\ pc \in {"save_key", "send_key"} => r.pair < my_pair
  BY TakenKey
<1>2. /\ UNCHANGED <<run, pc, outcome, client_id, my_pair, me_info, priv_key, last_pair>>
      /\ UNCHANGED <<registered, nul_id>>
      /\ public_key' \in {-1, r.pair}
  BY DEF clientVars, TakesKey
<1>3. PICK A \in SUBSET Answers :
        /\ Serves(c, A)
        /\ \A a \in A : a \in Plain \/ a \in AesFor(GET_PUBLIC_KEY_SEND_AES_1602, r.pair)
        /\ public_key' = r.pair \/ A = Plain
  <2>1. Plain \subseteq Answers /\ AesFor(GET_PUBLIC_KEY_SEND_AES_1602, r.pair) \subseteq Answers
    BY DEF Plain, AesFor
  <2> QED
    BY <2>1 DEF TakesKey
<1>4. /\ priv_key \in Nat /\ my_pair \in Nat /\ public_key \in Int /\ last_pair \in Nat
      /\ \A d \in Conns : stream'[d] \in Seq(Requests)
  BY DEF TypeOK, ConnectionTypeOK, ClientTypeOK, ServerTypeOK
<1>5. \A d \in Conns : Inherits(d)
  BY <1>3, ServesInherits
<1>6. \A d \in Conns : \A i \in 1..Len(stream'[d]) : KeyAt(d, i)' =>
         d = c /\ stream'[d][i].pair \in Int /\ r.pair < stream'[d][i].pair
  BY <1>3, LaterKeys
<1> HIDE DEF r
<1>7. Linked'
  BY <1>3, ServesKeepsLinked DEF LockInv
<1>8. Sole => Sole'
  BY <1>3, ServesSole
<1>9. Naming'
  BY <1>2, <1>8 DEF LockInv, Naming
<1>10. KeysSent'
  <2>1. \A d \in Conns : \A i \in 1..Len(stream'[d]) :
          stream'[d][i].code = SEND_PUBLIC_KEY_826 => stream'[d][i].id \in {"new", "stray"}
    BY <1>5 DEF LockInv, KeysSent, Inherits
  <2>2. ASSUME NEW d \in Conns, NEW i \in 1..Len(stream'[d]), KeyAt(d, i)'
        PROVE  /\ registered' = "new"
               /\ 0 < stream'[d][i].pair /\ public_key' < stream'[d][i].pair
               /\ stream'[d][i].pair <= priv_key'
               /\ pc' \in {"save_key", "send_key"} => stream'[d][i].pair < my_pair'
    <3>1. PICK j \in 1..Len(stream[d]) : KeyAt(d, j) /\ stream'[d][i] = stream[d][j]
      BY <1>5, <2>2, KeyBefore
    <3>2. /\ stream[d][j].pair <= priv_key
          /\ pc \in {"save_key", "send_key"} => stream[d][j].pair < my_pair
      BY <3>1 DEF LockInv, KeysSent
    <3>3. r.pair < stream'[d][i].pair /\ stream'[d][i].pair \in Int
      BY <1>6, <2>2
    <3> QED
      BY <1>1, <1>2, <1>4, <3>1, <3>2, <3>3
  <2>3. ASSUME NEW d \in Conns, NEW e \in Conns, NEW i \in 1..Len(stream'[d]),
               NEW j \in 1..Len(stream'[e]), KeyAt(d, i)', KeyAt(e, j)'
        PROVE  d = e
    BY <1>6, <2>3
  <2>4. ASSUME NEW d \in Conns, NEW i \in 1..Len(stream'[d]), NEW j \in 1..Len(stream'[d]),
               KeyAt(d, i)', KeyAt(d, j)', i < j
        PROVE  stream'[d][i].pair < stream'[d][j].pair
    BY <1>4, <1>5, <2>4, OrderKept DEF LockInv
  <2> QED
    BY <2>1, <2>2, <2>3, <2>4 DEF KeysSent
<1>11. Pairs'
  BY <1>1, <1>2, <1>4 DEF LockInv, Pairs
<1>12. Heard'
  <2>1. ASSUME NEW a \in Answers, HeardOK(a)  PROVE HeardOK(a)'
    <3>1. a.pair \in Int
      BY DEF Answers
    <3>2. ASSUME a.code \in AesCodes  PROVE a.pair # priv_key
      BY <1>1, <1>4, <2>1, <3>1, <3>2 DEF HeardOK
    <3> QED
      BY <1>2, <1>8, <2>1, <3>2 DEF HeardOK
  <2>2. ASSUME NEW a \in A  PROVE HeardOK(a)'
    <3>1. CASE a \in Plain
      BY <3>1 DEF Plain, HeardOK
    <3>2. CASE a \notin Plain
      <4>1. /\ a.code = GET_PUBLIC_KEY_SEND_AES_1602 /\ a.id = registered /\ a.pair = r.pair
            /\ public_key' = r.pair
        BY <1>3, <3>2 DEF AesFor
      <4> QED
        BY <1>1, <1>2, <1>4, <4>1 DEF HeardOK, AesCodes, REGISTERING_DONE_1600,
             GET_PUBLIC_KEY_SEND_AES_1602, VALID_RECONNECT_1605
    <3> QED
      BY <3>1, <3>2
  <2> QED
    BY <1>3, <2>1, <2>2, ServesHeard DEF LockInv
<1>13. (pc \in InSession \/ outcome = "success" => Fits)'
  <2>1. priv_key # public_key
    BY <1>1, <1>4
  <2> QED
    BY <1>2, <2>1 DEF LockInv, Fits
<1> QED
  BY <1>7, <1>9, <1>10, <1>11, <1>12, <1>13 DEF LockInv

LEMMA ServerKeeps ==
  ASSUME TypeOK, TypeOK', LockInv, NEW c \in Conns, Server(c)
  PROVE  LockInv'
<1>1. UNCHANGED clientVars /\ ServerStep(c)
  BY DEF Server
<1>2. link[c] \in Live /\ NoneLost /\ run > 0
  BY <1>1, ServerLive DEF LockInv
<1>3. ServerKinds(c)
  BY <1>1, <1>2, ServerKind
<1> QED
  BY <1>1, <1>2, <1>3, SameKeysKept, RegistersKept, TakesKeyKept DEF ServerKinds

-----------------------------------------------------------------------------
(* What a step of the client may do.                                       *)

sameInstallation == UNCHANGED <<client_id, my_pair, me_info, priv_key, last_pair>>

Leaves ==
  /\ pc # "off" /\ run' = run /\ sameInstallation
  /\ \E how, unread : Leave(how, unread) /\ (how = "success" => pc = "await_end")

Talks == pc # "off" /\ pc' # "off" /\ UNCHANGED <<run, link, outcome>>

Hears == \/ answers' = answers
         \/ /\ answers[run] # <<>>
            /\ answers' = [answers EXCEPT ![run] = Tail(@)]

Says(r) == stream' = IF link[run] = "open"
                     THEN [stream EXCEPT ![run] = Append(@, r)] ELSE stream

\* No file is written, and no key sent.
Moves ==
  /\ Talks /\ Hears /\ sameInstallation
  /\ stream' = stream \/ \E r \in Requests : r.code # SEND_PUBLIC_KEY_826 /\ Says(r)
  /\ pc # "reconnect" /\ pc' # "await_827"
  /\ pc' \in InSession => pc \in InSession
  /\ pc' \in KeyMaking => pc = "await_826" /\ pc' = "make_keys"

Reconnecting ==
  /\ Talks /\ pc = "reconnect" /\ pc' = "await_827" /\ priv_key # 0
  /\ my_pair' = priv_key /\ client_id' = me_info
  /\ UNCHANGED <<answers, me_info, priv_key, last_pair>>
  /\ \E r \in Requests : r.code # SEND_PUBLIC_KEY_826 /\ Says(r)

Named ==
  /\ Talks /\ pc = "await_825" /\ pc' = "make_keys"
  /\ answers[run] # <<>> /\ Head(answers[run]).code = REGISTERING_DONE_1600
  /\ client_id' = Head(answers[run]).id
  /\ answers' = [answers EXCEPT ![run] = Tail(@)] /\ stream' = stream
  /\ UNCHANGED <<my_pair, me_info, priv_key, last_pair>>

Admitted ==
  /\ Talks /\ pc' = "send_file"
  /\ answers[run] # <<>>
  /\ LET a == Head(answers[run]) IN
     /\ \/ pc = "await_826" /\ a.code = GET_PUBLIC_KEY_SEND_AES_1602
        \/ pc = "await_827" /\ a.code = VALID_RECONNECT_1605
     /\ a.id = client_id /\ ~nul_id /\ a.pair = my_pair
  /\ answers' = [answers EXCEPT ![run] = Tail(@)] /\ stream' = stream
  /\ sameInstallation

ClientKinds ==
  \/ Leaves \/ Moves \/ Reconnecting \/ Named \/ Admitted
  \/ CreateMeInfo \/ CreatePrivKeyFile \/ SendPublicKey

LEMMA ExitLeaves ==
  ASSUME pc # "off", NEW how, NEW payloadLeft, Exit(how, payloadLeft),
         how = "success" => pc = "await_end"
  PROVE  Leaves
BY DEF Exit, Leaves, sameInstallation, keysOfClient, filesOfClient

LEMMA UnrecognizedLeaves ==
  ASSUME pc # "off", NEW expected, Unrecognized(expected)
  PROVE  Leaves
<1>1. PICK payloadLeft : Exit("unrecognized", payloadLeft)
  BY DEF Unrecognized
<1> QED
  BY <1>1, ExitLeaves

LEMMA WrongIdLeaves ==
  ASSUME pc # "off", WrongId(nul_id)
  PROVE  Leaves
<1>1. PICK payloadLeft : Exit("wrong_information", payloadLeft)
  BY DEF WrongId
<1> QED
  BY <1>1, ExitLeaves

LEMMA GeneralErrorKind ==
  ASSUME Answered, NEW again, NEW how, how # "success", GeneralError(again, how),
         \/ pc = "await_825" /\ again = "register"
         \/ pc = "await_826" /\ again = "make_keys"
         \/ pc = "await_827" /\ again = "reconnect"
         \/ pc = "await_828" /\ again = "send_file"
  PROVE  Leaves \/ Moves
<1>1. CASE Exit(how, FALSE)
  BY <1>1, ExitLeaves
<1>2. CASE /\ pc' = again /\ TakeAnswer
           /\ UNCHANGED <<run, outcome, packet_number, verdict, keysOfClient,
                          filesOfClient>>
  BY <1>2 DEF Moves, Talks, Hears, TakeAnswer, Answered, sameInstallation,
       keysOfClient, filesOfClient, InSession, KeyMaking
<1> QED
  BY <1>1, <1>2 DEF GeneralError

LEMMA GetAesKeyCases ==
  ASSUME Answered, GetAesKey(nul_id),
         \/ pc = "await_826" /\ Received.code = GET_PUBLIC_KEY_SEND_AES_1602
         \/ pc = "await_827" /\ Received.code = VALID_RECONNECT_1605
  PROVE  Leaves \/ Admitted
<1>1. CASE WrongId(nul_id)
  BY <1>1, WrongIdLeaves
<1>2. CASE Exit("cannot_decrypt", FALSE)
  BY <1>2, ExitLeaves
<1>3. CASE /\ IdChecked(nul_id) /\ Received.pair = my_pair
           /\ pc' = "send_file" /\ TakeAnswer
           /\ UNCHANGED <<run, outcome, verdict, client_id, my_pair, filesOfClient>>
  BY <1>3 DEF Admitted, Talks, TakeAnswer, Answered, Received, IdChecked,
       sameInstallation, filesOfClient
<1> QED
  BY <1>1, <1>2, <1>3 DEF GetAesKey

\* Codes of the requests that carry no public key.
OtherCodes == {REGISTERING_825, RECONNECT_827, SEND_FILE_828} \cup CrcCodes

LEMMA OtherRequest ==
  ASSUME NEW code \in OtherCodes, NEW id \in Ids
  PROVE  Request(code, id) \in Requests /\ Request(code, id).code # SEND_PUBLIC_KEY_826
<1>1. code \in RequestCodes /\ code # SEND_PUBLIC_KEY_826
  BY DEF OtherCodes, CrcCodes, FinishCodes, RequestCodes, REGISTERING_825, RECONNECT_827,
         SEND_FILE_828, SEND_PUBLIC_KEY_826, VALID_CRC_900, WRONG_CRC_TRY_AGAIN_901,
         WRONG_CRC_4TH_902
<1>2. Request(code, id).code = code
  BY DEF Request
<1> QED
  BY <1>1, <1>2, RequestType

LEMMA ReconnectKind ==
  ASSUME TypeOK, SendReconnect \/ OnReconnectAnswer(nul_id)
  PROVE  ClientKinds
<1>1. CASE SendReconnect /\ priv_key = 0
  BY <1>1 DEF SendReconnect, ClientKinds, Leaves, sameInstallation, keysOfClient,
       filesOfClient
<1>2. CASE SendReconnect /\ priv_key # 0
  <2>1. /\ Request(RECONNECT_827, me_info) \in Requests
        /\ Request(RECONNECT_827, me_info).code # SEND_PUBLIC_KEY_826
    BY OtherRequest DEF OtherCodes, TypeOK, ClientTypeOK
  <2>2. Says(Request(RECONNECT_827, me_info)) /\ Talks
    BY <1>2 DEF SendReconnect, SendToServer, Says, Talks
  <2> QED
    BY <1>2, <2>1, <2>2 DEF SendReconnect, ClientKinds, Reconnecting, filesOfClient
<1>3. CASE OnReconnectAnswer(nul_id)
  <2>1. pc = "await_827" /\ Answered
    BY <1>3 DEF OnReconnectAnswer
  <2>2. CASE GeneralError("reconnect", "too_many_tries")
    BY <2>1, <2>2, GeneralErrorKind DEF ClientKinds
  <2>3. CASE /\ pc' = "register" /\ TakeAnswer
             /\ UNCHANGED <<run, outcome, packet_number, verdict, keysOfClient,
                            filesOfClient>>
    BY <2>1, <2>3 DEF ClientKinds, Moves, Talks, Hears, TakeAnswer, Answered,
         sameInstallation, keysOfClient, filesOfClient, InSession, KeyMaking
  <2>4. CASE Received.code = VALID_RECONNECT_1605 /\ GetAesKey(nul_id)
    BY <2>1, <2>4, GetAesKeyCases DEF ClientKinds
  <2>5. CASE \E expected : Unrecognized(expected)
    BY <2>1, <2>5, UnrecognizedLeaves DEF ClientKinds
  <2> QED
    BY <1>3, <2>2, <2>3, <2>4, <2>5 DEF OnReconnectAnswer
<1> QED
  BY <1>1, <1>2, <1>3

LEMMA RegisterKind ==
  ASSUME TypeOK, SendRegistration \/ OnRegistrationAnswer
  PROVE  ClientKinds
<1>1. CASE SendRegistration
  <2>1. /\ Request(REGISTERING_825, "none") \in Requests
        /\ Request(REGISTERING_825, "none").code # SEND_PUBLIC_KEY_826
    BY OtherRequest DEF OtherCodes, Ids
  <2>2. Says(Request(REGISTERING_825, "none")) /\ Talks
    BY <1>1 DEF SendRegistration, SendToServer, Says, Talks
  <2> QED
    BY <1>1, <2>1, <2>2 DEF SendRegistration, ClientKinds, Moves, Hears, sameInstallation,
         keysOfClient, filesOfClient, InSession, KeyMaking
<1>2. CASE OnRegistrationAnswer
  <2>1. pc = "await_825" /\ Answered
    BY <1>2 DEF OnRegistrationAnswer
  <2>2. CASE GeneralError("register", "too_many_tries")
    BY <2>1, <2>2, GeneralErrorKind DEF ClientKinds
  <2>3. CASE /\ Received.code = REGISTERING_DONE_1600 /\ client_id' = Received.id
             /\ pc' = "make_keys" /\ TakeAnswer
             /\ UNCHANGED <<run, outcome, packet_number, verdict, my_pair,
                            session_key, filesOfClient>>
    BY <2>1, <2>3 DEF ClientKinds, Named, Talks, TakeAnswer, Answered, Received,
         filesOfClient
  <2>4. CASE \E expected : Unrecognized(expected)
    BY <2>1, <2>4, UnrecognizedLeaves DEF ClientKinds
  <2> QED
    BY <1>2, <2>2, <2>3, <2>4 DEF OnRegistrationAnswer
<1> QED
  BY <1>1, <1>2

LEMMA FileKind ==
  ASSUME TypeOK, SendPacket \/ OnCrcAnswer(nul_id)
  PROVE  ClientKinds
<1>1. client_id \in Ids /\ packet_number \in 0..TotalPackets /\ session_key \in Nat
  BY ProtocolAssumption DEF TypeOK, ClientTypeOK
<1>2. CASE SendPacket
  <2>1. PICK damaged \in BOOLEAN :
           Says(PacketRequest(client_id, packet_number, session_key, damaged))
    BY <1>2 DEF SendPacket, Says
  <2>2. PacketRequest(client_id, packet_number, session_key, damaged) \in Requests
    BY <1>1, PacketRequestType
  <2>3. PacketRequest(client_id, packet_number, session_key, damaged).code
           # SEND_PUBLIC_KEY_826
    BY DEF PacketRequest, Request, SEND_FILE_828, SEND_PUBLIC_KEY_826
  <2>4. /\ pc = "send_file" /\ pc' \in {"send_file", "await_828"}
        /\ Talks /\ Hears /\ sameInstallation
    BY <1>2 DEF SendPacket, Talks, Hears, sameInstallation, keysOfClient, filesOfClient
  <2> QED
    BY <2>1, <2>2, <2>3, <2>4 DEF ClientKinds, Moves, InSession, KeyMaking
<1>3. CASE OnCrcAnswer(nul_id)
  <2>1. pc = "await_828" /\ Answered
    BY <1>3 DEF OnCrcAnswer
  <2>2. CASE GeneralError("send_file", "too_many_sends")
    BY <2>1, <2>2, GeneralErrorKind DEF ClientKinds
  <2>3. CASE WrongId(nul_id)
    BY <2>1, <2>3, WrongIdLeaves DEF ClientKinds
  <2>4. CASE /\ SendFinishRequest(FinishCode(Received.match))
             /\ pc' \in {"send_file", "await_end"}
             /\ UNCHANGED <<run, outcome, packet_number, keysOfClient, filesOfClient>>
    <3>1. FinishCode(Received.match) \in OtherCodes
      BY DEF FinishCode, OtherCodes, CrcCodes, FinishCodes
    <3>2. /\ Request(FinishCode(Received.match), client_id) \in Requests
          /\ Request(FinishCode(Received.match), client_id).code # SEND_PUBLIC_KEY_826
      BY <1>1, <3>1, OtherRequest
    <3>3. /\ Says(Request(FinishCode(Received.match), client_id))
          /\ Talks /\ Hears /\ sameInstallation
      BY <2>1, <2>4 DEF SendFinishRequest, Says, Talks, Hears, Answered,
           sameInstallation, keysOfClient, filesOfClient
    <3> QED
      BY <2>1, <2>4, <3>2, <3>3 DEF ClientKinds, Moves, InSession, KeyMaking
  <2>5. CASE \E expected : Unrecognized(expected)
    BY <2>1, <2>5, UnrecognizedLeaves DEF ClientKinds
  <2> QED
    BY <1>3, <2>2, <2>3, <2>4, <2>5 DEF OnCrcAnswer
<1> QED
  BY <1>2, <1>3

LEMMA EndKind ==
  ASSUME TypeOK, OnFinalAnswer(nul_id)
  PROVE  ClientKinds
<1>1. pc = "await_end" /\ Answered /\ client_id \in Ids /\ verdict \in FinishCodes
  BY DEF OnFinalAnswer, TypeOK, ClientTypeOK
<1>2. CASE \E how : Exit(how, FALSE)
  BY <1>1, <1>2, ExitLeaves DEF ClientKinds
<1>3. CASE WrongId(nul_id)
  BY <1>1, <1>3, WrongIdLeaves DEF ClientKinds
<1>4. CASE SendFinishRequest(verdict)
           /\ UNCHANGED <<run, pc, outcome, packet_number, verdict, keysOfClient,
                          filesOfClient>>
  <2>1. verdict \in OtherCodes
    BY <1>1 DEF OtherCodes, CrcCodes
  <2>2. /\ Request(verdict, client_id) \in Requests
        /\ Request(verdict, client_id).code # SEND_PUBLIC_KEY_826
    BY <1>1, <2>1, OtherRequest
  <2>3. Says(Request(verdict, client_id)) /\ Talks /\ Hears /\ sameInstallation
    BY <1>1, <1>4 DEF SendFinishRequest, Says, Talks, Hears, Answered,
         sameInstallation, keysOfClient, filesOfClient
  <2> QED
    BY <1>1, <1>4, <2>2, <2>3 DEF ClientKinds, Moves, InSession, KeyMaking
<1>5. CASE \E expected : Unrecognized(expected)
  BY <1>1, <1>5, UnrecognizedLeaves DEF ClientKinds
<1> QED
  BY <1>2, <1>3, <1>4, <1>5 DEF OnFinalAnswer

LEMMA ClientCases ==
  ASSUME TypeOK, ClientStep(nul_id) \/ Kill
  PROVE  ClientKinds
<1>1. CASE OnPublicKeyAnswer(nul_id)
  <2>1. pc = "await_826" /\ Answered
    BY <1>1 DEF OnPublicKeyAnswer
  <2>2. CASE GeneralError("make_keys", "too_many_tries")
    BY <2>1, <2>2, GeneralErrorKind DEF ClientKinds
  <2>3. CASE Received.code = GET_PUBLIC_KEY_SEND_AES_1602 /\ GetAesKey(nul_id)
    BY <2>1, <2>3, GetAesKeyCases DEF ClientKinds
  <2>4. CASE \E expected : Unrecognized(expected)
    BY <2>1, <2>4, UnrecognizedLeaves DEF ClientKinds
  <2> QED
    BY <1>1, <2>2, <2>3, <2>4 DEF OnPublicKeyAnswer
<1>2. CASE ReadFails
  BY <1>2 DEF ReadFails, Waiting, ClientKinds, Leaves, sameInstallation, keysOfClient,
       filesOfClient
<1>3. CASE Kill
  BY <1>3 DEF Kill, ClientKinds, Leaves, sameInstallation, keysOfClient, filesOfClient
<1>4. CASE SendReconnect \/ OnReconnectAnswer(nul_id)
  BY <1>4, ReconnectKind
<1>5. CASE SendRegistration \/ OnRegistrationAnswer
  BY <1>5, RegisterKind
<1>6. CASE SendPacket \/ OnCrcAnswer(nul_id)
  BY <1>6, FileKind
<1>7. CASE OnFinalAnswer(nul_id)
  BY <1>7, EndKind
<1>8. CASE CreateMeInfo \/ CreatePrivKeyFile \/ SendPublicKey
  BY <1>8 DEF ClientKinds
<1> QED
  BY <1>1, <1>2, <1>3, <1>4, <1>5, <1>6, <1>7, <1>8 DEF ClientStep

-----------------------------------------------------------------------------
(* The client keeps the invariant.                                         *)

LEMMA RunIsConn ==
  ASSUME TypeOK, pc # "off"
  PROVE  run \in Conns /\ run > 0
BY DEF TypeOK, ClientTypeOK, Conns

LEMMA TalkLinked ==
  ASSUME TypeOK, Linked, Talks,
         \A c \in Conns : stream'[c] = stream[c] \/ link[c] = "open",
         \A c \in Conns : c # run => answers'[c] = answers[c]
  PROVE  Linked'
<1>1. ASSUME NEW c \in Conns, link'[c] \in {"idle", "lost", "gone"}
      PROVE  stream'[c] = <<>>
  BY <1>1 DEF Linked, Talks
<1>2. ASSUME NEW c \in Conns, c # run' \/ pc' = "off"
      PROVE  answers'[c] = <<>>
  BY <1>2 DEF Linked, Talks
<1> QED
  BY <1>1, <1>2 DEF Linked, Talks

\* What there is to read was there before.
LEMMA HearsOld ==
  ASSUME TypeOK, Talks, Hears, NEW i \in 1..Len(answers'[run])
  PROVE  \E j \in 1..Len(answers[run]) : answers'[run][i] = answers[run][j]
<1>1. /\ run \in Conns /\ answers \in [Conns -> Seq(Answers)]
      /\ answers[run] \in Seq(Answers) /\ Len(answers[run]) \in Nat
  BY RunIsConn DEF Talks, TypeOK, ConnectionTypeOK
<1>2. CASE answers' = answers
  BY <1>2
<1>3. CASE answers[run] # <<>> /\ answers' = [answers EXCEPT ![run] = Tail(@)]
  <2>1. answers'[run] = Tail(answers[run])
    BY <1>1, <1>3
  <2>2. /\ Len(Tail(answers[run])) = Len(answers[run]) - 1
        /\ \A j \in 1..Len(Tail(answers[run])) :
              Tail(answers[run])[j] = answers[run][j + 1]
    BY <1>1, <1>3, HeadTailProperties
  <2>3. i + 1 \in 1..Len(answers[run])
    BY <1>1, <2>1, <2>2
  <2> QED
    BY <2>1, <2>2, <2>3
<1> QED
  BY <1>2, <1>3 DEF Hears

LEMMA HearsHeard ==
  ASSUME TypeOK, Heard, Talks, Hears,
         \A a \in Answers : HeardOK(a) => HeardOK(a)'
  PROVE  /\ Heard'
         /\ \A c \in Conns : c # run => answers'[c] = answers[c]
         /\ answers[run] # <<>> => /\ Head(answers[run]) \in Answers
                                   /\ HeardOK(Head(answers[run]))
<1>1. /\ run' = run /\ run \in Conns /\ run > 0 /\ answers \in [Conns -> Seq(Answers)]
      /\ answers[run] \in Seq(Answers) /\ Len(answers[run]) \in Nat
  BY RunIsConn DEF Talks, TypeOK, ConnectionTypeOK
<1>2. ASSUME NEW i \in 1..Len(answers[run]), NEW a, a = answers[run][i]
      PROVE  HeardOK(a)'
  <2>1. a \in Answers
    BY <1>1, <1>2, ElementOfSeq
  <2>2. HeardOK(a)
    BY <1>1, <1>2 DEF Heard
  <2> QED
    BY <2>1, <2>2
<1>3. ASSUME NEW i \in 1..Len(answers'[run])
      PROVE  \E j \in 1..Len(answers[run]) : answers'[run][i] = answers[run][j]
  BY <1>3, HearsOld
<1>4. ASSUME NEW i \in 1..Len(answers'[run]), NEW a, a = answers'[run][i]
      PROVE  HeardOK(a)'
  BY <1>2, <1>3, <1>4
<1>5. Heard'
  BY <1>1, <1>4 DEF Heard, HeardOK
<1>6. ASSUME answers[run] # <<>>
      PROVE  Head(answers[run]) \in Answers /\ HeardOK(Head(answers[run]))
  <2>1. Head(answers[run]) = answers[run][1] /\ 1 \in 1..Len(answers[run])
    BY <1>1, <1>6
  <2>2. answers[run][1] \in Answers
    BY <1>1, <2>1, ElementOfSeq
  <2> QED
    BY <1>1, <2>1, <2>2 DEF Heard
<1>7. \A c \in Conns : c # run => answers'[c] = answers[c]
  BY <1>1 DEF Hears
<1> QED
  BY <1>5, <1>6, <1>7

\* A request other than a public key goes out, or none.
LEMMA SaysInherits ==
  ASSUME TypeOK, run \in Conns,
         stream' = stream \/ \E r \in Requests : r.code # SEND_PUBLIC_KEY_826 /\ Says(r)
  PROVE  /\ \A c \in Conns : Inherits(c)
         /\ \A c \in Conns : stream'[c] \in Seq(Requests)
         /\ \A c \in Conns : stream'[c] = stream[c] \/ link[c] = "open"
<1>1. stream \in [Conns -> Seq(Requests)]
  BY DEF TypeOK, ConnectionTypeOK
<1>2. ASSUME NEW c \in Conns, stream'[c] = stream[c]
      PROVE  Inherits(c)
  BY <1>1, <1>2, SameInherits
<1>3. CASE stream' = stream
  BY <1>1, <1>2, <1>3
<1>4. CASE /\ stream' # stream
           /\ \E r \in Requests : r.code # SEND_PUBLIC_KEY_826 /\ Says(r)
  <2>1. PICK r \in Requests : r.code # SEND_PUBLIC_KEY_826 /\ Says(r)
    BY <1>4
  <2>2. /\ link[run] = "open" /\ stream'[run] = Append(stream[run], r)
        /\ \A c \in Conns \ {run} : stream'[c] = stream[c]
    BY <1>1, <1>4, <2>1 DEF Says
  <2>3. Inherits(run)
    BY <1>1, <2>1, <2>2, AppendInherits
  <2>4. Append(stream[run], r) \in Seq(Requests)
    BY <1>1, AppendProperties
  <2> QED
    BY <1>1, <1>2, <2>2, <2>3, <2>4
<1> QED
  BY <1>3, <1>4

LEMMA OthersSole ==
  ASSUME run' = run, \A c \in Conns \ {run} : Inherits(c)
  PROVE  Sole => Sole'
BY SoleKept

LEMMA LeavesLinked ==
  ASSUME TypeOK, Linked, Leaves
  PROVE  /\ Linked' /\ run \in Conns /\ run > 0
         /\ UNCHANGED <<stream, run, client_id, my_pair, me_info, priv_key, last_pair>>
         /\ pc' = "off" /\ answers'[run] = <<>>
         /\ outcome' = "success" => pc = "await_end"
<1>1. PICK how, unread : Leave(how, unread) /\ (how = "success" => pc = "await_end")
  BY DEF Leaves
<1>2. /\ run \in Conns /\ run > 0
      /\ answers \in [Conns -> Seq(Answers)] /\ link \in [Conns -> Links]
  BY RunIsConn DEF Leaves, TypeOK, ConnectionTypeOK
<1>3. /\ UNCHANGED <<stream, run, client_id, my_pair, me_info, priv_key, last_pair>>
      /\ pc' = "off" /\ answers'[run] = <<>> /\ link'[run] \in {"gone", "reset", "closed"}
      /\ link'[run] = "gone" <=> link[run] # "open"
      /\ \A c \in Conns \ {run} : link'[c] = link[c] /\ answers'[c] = answers[c]
      /\ outcome' = "success" => pc = "await_end"
  BY <1>1, <1>2 DEF Leaves, Leave, sameInstallation
<1>4. Linked'
  <2>1. link[run] \in {"open", "lost"} /\ pc # "off"
    BY <1>3 DEF Linked, Leaves
  <2>2. \A c \in Conns : link'[c] \notin {"open", "lost"}
    BY <1>3 DEF Linked
  <2>3. \A c \in Conns : link'[c] \in {"idle", "lost", "gone"} => stream'[c] = <<>>
    BY <1>3, <2>1 DEF Linked
  <2>4. ASSUME NEW c \in Conns, c > run  PROVE link'[c] = "idle"
    <3>1. c # run
      BY <1>2, <2>4 DEF Conns
    <3> QED
      BY <1>3, <2>4, <3>1 DEF Linked
  <2>5. \A c \in Conns : answers'[c] = <<>>
    BY <1>3 DEF Linked
  <2> QED
    BY <1>3, <2>2, <2>3, <2>4, <2>5 DEF Linked
<1> QED
  BY <1>2, <1>3, <1>4

LEMMA LeavesKept ==
  ASSUME TypeOK, LockInv, Leaves, UNCHANGED serverVars
  PROVE  LockInv'
<1>1. /\ Linked' /\ run \in Conns /\ run > 0
      /\ UNCHANGED <<stream, run, client_id, my_pair, me_info, priv_key, last_pair>>
      /\ pc' = "off" /\ answers'[run] = <<>>
      /\ outcome' = "success" => pc = "await_end"
  BY LeavesLinked DEF LockInv
<1>2. UNCHANGED <<registered, nul_id, public_key>>
  BY DEF serverVars, storeVars
<1>5. KeysSent'
  <2>1. \A c \in Conns : Inherits(c) /\ stream'[c] \in Seq(Requests)
    BY <1>1, SaysInherits
  <2>2. priv_key \in Nat /\ my_pair \in Nat
    BY DEF TypeOK, ClientTypeOK
  <2> QED
    BY <1>1, <1>2, <2>1, <2>2, KeysKept DEF LockInv
<1>6. Naming' /\ Pairs'
  BY <1>1, <1>2 DEF LockInv, Naming, Pairs, KeyMaking
<1>7. Heard'
  BY <1>1 DEF Heard
<1>8. (pc \in InSession \/ outcome = "success" => Fits)'
  BY <1>1, <1>2 DEF LockInv, Fits, InSession
<1> QED
  BY <1>1, <1>5, <1>6, <1>7, <1>8 DEF LockInv

\* Steps of a running client that send no public key.
LEMMA TalkKept ==
  ASSUME TypeOK, TypeOK', LockInv, Talks, Hears, UNCHANGED serverVars,
         stream' = stream \/ \E r \in Requests : r.code # SEND_PUBLIC_KEY_826 /\ Says(r),
         priv_key <= priv_key',
         \/ priv_key' = priv_key
         \/ priv_key < priv_key',
         \/ pc' \notin {"save_key", "send_key"}
         \/ pc \in {"save_key", "send_key"} /\ my_pair' = my_pair
         \/ priv_key < my_pair'
  PROVE  /\ Linked' /\ KeysSent' /\ Heard' /\ (Sole => Sole')
         /\ answers[run] # <<>> => /\ Head(answers[run]) \in Answers
                                   /\ HeardOK(Head(answers[run]))
<1>1. run \in Conns /\ run' = run
  BY RunIsConn DEF Talks
<1>2. /\ \A c \in Conns : Inherits(c)
      /\ \A c \in Conns : stream'[c] \in Seq(Requests)
      /\ \A c \in Conns : stream'[c] = stream[c] \/ link[c] = "open"
  BY <1>1, SaysInherits
<1>3. Sole => Sole'
  BY <1>1, <1>2, OthersSole
<1>4. /\ UNCHANGED <<registered, nul_id, public_key>>
      /\ priv_key \in Nat /\ priv_key' \in Nat /\ my_pair' \in Nat
  BY DEF serverVars, storeVars, TypeOK, ClientTypeOK
<1>5. ASSUME NEW a \in Answers, HeardOK(a)  PROVE HeardOK(a)'
  <2>1. a.pair \in Int
    BY DEF Answers
  <2> QED
    BY <1>3, <1>4, <1>5, <2>1 DEF HeardOK
<1>6. /\ Heard'
      /\ \A c \in Conns : c # run => answers'[c] = answers[c]
      /\ answers[run] # <<>> => /\ Head(answers[run]) \in Answers
                                /\ HeardOK(Head(answers[run]))
  BY <1>5, HearsHeard DEF LockInv
<1>7. Linked'
  BY <1>2, <1>6, TalkLinked DEF LockInv
<1>8. KeysSent'
  BY <1>2, <1>4, KeysKept DEF LockInv
<1> QED
  BY <1>3, <1>6, <1>7, <1>8

LEMMA MovesKept ==
  ASSUME TypeOK, TypeOK', LockInv, Moves, UNCHANGED serverVars
  PROVE  LockInv'
<1>1. /\ UNCHANGED <<run, outcome, client_id, my_pair, me_info, priv_key, last_pair,
                     registered, nul_id, public_key>>
      /\ pc' # "await_827" /\ Talks /\ Hears
      /\ stream' = stream \/ \E r \in Requests : r.code # SEND_PUBLIC_KEY_826 /\ Says(r)
      /\ pc' \in InSession => pc \in InSession
      /\ pc' \in KeyMaking => pc = "await_826" /\ pc' = "make_keys"
  BY DEF Moves, Talks, sameInstallation, serverVars, storeVars
<1>2. priv_key <= priv_key' /\ pc' \notin {"save_key", "send_key"}
  BY <1>1 DEF TypeOK, ClientTypeOK, KeyMaking
<1>3. Linked' /\ KeysSent' /\ Heard' /\ (Sole => Sole')
  BY <1>1, <1>2, TalkKept
<1>4. Naming'
  BY <1>1, <1>3 DEF LockInv, Naming, KeyMaking
<1>5. Pairs'
  BY <1>1, <1>2 DEF LockInv, Pairs
<1>6. (pc \in InSession \/ outcome = "success" => Fits)'
  BY <1>1 DEF LockInv, Fits
<1> QED
  BY <1>3, <1>4, <1>5, <1>6 DEF LockInv

LEMMA ReconnectingKept ==
  ASSUME TypeOK, TypeOK', LockInv, Reconnecting, outcome = "running", UNCHANGED serverVars
  PROVE  LockInv'
<1>1. /\ UNCHANGED <<run, outcome, me_info, priv_key, last_pair, registered, nul_id, public_key>>
      /\ my_pair' = priv_key /\ client_id' = me_info
      /\ pc' = "await_827" /\ Talks /\ Hears
      /\ \E r \in Requests : r.code # SEND_PUBLIC_KEY_826 /\ Says(r)
  BY DEF Reconnecting, Talks, Hears, serverVars, storeVars
<1>2. priv_key <= priv_key'
  BY <1>1 DEF TypeOK, ClientTypeOK
<1>3. Linked' /\ KeysSent' /\ Heard' /\ (Sole => Sole')
  BY <1>1, <1>2, TalkKept
<1>4. Naming' /\ Pairs'
  BY <1>1 DEF LockInv, Naming, Pairs, KeyMaking
<1>5. (pc \in InSession \/ outcome = "success" => Fits)'
  BY <1>1 DEF InSession
<1> QED
  BY <1>3, <1>4, <1>5 DEF LockInv

LEMMA NamedKept ==
  ASSUME TypeOK, TypeOK', LockInv, Named, outcome = "running", UNCHANGED serverVars
  PROVE  LockInv'
<1>1. /\ UNCHANGED <<run, outcome, my_pair, me_info, priv_key, last_pair, registered,
                     nul_id, public_key>>
      /\ pc' = "make_keys" /\ Talks /\ Hears /\ stream' = stream
      /\ answers[run] # <<>> /\ Head(answers[run]).code = REGISTERING_DONE_1600
      /\ client_id' = Head(answers[run]).id
  BY DEF Named, Talks, Hears, serverVars, storeVars
<1>2. priv_key <= priv_key'
  BY <1>1 DEF TypeOK, ClientTypeOK
<1>3. /\ Linked' /\ KeysSent' /\ Heard' /\ (Sole => Sole')
      /\ HeardOK(Head(answers[run]))
  BY <1>1, <1>2, TalkKept
<1>4. /\ client_id' \in {"new", "stray"}
      /\ client_id' = "new" => registered' = "new" /\ Sole'
  BY <1>1, <1>3 DEF HeardOK
<1>5. Naming' /\ Pairs'
  BY <1>1, <1>4 DEF LockInv, Naming, Pairs, KeyMaking
<1>6. (pc \in InSession \/ outcome = "success" => Fits)'
  BY <1>1 DEF InSession
<1> QED
  BY <1>3, <1>5, <1>6 DEF LockInv

LEMMA AdmittedKept ==
  ASSUME TypeOK, TypeOK', LockInv, Admitted, UNCHANGED serverVars
  PROVE  LockInv'
<1> DEFINE a == Head(answers[run])
<1>1. /\ UNCHANGED <<run, outcome, client_id, my_pair, me_info, priv_key, last_pair,
                     registered, nul_id, public_key>>
      /\ pc' = "send_file" /\ Talks /\ Hears /\ stream' = stream
      /\ answers[run] # <<>> /\ pc \in {"await_826", "await_827"}
      /\ a.code \in AesCodes /\ a.id = client_id /\ ~nul_id /\ a.pair = my_pair
  BY DEF Admitted, Talks, Hears, serverVars, storeVars, sameInstallation, AesCodes
<1>2. priv_key <= priv_key'
  BY <1>1 DEF TypeOK, ClientTypeOK
<1>3. /\ Linked' /\ KeysSent' /\ Heard' /\ HeardOK(a)
  BY <1>1, <1>2, TalkKept
<1>4. Naming' /\ Pairs'
  BY <1>1 DEF LockInv, Naming, Pairs, KeyMaking
<1>5. me_info = client_id /\ my_pair = priv_key
  BY <1>1 DEF LockInv, Naming, KeyMaking
<1>6. /\ a.id = registered /\ registered # "none" /\ 0 < a.pair
      /\ a.pair = priv_key => public_key = a.pair
  BY <1>1, <1>3 DEF HeardOK
<1>7. Fits'
  BY <1>1, <1>5, <1>6 DEF Fits
<1> QED
  BY <1>3, <1>4, <1>7 DEF LockInv

LEMMA CreateMeInfoKept ==
  ASSUME TypeOK, TypeOK', LockInv, CreateMeInfo, outcome = "running", UNCHANGED serverVars
  PROVE  LockInv'
<1>1. /\ UNCHANGED <<run, outcome, client_id, priv_key, registered, nul_id, public_key>>
      /\ pc = "make_keys" /\ pc' = "save_key" /\ Talks /\ Hears /\ stream' = stream
      /\ last_pair' = last_pair + 1 /\ my_pair' = last_pair + 1 /\ me_info' = client_id
  BY DEF CreateMeInfo, connectionVars, Talks, Hears, serverVars, storeVars
<1>2. /\ priv_key \in Nat /\ last_pair \in Nat /\ public_key \in Int
      /\ public_key <= priv_key /\ priv_key <= last_pair
  BY DEF TypeOK, ClientTypeOK, ServerTypeOK, LockInv, Pairs
<1>3. priv_key <= priv_key' /\ priv_key < my_pair'
  BY <1>1, <1>2
<1>4. Linked' /\ KeysSent' /\ Heard' /\ (Sole => Sole')
  BY <1>1, <1>3, TalkKept
<1>5. Naming'
  BY <1>1, <1>4 DEF LockInv, Naming, KeyMaking
<1>6. Pairs'
  BY <1>1, <1>2 DEF Pairs
<1>7. (pc \in InSession \/ outcome = "success" => Fits)'
  BY <1>1 DEF InSession
<1> QED
  BY <1>4, <1>5, <1>6, <1>7 DEF LockInv

LEMMA CreatePrivKeyFileKept ==
  ASSUME TypeOK, TypeOK', LockInv, CreatePrivKeyFile, outcome = "running", UNCHANGED serverVars
  PROVE  LockInv'
<1>1. /\ UNCHANGED <<run, outcome, client_id, my_pair, me_info, last_pair, registered,
                     nul_id, public_key>>
      /\ pc = "save_key" /\ pc' = "send_key" /\ Talks /\ Hears /\ stream' = stream
      /\ priv_key' = my_pair
  BY DEF CreatePrivKeyFile, connectionVars, Talks, Hears, keysOfClient, serverVars, storeVars
<1>2. /\ priv_key \in Nat /\ my_pair \in Nat /\ public_key \in Int
      /\ priv_key < my_pair /\ my_pair = last_pair /\ 0 < my_pair /\ public_key < my_pair
  BY <1>1 DEF TypeOK, ClientTypeOK, ServerTypeOK, LockInv, Pairs
<1>3. priv_key <= priv_key' /\ priv_key < priv_key'
  BY <1>1, <1>2
<1>4. Linked' /\ KeysSent' /\ Heard' /\ (Sole => Sole')
  BY <1>1, <1>3, TalkKept
<1>5. Naming'
  BY <1>1, <1>4 DEF LockInv, Naming, KeyMaking
<1>6. Pairs'
  BY <1>1, <1>2 DEF Pairs
<1>7. (pc \in InSession \/ outcome = "success" => Fits)'
  BY <1>1 DEF InSession
<1> QED
  BY <1>4, <1>5, <1>6, <1>7 DEF LockInv

\* The new key is the newest of all, and for the only run that may send it.
LEMMA SendPublicKeyKept ==
  ASSUME TypeOK, TypeOK', LockInv, SendPublicKey, outcome = "running", UNCHANGED serverVars
  PROVE  LockInv'
<1> DEFINE r == PublicKeyRequest(client_id, my_pair)
           n == Len(stream[run])
<1>1. /\ UNCHANGED <<run, outcome, client_id, my_pair, me_info, priv_key, last_pair,
                     registered, nul_id, public_key, answers>>
      /\ pc = "send_key" /\ pc' = "await_826" /\ Talks /\ Hears /\ Says(r)
  BY DEF SendPublicKey, SendToServer, Talks, Hears, Says, keysOfClient, filesOfClient,
         serverVars, storeVars
<1>2. /\ run \in Conns /\ stream \in [Conns -> Seq(Requests)] /\ n \in Nat
      /\ priv_key \in Nat /\ my_pair \in Nat /\ public_key \in Int /\ client_id \in Ids
  BY <1>1, RunIsConn DEF TypeOK, ConnectionTypeOK, ClientTypeOK, ServerTypeOK
<1>3. /\ r \in Requests /\ r.code = SEND_PUBLIC_KEY_826 /\ r.id = client_id
      /\ r.pair = my_pair /\ ~r.cut
  <2>1. r \in Requests
    BY <1>2, PublicKeyRequestType
  <2> QED
    BY <2>1 DEF PublicKeyRequest, Request
<1>4. /\ client_id \in {"new", "stray"} /\ my_pair = priv_key
      /\ client_id = "new" => registered = "new" /\ Sole
      /\ 0 < my_pair /\ public_key < my_pair
  BY <1>1 DEF LockInv, Naming, Pairs, KeyMaking
<1> HIDE DEF r
<1>5. \A c \in Conns : c # run => stream'[c] = stream[c]
  BY <1>1, <1>2 DEF Says
<1>6. Sole => Sole'
  <2>1. \A c \in Conns \ {run} : Inherits(c)
    BY <1>2, <1>5, SameInherits
  <2> QED
    BY <1>1, <2>1, OthersSole
<1>7. Linked'
  <2>1. \A c \in Conns : stream'[c] = stream[c] \/ link[c] = "open"
    BY <1>1, <1>2 DEF Says
  <2> QED
    BY <1>1, <2>1, TalkLinked DEF LockInv
<1>8. Heard'
  <2>1. \A a \in Answers : HeardOK(a) => HeardOK(a)'
    BY <1>1, <1>6 DEF HeardOK
  <2> QED
    BY <1>1, <2>1, HearsHeard DEF LockInv
<1>9. Naming' /\ Pairs'
  BY <1>1, <1>6 DEF LockInv, Naming, Pairs, KeyMaking
<1>10. KeysSent'
  <2>1. CASE stream' = stream
    <3>1. \A c \in Conns : Inherits(c)
      BY <1>2, <2>1, SameInherits
    <3>2. priv_key <= priv_key'
      BY <1>1, <1>2
    <3> QED
      BY <1>1, <1>2, <2>1, <3>1, <3>2, KeysKept DEF LockInv
  <2>2. CASE stream' = [stream EXCEPT ![run] = Append(@, r)]
    <3>1. /\ stream'[run] = Append(stream[run], r)
          /\ Len(stream'[run]) = n + 1 /\ stream'[run][n + 1] = r
          /\ \A i \in 1..n : stream'[run][i] = stream[run][i]
      BY <1>2, <1>3, <2>2, AppendProperties
    <3> HIDE DEF n
    <3>2. \A i \in 1..Len(stream'[run]) : i \in 1..n \/ i = n + 1
      BY <1>2, <3>1
    <3>3. ASSUME NEW c \in Conns, NEW i \in 1..Len(stream'[c])
          PROVE  \/ i \in 1..Len(stream[c]) /\ stream'[c][i] = stream[c][i]
                 \/ c = run /\ i = n + 1 /\ stream'[c][i] = r
      BY <1>5, <3>1, <3>2, <3>3 DEF n
    <3>4. \A c \in Conns : \A i \in 1..Len(stream'[c]) :
             stream'[c][i].code = SEND_PUBLIC_KEY_826 => stream'[c][i].id \in {"new", "stray"}
      BY <1>3, <1>4, <3>3 DEF LockInv, KeysSent
    <3>5. ASSUME NEW c \in Conns, NEW i \in 1..Len(stream'[c]), KeyAt(c, i)'
          PROVE  \/ i \in 1..Len(stream[c]) /\ stream'[c][i] = stream[c][i] /\ KeyAt(c, i)
                 \/ c = run /\ i = n + 1 /\ stream'[c][i] = r /\ client_id = "new"
      <4>1. IsKey(stream'[c][i])
        BY <3>5 DEF KeyAt, IsKey
      <4> QED
        BY <1>3, <3>3, <4>1 DEF KeyAt, IsKey
    <3>6. ASSUME NEW c \in Conns, NEW i \in 1..Len(stream[c]), KeyAt(c, i)
          PROVE  /\ registered = "new" /\ 0 < stream[c][i].pair /\ stream[c][i].pair \in Int
                 /\ public_key < stream[c][i].pair /\ stream[c][i].pair < my_pair
      <4>1. stream[c][i].pair \in Int
        BY PairType
      <4> QED
        BY <1>1, <3>6, <4>1 DEF LockInv, KeysSent
    <3>7. ASSUME NEW c \in Conns, NEW i \in 1..Len(stream'[c]), KeyAt(c, i)'
          PROVE  /\ registered' = "new"
                 /\ 0 < stream'[c][i].pair /\ public_key' < stream'[c][i].pair
                 /\ stream'[c][i].pair <= priv_key'
      BY <1>1, <1>2, <1>3, <1>4, <3>5, <3>6, <3>7
    <3>8. ASSUME NEW c \in Conns, NEW i \in 1..Len(stream'[c]), NEW j \in 1..Len(stream'[c]),
                 KeyAt(c, i)', KeyAt(c, j)', i < j
          PROVE  stream'[c][i].pair < stream'[c][j].pair
      <4>1. i \in 1..Len(stream[c]) /\ stream'[c][i] = stream[c][i] /\ KeyAt(c, i)
        <5>1. ~(c = run /\ i = n + 1)
          BY <1>2, <3>1, <3>8
        <5> QED
          BY <3>5, <3>8, <5>1
      <4>2. CASE j \in 1..Len(stream[c]) /\ stream'[c][j] = stream[c][j] /\ KeyAt(c, j)
        BY <3>8, <4>1, <4>2 DEF LockInv, KeysSent
      <4>3. CASE stream'[c][j] = r
        BY <1>3, <3>6, <4>1, <4>3
      <4> QED
        BY <3>5, <3>8, <4>2, <4>3
    <3>9. ASSUME NEW c \in Conns, NEW d \in Conns, NEW i \in 1..Len(stream'[c]),
                 NEW j \in 1..Len(stream'[d]), KeyAt(c, i)', KeyAt(d, j)'
          PROVE  c = d
      <4>1. CASE client_id = "new"
        BY <1>4, <3>5, <3>9, <4>1 DEF Sole
      <4>2. CASE client_id # "new"
        BY <3>5, <3>9, <4>2 DEF LockInv, KeysSent
      <4> QED
        BY <4>1, <4>2
    <3> QED
      BY <1>1, <3>4, <3>7, <3>8, <3>9 DEF KeysSent
  <2> QED
    BY <1>1, <2>1, <2>2 DEF Says
<1>11. (pc \in InSession \/ outcome = "success" => Fits)'
  BY <1>1 DEF InSession
<1> QED
  BY <1>7, <1>8, <1>9, <1>10, <1>11 DEF LockInv

LEMMA StartLinked ==
  ASSUME TypeOK, Linked, Start
  PROVE  /\ Linked' /\ run' = run + 1 /\ run' \in Conns /\ run \in Nat
         /\ \A c \in Conns : answers'[c] = <<>>
<1>1. /\ UNCHANGED <<stream, answers>> /\ pc = "off" /\ pc' \in {"register", "reconnect"}
      /\ run < MaxRuns /\ run' = run + 1 /\ link' = [link EXCEPT ![run + 1] = "open"]
  BY DEF Start, StartRun
<1>2. /\ run \in Nat /\ run + 1 \in Conns /\ link \in [Conns -> Links]
  BY <1>1, ConnectionAssumption DEF TypeOK, ConnectionTypeOK, ClientTypeOK, Conns
<1>3. /\ link'[run + 1] = "open"
      /\ \A c \in Conns : c # run + 1 => link'[c] = link[c] /\ link[c] \notin {"open", "lost"}
      /\ \A c \in Conns : answers'[c] = <<>>
  BY <1>1, <1>2 DEF Linked
<1>4. Linked'
  <2>1. \A c \in Conns : c > run + 1 => link'[c] = "idle"
    <3>1. \A c \in Conns : c > run + 1 => c # run + 1 /\ c > run
      BY <1>2 DEF Conns
    <3> QED
      BY <1>3, <3>1 DEF Linked
  <2>2. \A c \in Conns : link'[c] \in {"idle", "lost", "gone"} => stream'[c] = <<>>
    BY <1>1, <1>3 DEF Linked
  <2>3. \A c \in Conns : link'[c] \in {"open", "lost"} => c = run + 1 /\ link'[c] = "open"
    BY <1>3
  <2> QED
    BY <1>1, <1>3, <2>1, <2>2, <2>3 DEF Linked
<1> QED
  BY <1>1, <1>2, <1>3, <1>4

LEMMA StartKept ==
  ASSUME TypeOK, TypeOK', LockInv, Start
  PROVE  LockInv'
<1>1. /\ UNCHANGED <<stream, answers, me_info, priv_key, last_pair, registered, nul_id,
                     public_key>>
      /\ pc = "off" /\ pc' \in {"register", "reconnect"} /\ outcome' = "running"
      /\ run < MaxRuns /\ run' = run + 1 /\ link' = [link EXCEPT ![run + 1] = "open"]
  BY DEF Start, StartRun, filesOfClient, serverVars, storeVars
<1>2. /\ run \in Nat /\ run + 1 \in Conns /\ link \in [Conns -> Links]
      /\ priv_key \in Nat /\ my_pair' \in Nat
  BY <1>1, ConnectionAssumption DEF TypeOK, ConnectionTypeOK, ClientTypeOK, Conns
<1>3. \A c \in Conns : answers'[c] = <<>>
  BY StartLinked DEF LockInv
<1>4. Linked'
  BY StartLinked DEF LockInv
<1>5. KeysSent'
  <2>1. \A c \in Conns : Inherits(c) /\ stream'[c] \in Seq(Requests)
    BY <1>1, SameInherits DEF TypeOK, ConnectionTypeOK
  <2> QED
    BY <1>1, <1>2, <2>1, KeysKept DEF LockInv
<1>6. Naming' /\ Pairs'
  BY <1>1 DEF LockInv, Naming, Pairs, KeyMaking
<1>7. Heard'
  <2>1. run' \in Conns /\ Len(answers'[run']) = 0
    BY <1>1, <1>2, <1>3
  <2> QED
    BY <2>1 DEF Heard
<1>8. (pc \in InSession \/ outcome = "success" => Fits)'
  BY <1>1 DEF InSession
<1> QED
  BY <1>4, <1>5, <1>6, <1>7, <1>8 DEF LockInv

-----------------------------------------------------------------------------
\* A program that runs has not ended.
Running == pc # "off" => outcome = "running"

LEMMA RunningKept ==
  ASSUME Running, \/ Start \/ UNCHANGED <<pc, outcome>>
                  \/ ClientKinds
  PROVE  Running'
<1>1. CASE ClientKinds
  <2>1. Talks \/ pc' = "off"
    BY <1>1 DEF ClientKinds, Leaves, Leave, Moves, Reconnecting, Named, Admitted,
         CreateMeInfo, CreatePrivKeyFile, SendPublicKey, SendToServer, Talks,
         connectionVars
  <2> QED
    BY <2>1 DEF Running, Talks
<1>2. CASE Start \/ UNCHANGED <<pc, outcome>>
  BY <1>2 DEF Running, Start, StartRun
<1> QED
  BY <1>1, <1>2

LEMMA ClientKeeps ==
  ASSUME TypeOK, TypeOK', LockInv, Running, ClientKinds, UNCHANGED serverVars
  PROVE  LockInv'
<1>1. CASE pc # "off"
  <2>1. outcome = "running"
    BY <1>1 DEF Running
  <2> QED
    BY <2>1, LeavesKept, MovesKept, ReconnectingKept, NamedKept, AdmittedKept,
       CreateMeInfoKept, CreatePrivKeyFileKept, SendPublicKeyKept DEF ClientKinds
<1>2. pc # "off"
  BY DEF ClientKinds, Leaves, Moves, Reconnecting, Named, Admitted, Talks,
       CreateMeInfo, CreatePrivKeyFile, SendPublicKey
<1> QED
  BY <1>1, <1>2

\* What the invariant is about.
lockVars == <<stream, answers, link, run, pc, outcome, client_id, my_pair, me_info,
              priv_key, last_pair, registered, nul_id, public_key>>

LEMMA LockInvStutters ==
  ASSUME LockInv, UNCHANGED lockVars
  PROVE  LockInv'
<1>1. Sole' <=> Sole
  BY DEF lockVars, Sole, KeyAt, IsKey
<1>2. Heard'
  BY <1>1 DEF LockInv, Heard, HeardOK, lockVars
<1>3. Linked' /\ Naming' /\ Pairs'
  BY <1>1 DEF LockInv, Linked, Naming, Pairs, lockVars
<1>4. KeysSent'
  BY DEF LockInv, KeysSent, KeyAt, IsKey, lockVars
<1> QED
  BY <1>2, <1>3, <1>4 DEF LockInv, Fits, lockVars

LEMMA LockInitially == Init => LockInv /\ Running
<1> SUFFICES ASSUME Init  PROVE LockInv /\ Running
  OBVIOUS
<1>1. /\ stream = [c \in Conns |-> <<>>] /\ answers = [c \in Conns |-> <<>>]
      /\ link = [c \in Conns |-> "idle"]
      /\ run = 0 /\ pc = "off" /\ outcome = "none"
  BY DEF Init, ConnectionInit
<1>2. /\ registered \in {"none", "old", "other"}
      /\ public_key <= priv_key /\ priv_key <= last_pair
  BY DEF Init, HasFiles
<1>3. \A c \in Conns : stream[c] = <<>> /\ Len(stream[c]) = 0 /\ 1..Len(stream[c]) = {}
  BY <1>1
<1>4. Linked
  BY <1>1 DEF Linked, Live
<1>5. Naming /\ Pairs
  BY <1>1, <1>2 DEF Naming, Pairs, KeyMaking
<1>6. KeysSent
  BY <1>3 DEF KeysSent
<1>7. Heard /\ Running
  BY <1>1 DEF Heard, Running
<1> QED
  BY <1>1, <1>4, <1>5, <1>6, <1>7 DEF LockInv, InSession

LEMMA LockPreserved ==
  ASSUME TypeOK, TypeOK', LockInv, Running, RestartReadsBack, [Next]_vars
  PROVE  LockInv' /\ Running'
<1>1. CASE Start
  BY <1>1, StartKept, RunningKept
<1>2. CASE Client \/ ClientKilled
  <2>1. ClientKinds /\ UNCHANGED serverVars
    BY <1>2, ClientCases DEF Client, ClientKilled
  <2> QED
    BY <2>1, ClientKeeps, RunningKept
<1>3. CASE \E c \in Conns : Server(c)
  <2>1. UNCHANGED <<pc, outcome>>
    BY <1>3 DEF Server, clientVars
  <2> QED
    BY <1>3, <2>1, ServerKeeps, RunningKept
<1>4. CASE ServerRestart \/ Finished \/ UNCHANGED vars
  <2>1. ASSUME ServerRestart  PROVE UNCHANGED lockVars
    <3>1. registered' = registered /\ public_key' = public_key
      BY <2>1 DEF ServerRestart, Restart, RestartReadsBack
    <3>2. UNCHANGED <<stream, answers, link, nul_id>>
      BY <2>1 DEF ServerRestart, Restart, connectionVars
    <3>3. UNCHANGED <<run, pc, outcome, client_id, my_pair, me_info, priv_key, last_pair>>
      BY <2>1 DEF ServerRestart, clientVars
    <3> QED
      BY <3>1, <3>2, <3>3 DEF lockVars
  <2>2. ASSUME Finished \/ UNCHANGED vars  PROVE UNCHANGED lockVars
    <3>1. UNCHANGED <<connectionVars, clientVars, serverVars>>
      BY <2>2 DEF Finished, vars
    <3>2. UNCHANGED <<stream, answers, link>>
      BY <3>1 DEF connectionVars
    <3>3. UNCHANGED <<run, pc, outcome, client_id, my_pair, me_info, priv_key, last_pair>>
      BY <3>1 DEF clientVars
    <3>4. UNCHANGED <<registered, nul_id, public_key>>
      BY <3>1 DEF serverVars, storeVars
    <3> QED
      BY <3>2, <3>3, <3>4 DEF lockVars
  <2>3. UNCHANGED lockVars
    BY <1>4, <2>1, <2>2
  <2>4. UNCHANGED <<pc, outcome>>
    BY <2>3 DEF lockVars
  <2> QED
    BY <2>3, <2>4, LockInvStutters, RunningKept
<1> QED
  BY <1>1, <1>2, <1>3, <1>4 DEF Next

(* As long as no call to the database or the disk fails, an installation   *)
(* that has just succeeded fits the server's record of its name:           *)
(* send_public_key_request_826 and reconnection_request_827 answer only    *)
(* for the id of the record and with the key of the record, the client     *)
(* goes on only with its own id and key, and a key it sends is never       *)
(* older than the one the server has.                                      *)
THEOREM SuccessesLast ==
  ASSUME "io" \notin FaultKinds
  PROVE  Spec => []SuccessLasts
<1>1. TypesAndRecords => TypeOK /\ RestartReadsBack
  BY DEF TypesAndRecords, RowsFit
<1>2. /\ TypesAndRecords /\ TypesAndRecords' /\ LockInv /\ Running /\ [Next]_vars
      => LockInv' /\ Running'
  <2>1. TypesAndRecords' => TypeOK'
    BY DEF TypesAndRecords
  <2> QED
    BY <1>1, <2>1, LockPreserved
<1>3. TypesAndRecords /\ LockInv => SuccessLasts
  <2> SUFFICES ASSUME TypesAndRecords, LockInv, outcome = "success"
               PROVE  ~LockedOut
    BY DEF SuccessLasts
  <2>1. Fits /\ table.id = registered /\ priv_key \in Nat
    BY <1>1 DEF LockInv, RestartReadsBack, TypeOK, ClientTypeOK
  <2> QED
    BY <2>1 DEF Fits, LockedOut, NoKey
<1> QED
  BY <1>2, <1>3, TypesInitially, TypesPreserved, LockInitially, PTL DEF Spec

-----------------------------------------------------------------------------
(* Whatever fails: which files the client has while it uses them, and      *)
(* which ids the server knows.                                             *)

Filed ==
  /\ {registered, table.id} \subseteq {"none", "old", "new", "other"}
  /\ pc \in KeyMaking \ {"make_keys"} => me_info = client_id
  /\ pc = "await_827" => me_info = client_id /\ my_pair = priv_key

\* What a handler may do to the row of the client.
LEMMA ServerTable ==
  ASSUME TypeOK, NEW c \in Conns, ServerStep(c)
  PROVE  /\ table'.id # table.id => table'.id = "new" /\ registered = "none"
         /\ table'.public_key # table.public_key =>
              /\ stream[c] # <<>> /\ IdMatches(c)
              /\ Head(stream[c]).code = SEND_PUBLIC_KEY_826
<1>1. table \in Rows
  BY DEF TypeOK, ServerTypeOK
<1>2. ASSUME UNCHANGED table  PROVE UNCHANGED <<table.id, table.public_key>>
  BY <1>2
<1>3. CASE registration_request_825(c)
  <2>1. table' = table \/ (registered = "none" /\ table' = [table EXCEPT !.id = "new"])
    BY <1>3 DEF registration_request_825, NameTaken
  <2> QED
    BY <1>1, <2>1 DEF Rows
<1>4. CASE reconnection_request_827(c)
  <2>1. \E k : table' \in {table, Updated([table EXCEPT !.aes_key = k])}
    BY <1>4 DEF reconnection_request_827, create_send_aes
  <2> QED
    BY <1>1, <2>1 DEF Rows, Updated
<1>5. CASE send_public_key_request_826(c)
  <2>1. stream[c] # <<>> /\ Head(stream[c]).code = SEND_PUBLIC_KEY_826
    BY <1>5 DEF send_public_key_request_826, Readable
  <2>2. CASE ~IdMatches(c)
    <3>1. UNCHANGED table
      BY <1>5, <2>2 DEF send_public_key_request_826
    <3> QED
      BY <3>1
  <2>3. CASE IdMatches(c)
    <3>1. \E k, p : table' \in {table, Updated([table EXCEPT !.public_key = p]),
                       Updated([Updated([table EXCEPT !.public_key = p]) EXCEPT !.aes_key = k])}
      BY <1>5, <2>3 DEF send_public_key_request_826, create_send_aes
    <3>2. table'.id = table.id
      BY <1>1, <3>1 DEF Rows, Updated
    <3> QED
      BY <2>1, <2>3, <3>2
  <2> QED
    BY <2>2, <2>3
<1>6. CASE send_file_request_828(c) \/ crc_response_900_901_902(c)
  <2>1. \E f : table' \in {table, [table EXCEPT !.file = f]}
    <3>1. CASE send_file_request_828(c)
      <4>1. \E r : table' \in {table, RecordedRow(r)}
        BY <3>1 DEF send_file_request_828
      <4> QED
        BY <4>1 DEF RecordedRow, add_file_db, set_valid_crc
    <3>2. CASE crc_response_900_901_902(c)
      <4>1. table' \in {table, set_valid_crc("verified"), delete_file}
        BY <3>2 DEF crc_response_900_901_902
      <4> QED
        BY <4>1 DEF delete_file, set_valid_crc
    <3> QED
      BY <1>6, <3>1, <3>2
  <2> QED
    BY <1>1, <2>1 DEF Rows
<1>7. CASE ReadGarbage(c) \/ ReadShort(c) \/ EndOfStream(c) \/ ReadReset(c)
  BY <1>7 DEF ReadGarbage, ReadShort, EndOfStream, ReadReset, serverVars, storeVars
<1> QED
  BY <1>3, <1>4, <1>5, <1>6, <1>7 DEF ServerStep

LEMMA ClientLinked ==
  ASSUME TypeOK, Linked, ClientKinds
  PROVE  Linked'
<1>1. CASE Leaves
  BY <1>1, LeavesLinked
<1>2. ASSUME Talks, Hears,
             stream' = stream \/ \E r \in Requests : Says(r)
      PROVE  Linked'
  <2>1. run \in Conns
    BY <1>2, RunIsConn DEF Talks
  <2>2. \A d \in Conns : stream'[d] = stream[d] \/ link[d] = "open"
    BY <1>2, <2>1 DEF Says, TypeOK, ConnectionTypeOK
  <2>3. \A d \in Conns : d # run => answers'[d] = answers[d]
    BY <1>2, <2>1 DEF Hears, TypeOK, ConnectionTypeOK
  <2> QED
    BY <1>2, <2>2, <2>3, TalkLinked
<1>3. CASE Moves \/ Reconnecting \/ Named \/ Admitted
  BY <1>2, <1>3 DEF Moves, Reconnecting, Named, Admitted, Hears
<1>4. CASE CreateMeInfo \/ CreatePrivKeyFile
  <2>1. Talks /\ Hears /\ stream' = stream
    BY <1>4 DEF CreateMeInfo, CreatePrivKeyFile, connectionVars, Talks, Hears
  <2> QED
    BY <1>2, <2>1
<1>5. CASE SendPublicKey
  <2>1. Talks /\ Hears /\ Says(PublicKeyRequest(client_id, my_pair))
    BY <1>5 DEF SendPublicKey, SendToServer, Talks, Hears, Says
  <2>2. PublicKeyRequest(client_id, my_pair) \in Requests
    BY PublicKeyRequestType DEF TypeOK, ClientTypeOK
  <2> QED
    BY <1>2, <2>1, <2>2
<1> QED
  BY <1>1, <1>3, <1>4, <1>5 DEF ClientKinds

LEMMA ClientFiled ==
  ASSUME TypeOK, Filed, ClientKinds, UNCHANGED serverVars
  PROVE  Filed'
<1>1. UNCHANGED <<registered, table>>
  BY DEF serverVars, storeVars
<1>2. CASE Leaves
  BY <1>1, <1>2 DEF Leaves, Leave, Filed, KeyMaking
<1>3. CASE Moves
  <2>1. pc' # "await_827" /\ (pc' \in KeyMaking => pc' = "make_keys")
    BY <1>3 DEF Moves
  <2> QED
    BY <1>1, <2>1 DEF Filed
<1>4. CASE Reconnecting \/ Named \/ Admitted
  BY <1>1, <1>4 DEF Reconnecting, Named, Admitted, Filed, KeyMaking
<1>5. CASE CreateMeInfo \/ CreatePrivKeyFile \/ SendPublicKey
  BY <1>1, <1>5 DEF CreateMeInfo, CreatePrivKeyFile, SendPublicKey, keysOfClient,
       filesOfClient, Filed, KeyMaking
<1> QED
  BY <1>2, <1>3, <1>4, <1>5 DEF ClientKinds

LEMMA FiledInitially == Init => Linked /\ Filed
<1>1. Init => Linked
  BY LockInitially DEF LockInv
<1>2. ASSUME Init  PROVE Filed
  <2>1. table.id = registered /\ registered \in {"none", "old", "other"} /\ pc = "off"
    BY <1>2 DEF Init
  <2> QED
    BY <2>1 DEF Filed, KeyMaking
<1> QED
  BY <1>1, <1>2

LEMMA FiledPreserved ==
  ASSUME TypeOK, Linked, Filed, [Next]_vars
  PROVE  Linked' /\ Filed'
<1>1. CASE Start
  <2>1. UNCHANGED <<registered, table>> /\ pc' \in {"register", "reconnect"}
    BY <1>1 DEF Start, StartRun, serverVars, storeVars
  <2> QED
    BY <1>1, <2>1, StartLinked DEF Filed, KeyMaking
<1>2. CASE Client \/ ClientKilled
  <2>1. ClientKinds /\ UNCHANGED serverVars
    BY <1>2, ClientCases DEF Client, ClientKilled
  <2> QED
    BY <2>1, ClientLinked, ClientFiled
<1>3. ASSUME NEW c \in Conns, Server(c)  PROVE Linked' /\ Filed'
  <2>1. /\ UNCHANGED clientVars /\ ServerStep(c)
        /\ link[c] \in Live /\ NoneLost
    BY <1>3, ServerLive DEF Server
  <2>2. ServerKinds(c)
    BY <2>1, ServerKind
  <2>3. registered' \in {registered, "new"} /\ \E A : Serves(c, A)
    BY <2>2 DEF ServerKinds, Ignores, Registers, Strays, Reconnects, TakesKey, sameKeys
  <2>4. table'.id \in {table.id, "new"}
    BY <2>1, ServerTable
  <2>5. Filed'
    BY <2>1, <2>3, <2>4 DEF Filed, clientVars
  <2> QED
    BY <2>1, <2>3, <2>5, ServesKeepsLinked
<1>4. CASE ServerRestart
  BY <1>4 DEF ServerRestart, Restart, connectionVars, clientVars, Linked, Filed
<1>5. CASE Finished \/ UNCHANGED vars
  BY <1>5 DEF Finished, vars, connectionVars, clientVars, serverVars, storeVars,
       Linked, Filed
<1> QED
  BY <1>1, <1>2, <1>3, <1>4, <1>5 DEF Next

-----------------------------------------------------------------------------
(* The two ways of being locked out, and why no step leads out of them.    *)

\* me.info without priv.key: every run ends before it sends anything.
Keyless == NoKey /\ pc \in {"off", "reconnect"}

\* An answer that gives the client no new id, and no key it can use with
\* its own id.
TellsNothing(a) ==
  /\ a.code = REGISTERING_DONE_1600 => a.id = "stray"
  /\ a.code # GET_PUBLIC_KEY_SEND_AES_1602
  /\ a.code = VALID_RECONNECT_1605 =>
       a.id = table.id /\ (a.id = me_info => a.pair # priv_key \/ nul_id)

\* The name is taken, by an id or with a key that is not the installation's.
Shut ==
  /\ table.id # "none" /\ registered = table.id
  /\ me_info # table.id \/ priv_key \notin {public_key, table.public_key} \/ nul_id
Stuck ==
  /\ Shut
  /\ pc \notin InSession
  /\ pc \in KeyMaking => client_id = "stray"
  /\ \A c \in Conns : \A i \in 1..Len(stream[c]) :
       stream[c][i].code = SEND_PUBLIC_KEY_826 => stream[c][i].id # table.id
  /\ run > 0 => \A i \in 1..Len(answers[run]) : TellsNothing(answers[run][i])

Doom == Keyless \/ Stuck

\* A step that brings no success to a run.
NoSuccess == \/ run' = run /\ (outcome' = outcome \/ outcome' # "success")
             \/ run' = run + 1 /\ outcome' # "success"

LEMMA LockoutIsDoom ==
  ASSUME TypeOK, RowsFit, Linked, AtRest, LockedOut
  PROVE  Doom
<1>1. /\ pc = "off" /\ \A c \in Conns : stream[c] = <<>> /\ answers[c] = <<>>
  BY DEF AtRest, Linked
<1>2. \A c \in Conns : Len(stream[c]) = 0 /\ Len(answers[c]) = 0
  BY <1>1
<1>3. run > 0 => run \in Conns
  BY DEF TypeOK, ClientTypeOK, Conns
<1>4. CASE NoKey
  BY <1>1, <1>4 DEF Doom, Keyless
<1>5. CASE ~NoKey
  <2>1. Shut
    BY <1>5 DEF LockedOut, Shut, RowsFit
  <2> QED
    BY <1>1, <1>2, <1>3, <2>1 DEF Doom, Stuck, InSession, KeyMaking
<1> QED
  BY <1>4, <1>5

LEMMA KeylessStays ==
  ASSUME TypeOK, Keyless,
         \/ Start
         \/ ClientKinds
         \/ \E c \in Conns : Server(c)
  PROVE  Keyless' /\ NoSuccess
<1>1. CASE Start
  BY <1>1 DEF Keyless, NoKey, NoSuccess, Start, StartRun, filesOfClient
<1>2. CASE ClientKinds
  <2>1. Leaves
    BY <1>2 DEF Keyless, NoKey, ClientKinds, Moves, Talks, Reconnecting, Named, Admitted,
         CreateMeInfo, CreatePrivKeyFile, SendPublicKey
  <2>2. outcome' # "success"
    BY <2>1 DEF Keyless, Leaves, Leave
  <2> QED
    BY <2>1, <2>2 DEF Keyless, NoKey, NoSuccess, Leaves, Leave, sameInstallation
<1>3. CASE \E c \in Conns : Server(c)
  BY <1>3 DEF Keyless, NoKey, NoSuccess, Server, clientVars
<1> QED
  BY <1>1, <1>2, <1>3

LEMMA StuckServer ==
  ASSUME TypeOK, Linked, Stuck, NEW c \in Conns, Server(c)
  PROVE  Stuck' /\ NoSuccess
<1>1. /\ UNCHANGED clientVars /\ ServerStep(c)
      /\ link[c] \in Live /\ NoneLost /\ run > 0
  BY ServerLive DEF Server
<1>2. ServerKinds(c)
  BY <1>1, ServerKind
<1>3. ~TakesKey(c) /\ ~Registers(c)
  BY DEF Stuck, Shut, TakesKey, Registers
<1>4. /\ UNCHANGED <<registered, nul_id, public_key>>
      /\ \E A \in SUBSET Answers :
           /\ Serves(c, A)
           /\ \A a \in A : \/ a \in Plain \/ a = Done("stray")
                           \/ a \in AesFor(VALID_RECONNECT_1605, public_key)
  <2>1. Plain \subseteq Answers /\ AesFor(VALID_RECONNECT_1605, public_key) \subseteq Answers
    BY DEF Plain, AesFor
  <2>2. Done("stray") \in Answers
    BY AnswerType DEF Done, AnswerCodes, Ids
  <2> QED
    BY <1>2, <1>3, <2>1, <2>2 DEF ServerKinds, Ignores, Strays, Reconnects, sameKeys
<1>5. PICK A \in SUBSET Answers :
           /\ Serves(c, A)
           /\ \A a \in A : \/ a \in Plain \/ a = Done("stray")
                           \/ a \in AesFor(VALID_RECONNECT_1605, public_key)
  BY <1>4
<1>6. \A d \in Conns : Inherits(d)
  BY <1>5, ServesInherits
<1>7. UNCHANGED <<table.id, table.public_key>>
  <2>1. UNCHANGED table.id
    BY <1>1, ServerTable DEF Stuck, Shut
  <2>2. ASSUME stream[c] # <<>>, IdMatches(c), Head(stream[c]).code = SEND_PUBLIC_KEY_826
        PROVE  FALSE
    <3>1. Head(stream[c]) = stream[c][1] /\ 1 \in 1..Len(stream[c])
      BY <2>2 DEF TypeOK, ConnectionTypeOK
    <3> QED
      BY <2>2, <3>1 DEF IdMatches, Stuck, Shut
  <2> QED
    BY <1>1, <2>1, <2>2, ServerTable
<1>8. /\ UNCHANGED <<run, pc, outcome, client_id, me_info, priv_key>>
      /\ Shut'
  BY <1>1, <1>4, <1>7 DEF clientVars, Stuck, Shut
<1>9. \A d \in Conns : \A i \in 1..Len(stream'[d]) :
        stream'[d][i].code = SEND_PUBLIC_KEY_826 => stream'[d][i].id # table'.id
  BY <1>6, <1>7 DEF Stuck, Inherits
<1>10. ASSUME NEW a, TellsNothing(a)  PROVE TellsNothing(a)'
  BY <1>4, <1>7, <1>8, <1>10 DEF TellsNothing
<1>11. ASSUME NEW a \in A  PROVE TellsNothing(a)
  <2> USE DEF REGISTERING_DONE_1600, GET_PUBLIC_KEY_SEND_AES_1602, VALID_RECONNECT_1605
  <2>1. CASE a \in Plain
    BY <2>1 DEF Plain, AesCodes, TellsNothing
  <2>2. CASE a = Done("stray")
    <3>1. a.code = REGISTERING_DONE_1600 /\ a.id = "stray"
      BY <2>2 DEF Done, Answer
    <3> QED
      BY <3>1 DEF TellsNothing
  <2>3. CASE a \in AesFor(VALID_RECONNECT_1605, public_key)
    BY <2>3 DEF AesFor, TellsNothing, Stuck, Shut
  <2> QED
    BY <1>5, <1>11, <2>1, <2>2, <2>3
<1>12. ASSUME NEW i \in 1..Len(answers'[run]), NEW b, b = answers'[run][i]
       PROVE  TellsNothing(b)'
  <2>1. /\ run \in Conns /\ answers \in [Conns -> Seq(Answers)]
        /\ answers[run] \in Seq(Answers) /\ Len(answers[run]) \in Nat
    BY <1>1 DEF TypeOK, ConnectionTypeOK, ClientTypeOK, Conns
  <2>2. \A j \in 1..Len(answers[run]) : TellsNothing(answers[run][j])
    BY <1>1 DEF Stuck
  <2>3. CASE answers'[run] = answers[run]
    BY <1>10, <1>12, <2>2, <2>3
  <2>4. CASE \E a \in A : answers'[run] = Append(answers[run], a)
    <3>1. PICK a \in A : answers'[run] = Append(answers[run], a)
      BY <2>4
    <3>2. /\ Len(answers'[run]) = Len(answers[run]) + 1
          /\ \A j \in 1..Len(answers[run]) : answers'[run][j] = answers[run][j]
          /\ answers'[run][Len(answers[run]) + 1] = a
      BY <2>1, <3>1, AppendProperties
    <3>3. i \in 1..Len(answers[run]) \/ i = Len(answers[run]) + 1
      BY <2>1, <3>2
    <3>4. TellsNothing(b)
      BY <1>11, <1>12, <2>2, <3>2, <3>3
    <3> QED
      BY <1>10, <3>4
  <2>5. answers'[run] = answers[run] \/ \E a \in A : answers'[run] = Append(answers[run], a)
    BY <1>5, <2>1 DEF Serves
  <2> QED
    BY <2>3, <2>4, <2>5
<1>13. (\A i \in 1..Len(answers[run]) : TellsNothing(answers[run][i]))'
  BY <1>8, <1>12 DEF TellsNothing
<1>14. NoSuccess
  BY <1>8 DEF NoSuccess
<1> QED
  BY <1>8, <1>9, <1>13, <1>14 DEF Stuck
LEMMA StuckClient ==
  ASSUME TypeOK, Linked, Filed, Stuck, ClientKinds, UNCHANGED serverVars
  PROVE  Stuck' /\ NoSuccess
<1>1. UNCHANGED <<registered, nul_id, public_key, table>>
  BY DEF serverVars, storeVars
<1>2. stream \in [Conns -> Seq(Requests)]
  BY DEF TypeOK, ConnectionTypeOK
<1>3. ASSUME \A c \in Conns : Inherits(c)
      PROVE  \A c \in Conns : \A i \in 1..Len(stream'[c]) :
               stream'[c][i].code = SEND_PUBLIC_KEY_826 => stream'[c][i].id # table'.id
  BY <1>1, <1>3 DEF Stuck, Inherits
<1>4. ASSUME UNCHANGED <<me_info, priv_key>> \/ me_info' # table.id,
             NEW a, TellsNothing(a)
      PROVE  TellsNothing(a)'
  BY <1>1, <1>4 DEF TellsNothing
<1>5. ASSUME Talks, Hears, UNCHANGED <<me_info, priv_key>> \/ me_info' # table.id
      PROVE  /\ run \in Conns /\ run > 0 /\ run' = run /\ outcome' = outcome
             /\ (\A i \in 1..Len(answers[run]) : TellsNothing(answers[run][i]))'
             /\ Shut'
  <2>1. run \in Conns /\ run > 0 /\ run' = run /\ outcome' = outcome
    BY <1>5, RunIsConn DEF Talks
  <2>2. ASSUME NEW i \in 1..Len(answers'[run]), NEW b, b = answers'[run][i]
        PROVE  TellsNothing(b)'
    <3>1. PICK j \in 1..Len(answers[run]) : b = answers[run][j]
      BY <1>5, <2>2, HearsOld
    <3>2. TellsNothing(b)
      BY <2>1, <3>1 DEF Stuck
    <3> QED
      BY <1>4, <1>5, <3>2
  <2>3. Shut'
    BY <1>1, <1>5 DEF Stuck, Shut
  <2> QED
    BY <2>1, <2>2, <2>3 DEF TellsNothing
<1>6. CASE Leaves
  <2>1. /\ UNCHANGED <<run, stream, client_id, me_info, priv_key>> /\ pc' = "off"
        /\ outcome' # "success" /\ answers'[run] = <<>>
    BY <1>6, LeavesLinked DEF Stuck, InSession
  <2>2. \A c \in Conns : Inherits(c)
    BY <1>2, <2>1, SameInherits
  <2>3. 1..Len(answers'[run]) = {}
    BY <2>1
  <2>4. Shut'
    BY <1>1, <2>1 DEF Stuck, Shut
  <2> QED
    BY <1>3, <2>1, <2>2, <2>3, <2>4 DEF Stuck, NoSuccess, InSession, KeyMaking
<1>7. CASE Moves
  <2>1. /\ Talks /\ Hears /\ UNCHANGED <<client_id, me_info, priv_key>>
        /\ stream' = stream \/ \E r \in Requests : r.code # SEND_PUBLIC_KEY_826 /\ Says(r)
        /\ pc' \in InSession => pc \in InSession
        /\ pc' \in KeyMaking => pc \in KeyMaking
    BY <1>7 DEF Moves, KeyMaking, sameInstallation
  <2>2. \A c \in Conns : Inherits(c)
    BY <1>5, <2>1, SaysInherits
  <2> QED
    BY <1>3, <1>5, <2>1, <2>2 DEF Stuck, NoSuccess
<1>8. CASE Reconnecting
  <2>1. /\ Talks /\ Hears /\ UNCHANGED <<me_info, priv_key>> /\ pc' = "await_827"
        /\ \E r \in Requests : r.code # SEND_PUBLIC_KEY_826 /\ Says(r)
    BY <1>8 DEF Reconnecting, Hears
  <2>2. \A c \in Conns : Inherits(c)
    BY <1>5, <2>1, SaysInherits
  <2> QED
    BY <1>3, <1>5, <2>1, <2>2 DEF Stuck, NoSuccess, InSession, KeyMaking
<1>9. answers[run] # <<>> /\ pc # "off" => TellsNothing(Head(answers[run]))
  <2> SUFFICES ASSUME answers[run] # <<>>, pc # "off"  PROVE TellsNothing(Head(answers[run]))
    OBVIOUS
  <2>1. run \in Conns /\ run > 0
    BY RunIsConn
  <2>2. Head(answers[run]) = answers[run][1] /\ 1 \in 1..Len(answers[run])
    BY <2>1 DEF TypeOK, ConnectionTypeOK
  <2> QED
    BY <2>1, <2>2 DEF Stuck
<1>10. CASE Named
  <2>1. /\ Talks /\ Hears /\ UNCHANGED <<me_info, priv_key>> /\ pc' = "make_keys"
        /\ stream' = stream /\ answers[run] # <<>>
        /\ Head(answers[run]).code = REGISTERING_DONE_1600
        /\ client_id' = Head(answers[run]).id
    BY <1>10 DEF Named, Hears
  <2>2. \A c \in Conns : Inherits(c)
    BY <1>2, <2>1, SameInherits
  <2>3. client_id' = "stray"
    BY <1>9, <2>1 DEF Talks, TellsNothing
  <2> QED
    BY <1>3, <1>5, <2>1, <2>2, <2>3 DEF Stuck, NoSuccess, InSession
<1>11. ~Admitted
  <2> SUFFICES ASSUME Admitted PROVE FALSE
    OBVIOUS
  <2>1. /\ TellsNothing(Head(answers[run]))
        /\ Head(answers[run]).id = client_id /\ ~nul_id /\ Head(answers[run]).pair = my_pair
    BY <1>9 DEF Admitted, Talks
  <2>2. pc = "await_827" /\ Head(answers[run]).code = VALID_RECONNECT_1605
    BY <2>1 DEF Admitted, TellsNothing
  <2>3. me_info = client_id /\ my_pair = priv_key
    BY <2>2 DEF Filed
  <2> QED
    BY <2>1, <2>2, <2>3 DEF TellsNothing
<1>12. CASE CreateMeInfo \/ CreatePrivKeyFile
  <2>1. /\ Talks /\ Hears /\ UNCHANGED <<client_id, stream>> /\ pc \in KeyMaking
        /\ pc' \in KeyMaking /\ me_info' = client_id
    BY <1>12 DEF CreateMeInfo, CreatePrivKeyFile, Talks, Hears, connectionVars,
         keysOfClient, KeyMaking, Filed
  <2>2. client_id = "stray" /\ me_info' # table.id
    BY <2>1 DEF Stuck, Filed
  <2>3. \A c \in Conns : Inherits(c)
    BY <1>2, <2>1, SameInherits
  <2> QED
    BY <1>3, <1>5, <2>1, <2>2, <2>3 DEF Stuck, NoSuccess, InSession, KeyMaking
<1>13. CASE SendPublicKey
  <2> DEFINE r == PublicKeyRequest(client_id, my_pair)
  <2>1. /\ Talks /\ Hears /\ UNCHANGED <<client_id, me_info, priv_key>>
        /\ pc = "send_key" /\ pc' = "await_826" /\ Says(r)
    BY <1>13 DEF SendPublicKey, SendToServer, Talks, Hears, Says, keysOfClient, filesOfClient
  <2>2. r \in Requests /\ r.id = "stray" /\ "stray" # table.id
    <3>1. client_id = "stray"
      BY <2>1 DEF Stuck, KeyMaking
    <3>2. r \in Requests
      BY PublicKeyRequestType DEF TypeOK, ClientTypeOK
    <3> QED
      BY <3>1, <3>2 DEF PublicKeyRequest, Request, Filed
  <2> HIDE DEF r
  <2>3. ASSUME NEW c \in Conns, NEW i \in 1..Len(stream'[c]),
               stream'[c][i].code = SEND_PUBLIC_KEY_826
        PROVE  stream'[c][i].id # table.id
    <3>1. CASE stream'[c] = stream[c]
      BY <2>3, <3>1 DEF Stuck
    <3>2. CASE stream'[c] = Append(stream[c], r)
      <4>1. /\ Len(stream[c]) \in Nat /\ Len(stream'[c]) = Len(stream[c]) + 1
            /\ \A j \in 1..Len(stream[c]) : stream'[c][j] = stream[c][j]
            /\ stream'[c][Len(stream[c]) + 1] = r
        BY <1>2, <2>2, <3>2, AppendProperties
      <4>2. CASE i \in 1..Len(stream[c])
        BY <2>3, <4>1, <4>2 DEF Stuck
      <4>3. CASE i = Len(stream[c]) + 1
        BY <2>2, <4>1, <4>3
      <4> QED
        BY <2>3, <4>1, <4>2, <4>3
    <3> QED
      BY <1>2, <1>5, <2>1, <3>1, <3>2 DEF Says
  <2> QED
    BY <1>1, <1>5, <2>1, <2>3 DEF Stuck, NoSuccess, InSession, KeyMaking
<1> QED
  BY <1>6, <1>7, <1>8, <1>10, <1>11, <1>12, <1>13 DEF ClientKinds

LEMMA StuckStart ==
  ASSUME TypeOK, Linked, Stuck, Start
  PROVE  Stuck' /\ NoSuccess
<1>1. /\ UNCHANGED <<stream, me_info, priv_key, registered, nul_id, public_key, table>>
      /\ pc' \in {"register", "reconnect"} /\ outcome' = "running" /\ run' = run + 1
  BY DEF Start, StartRun, filesOfClient, serverVars, storeVars
<1>2. run' \in Conns /\ answers'[run'] = <<>>
  BY StartLinked
<1>3. 1..Len(answers'[run']) = {}
  BY <1>2
<1>4. Shut'
  BY <1>1 DEF Stuck, Shut
<1> QED
  BY <1>1, <1>3, <1>4 DEF Stuck, NoSuccess, InSession, KeyMaking

\* The list is read back from the table, in which the name is taken.
LEMMA StuckRestart ==
  ASSUME Stuck, ServerRestart
  PROVE  Stuck' /\ NoSuccess
<1>1. /\ UNCHANGED <<stream, answers, nul_id, table>>
      /\ UNCHANGED <<run, pc, outcome, client_id, me_info, priv_key>>
      /\ registered' = table.id /\ public_key' = table.public_key
  BY DEF ServerRestart, Restart, connectionVars, clientVars
<1>2. Shut'
  BY <1>1 DEF Stuck, Shut
<1> QED
  BY <1>1, <1>2 DEF Stuck, NoSuccess, TellsNothing

LEMMA DoomStays ==
  ASSUME TypeOK, Linked, Filed, Doom, [Next]_vars
  PROVE  Doom' /\ NoSuccess
<1>1. CASE Start
  BY <1>1, KeylessStays, StuckStart DEF Doom
<1>2. CASE Client \/ ClientKilled
  <2>1. ClientKinds /\ UNCHANGED serverVars
    BY <1>2, ClientCases DEF Client, ClientKilled
  <2> QED
    BY <2>1, KeylessStays, StuckClient DEF Doom
<1>3. CASE \E c \in Conns : Server(c)
  BY <1>3, KeylessStays, StuckServer DEF Doom
<1>4. CASE ServerRestart
  <2>1. Keyless => Keyless' /\ NoSuccess
    BY <1>4 DEF ServerRestart, clientVars, Keyless, NoKey, NoSuccess
  <2> QED
    BY <1>4, <2>1, StuckRestart DEF Doom
<1>5. CASE Finished \/ UNCHANGED vars
  <2>1. /\ UNCHANGED <<stream, answers, registered, nul_id, public_key, table>>
        /\ UNCHANGED <<run, pc, outcome, client_id, me_info, priv_key>>
    BY <1>5 DEF Finished, vars, connectionVars, clientVars, serverVars, storeVars
  <2>2. Stuck => Stuck'
    BY <2>1 DEF Stuck, Shut, TellsNothing
  <2>3. Keyless => Keyless'
    BY <2>1 DEF Keyless, NoKey
  <2> QED
    BY <2>1, <2>2, <2>3 DEF Doom, NoSuccess
<1> QED
  BY <1>1, <1>2, <1>3, <1>4, <1>5 DEF Next

\* The runs after the n-th are without success.
Fated(n) == Doom /\ run >= n /\ (run > n => outcome # "success")

LEMMA FatedStays ==
  ASSUME TypeOK, Linked, Filed, NEW n \in 0..(MaxRuns - 1), Fated(n), [Next]_vars
  PROVE  Fated(n)'
<1>1. Doom' /\ NoSuccess
  BY DoomStays DEF Fated
<1>2. run \in Nat /\ n \in Nat
  BY DEF TypeOK, ClientTypeOK
<1> QED
  BY <1>1, <1>2 DEF Fated, NoSuccess

(* Whatever is split, killed or fails, and however often the server        *)
(* restarts: once everything is at rest and the installation's me.info and *)
(* priv.key do not fit the row of the name, no later run ends with         *)
(* success. registration_request_825 refuses a name that is in the table   *)
(* for good, a public key is only accepted for the id of its row, and      *)
(* reconnection_request_827 encrypts for the key of the list or, after a   *)
(* restart, of the row.                                                    *)
THEOREM LockoutsAreFinal == Spec => LockoutIsFinal
<1> DEFINE Inv == TypesAndRecords /\ Linked /\ Filed
<1>1. Inv /\ [Next]_vars => Inv'
  BY TypesPreserved, FiledPreserved DEF TypesAndRecords
<1>2. Init => Inv
  BY TypesInitially, FiledInitially
<1> SUFFICES ASSUME NEW n \in 0..(MaxRuns - 1)
             PROVE  Spec => [](AtRest /\ LockedOut /\ run = n
                                 => [](run > n => outcome # "success"))
  BY DEF LockoutIsFinal
<1>3. Inv /\ Fated(n) /\ [Next]_vars => Fated(n)'
  BY FatedStays DEF TypesAndRecords
<1>4. Inv /\ AtRest /\ LockedOut /\ run = n => Fated(n)
  <2>1. n \in Nat
    OBVIOUS
  <2> QED
    BY <2>1, LockoutIsDoom DEF TypesAndRecords, Fated
<1>5. Fated(n) => (run > n => outcome # "success")
  BY DEF Fated
<1> HIDE DEF Inv
<1> QED
  BY <1>1, <1>2, <1>3, <1>4, <1>5, PTL DEF Spec
=============================================================================
