-------------------------- MODULE EventLoop_proofs --------------------------
(***************************************************************************)
(* The single thread of the server never waits for a client that waits for *)
(* it, for every number of clients, fields, tries and requests.            *)
(***************************************************************************)
EXTENDS EventLoop, SequenceTheorems, TLAPS

-----------------------------------------------------------------------------
(* The inductive invariant.                                                *)

Links == {"none", "connecting", "open", "closed"}

Types ==
  /\ link \in [Clients -> Links]
  /\ wire \in [Clients -> Seq(1..Fields)] /\ inbox \in [Clients -> Seq(1..Fields)]
  /\ answers \in [Clients -> Seq({"ok", "error"})]
  /\ waiting \in [Clients -> BOOLEAN]
  /\ serving \in Clients \cup {"nobody"}
  /\ at \in {"recv", "clean_buffer", "send_error"}
  /\ got \in Nat

\* A client that waits has a connection; a handler runs for one that was
\* accepted, and events name those.
Connected(c) ==
  /\ waiting[c] => link[c] \in {"connecting", "open"}
  /\ serving = c \/ c \in events => link[c] \in {"open", "closed"}

\* A handler in recv has not read a whole request.
Reading == serving # "nobody" /\ at = "recv" => got < Fields

\* Bytes still to come for the request c waits on: nothing of its newest
\* request was thrown away, since clean_buffer is followed by an answer.
ToCome(c) == Len(wire[c]) + Len(inbox[c])
Owed(c) ==
  waiting[c] /\ answers[c] = <<>> =>
    /\ serving # c => ToCome(c) >= Fields
    /\ serving = c /\ at = "recv" => got + ToCome(c) >= Fields

Inv == Types /\ Reading /\ \A c \in Clients : Connected(c) /\ Owed(c)

-----------------------------------------------------------------------------
(* What steps do to the sequences.                                         *)

LEMMA Sent ==
  ASSUME Types, NEW c \in Clients, Send(c)
  PROVE  /\ wire' \in [Clients -> Seq(1..Fields)]
         /\ Len(wire'[c]) = Len(wire[c]) + Fields
         /\ \A d \in Clients : d # c => wire'[d] = wire[d]
<1> DEFINE request == [k \in 1..Fields |-> k]
<1>1. Fields \in Nat  BY LoopAssumption
<1>2. request \in Seq(1..Fields) /\ Len(request) = Fields  BY <1>1
<1> HIDE DEF request
<1>3. wire' = [wire EXCEPT ![c] = wire[c] \o request]  BY DEF Send, request
<1>4. wire[c] \in Seq(1..Fields)  BY DEF Types
<1>5. /\ wire[c] \o request \in Seq(1..Fields)
      /\ Len(wire[c] \o request) = Len(wire[c]) + Fields
  BY <1>2, <1>4, ConcatProperties
<1> QED  BY <1>3, <1>5 DEF Types

LEMMA Shorter ==
  ASSUME NEW S, NEW s \in Seq(S), s # <<>>
  PROVE  Tail(s) \in Seq(S) /\ Len(Tail(s)) = Len(s) - 1 /\ Head(s) \in S
BY HeadTailProperties

LEMMA Lengths ==
  ASSUME Types, NEW c \in Clients
  PROVE  /\ Len(wire[c]) \in Nat /\ Len(inbox[c]) \in Nat
         /\ wire[c] \in Seq(1..Fields) /\ inbox[c] \in Seq(1..Fields)
         /\ Fields \in Nat /\ Fields > 0 /\ got \in Nat
BY LenProperties, LoopAssumption DEF Types

LEMMA Sums ==
  ASSUME NEW a \in Nat, NEW b \in Nat, NEW g \in Nat, NEW n \in Nat
  PROVE  /\ (a - 1) + (b + 1) = a + b
         /\ (g + 1) + (a + (b - 1)) = g + (a + b)
         /\ g < n /\ g + (a + b) >= n => a + b > 0
OBVIOUS

LEMMA Underway ==
  ASSUME NEW S, NEW s \in Seq(S), NEW t \in Seq(S), Len(s) + Len(t) > 0
  PROVE  s \o t # <<>>
<1>1. s \o t \in Seq(S) /\ Len(s \o t) = Len(s) + Len(t)  BY ConcatProperties
<1> QED  BY <1>1, EmptySeq

\* An answer reaches a client that waits: it is owed nothing more.
LEMMA AnswerGiven ==
  ASSUME Inv, NEW c \in Clients, NEW a \in {"ok", "error"}, serving = c, Answer(c, a)
  PROVE  /\ serving' = "nobody"
         /\ answers' \in [Clients -> Seq({"ok", "error"})]
         /\ waiting[c] => answers'[c] # <<>>
         /\ \A d \in Clients : d # c => answers'[d] = answers[d]
<1>1. answers[c] \in Seq({"ok", "error"})  BY DEF Inv, Types
<1>2. /\ Append(answers[c], a) \in Seq({"ok", "error"})
      /\ Append(answers[c], a) # <<>>
  BY <1>1, AppendProperties
<1>3. waiting[c] => link[c] = "open"  BY DEF Inv, Connected
<1>4. answers' = [answers EXCEPT ![c] = IF link[c] = "open" THEN Append(answers[c], a)
                                        ELSE answers[c]]
  BY DEF Answer
<1> QED  BY <1>1, <1>2, <1>3, <1>4 DEF Answer, Inv, Types

-----------------------------------------------------------------------------
(* Clients and network.                                                    *)

LEMMA InvInit == Init => Inv
<1> SUFFICES ASSUME Init PROVE Inv  OBVIOUS
<1>1. Types  BY DEF Init, Types, Links
<1>2. Reading  BY DEF Init, Reading
<1>3. \A c \in Clients : ~waiting[c] /\ serving # c /\ c \notin events
  BY LoopAssumption DEF Init
<1> QED  BY <1>1, <1>2, <1>3 DEF Inv, Connected, Owed

LEMMA InvConnect == Inv /\ (\E d \in Clients : Connect(d)) => Inv'
<1> SUFFICES ASSUME Inv, NEW d \in Clients, Connect(d) PROVE Inv'  OBVIOUS
<1>1. /\ link[d] = "none" /\ link' = [link EXCEPT ![d] = "connecting"]
      /\ UNCHANGED <<wire, inbox, answers, waiting, serving, at, got, events>>
  BY DEF Connect, serverVars
<1>2. Types'  BY <1>1 DEF Inv, Types, Links
<1>3. Reading'  BY <1>1 DEF Inv, Reading
<1>4. ASSUME NEW c \in Clients PROVE Connected(c)' /\ Owed(c)'
  <2>1. link'[c] = IF c = d THEN "connecting" ELSE link[c]
    BY <1>1 DEF Inv, Types
  <2> QED  BY <1>1, <2>1 DEF Inv, Connected, Owed, ToCome
<1> QED  BY <1>2, <1>3, <1>4 DEF Inv

LEMMA InvRequest == Inv /\ (\E d \in Clients : Request(d)) => Inv'
<1> SUFFICES ASSUME Inv, NEW d \in Clients, Request(d) PROVE Inv'  OBVIOUS
<1>1. /\ link[d] \in {"connecting", "open"} /\ Send(d)
      /\ waiting' = [waiting EXCEPT ![d] = TRUE]
      /\ UNCHANGED <<link, inbox, answers, serving, at, got, events>>
  BY DEF Request, serverVars
<1>2. /\ wire' \in [Clients -> Seq(1..Fields)]
      /\ Len(wire'[d]) = Len(wire[d]) + Fields
      /\ \A e \in Clients : e # d => wire'[e] = wire[e]
  BY <1>1, Sent DEF Inv
<1>3. Types'  BY <1>1, <1>2 DEF Inv, Types
<1>4. Reading'  BY <1>1 DEF Inv, Reading
<1>5. ASSUME NEW c \in Clients PROVE Connected(c)' /\ Owed(c)'
  <2>1. CASE c = d
    <3>1. Len(wire[c]) \in Nat /\ Len(inbox[c]) \in Nat /\ Fields \in Nat /\ got \in Nat
      BY Lengths DEF Inv
    <3>2. ToCome(c)' >= Fields /\ got' + ToCome(c)' >= Fields
      BY <1>1, <1>2, <2>1, <3>1 DEF ToCome
    <3> QED  BY <1>1, <2>1, <3>2 DEF Inv, Connected, Owed
  <2>2. CASE c # d
    <3>1. waiting'[c] = waiting[c] /\ wire'[c] = wire[c]
      BY <1>1, <1>2, <2>2 DEF Inv, Types
    <3> QED  BY <1>1, <3>1 DEF Inv, Connected, Owed, ToCome
  <2> QED  BY <2>1, <2>2
<1> QED  BY <1>3, <1>4, <1>5 DEF Inv

LEMMA Closed ==
  ASSUME Inv, NEW d \in Clients, link[d] = "open" \/ waiting[d], Close(d),
         UNCHANGED <<wire, inbox, serving, at, got, events>>
  PROVE  Inv'
<1>1. /\ link' = [link EXCEPT ![d] = "closed"]
      /\ waiting' = [waiting EXCEPT ![d] = FALSE]
      /\ answers' = [answers EXCEPT ![d] = <<>>]
  BY DEF Close
<1>2. <<>> \in Seq({"ok", "error"})  OBVIOUS
<1>3. Types'  BY <1>1, <1>2 DEF Inv, Types, Links
<1>4. Reading'  BY DEF Inv, Reading
<1>5. ASSUME NEW c \in Clients PROVE Connected(c)' /\ Owed(c)'
  <2>1. CASE c = d
    <3>1. ~waiting'[c] /\ link'[c] = "closed"  BY <1>1, <2>1 DEF Inv, Types
    <3> QED  BY <3>1 DEF Connected, Owed
  <2>2. CASE c # d
    <3>1. waiting'[c] = waiting[c] /\ link'[c] = link[c] /\ answers'[c] = answers[c]
      BY <1>1, <2>2 DEF Inv, Types
    <3> QED  BY <3>1 DEF Inv, Connected, Owed, ToCome
  <2> QED  BY <2>1, <2>2
<1> QED  BY <1>3, <1>4, <1>5 DEF Inv

LEMMA InvLeave == Inv /\ (\E d \in Clients : Leave(d)) => Inv'
BY Closed DEF Leave, serverVars

LEMMA InvOnAnswer == Inv /\ (\E d \in Clients : OnAnswer(d)) => Inv'
<1> SUFFICES ASSUME Inv, NEW d \in Clients, OnAnswer(d) PROVE Inv'  OBVIOUS
<1>1. /\ waiting[d] /\ answers[d] # <<>>
      /\ UNCHANGED <<inbox, serving, at, got, events>>
  BY DEF OnAnswer, serverVars
<1>2. Tail(answers[d]) \in Seq({"ok", "error"})
  BY <1>1, Shorter DEF Inv, Types
<1>3. CASE /\ answers' = [answers EXCEPT ![d] = Tail(@)]
           /\ waiting' = [waiting EXCEPT ![d] = FALSE]
           /\ UNCHANGED <<link, wire>>
  <2>1. Types'  BY <1>1, <1>2, <1>3 DEF Inv, Types
  <2>2. Reading'  BY <1>1 DEF Inv, Reading
  <2>3. ASSUME NEW c \in Clients PROVE Connected(c)' /\ Owed(c)'
    <3>1. CASE c = d
      <4>1. ~waiting'[c]  BY <1>3, <3>1 DEF Inv, Types
      <4> QED  BY <1>1, <1>3, <4>1 DEF Inv, Connected, Owed
    <3>2. CASE c # d
      <4>1. waiting'[c] = waiting[c] /\ answers'[c] = answers[c]
        BY <1>3, <3>2 DEF Inv, Types
      <4> QED  BY <1>1, <1>3, <4>1 DEF Inv, Connected, Owed, ToCome
    <3> QED  BY <3>1, <3>2
  <2> QED  BY <2>1, <2>2, <2>3 DEF Inv
<1>4. CASE /\ answers' = [answers EXCEPT ![d] = Tail(@)] /\ Send(d)
           /\ UNCHANGED <<link, waiting>>
  <2>1. /\ wire' \in [Clients -> Seq(1..Fields)]
        /\ Len(wire'[d]) = Len(wire[d]) + Fields
        /\ \A e \in Clients : e # d => wire'[e] = wire[e]
    BY <1>4, Sent DEF Inv
  <2>2. Types'  BY <1>1, <1>2, <1>4, <2>1 DEF Inv, Types
  <2>3. Reading'  BY <1>1 DEF Inv, Reading
  <2>4. ASSUME NEW c \in Clients PROVE Connected(c)' /\ Owed(c)'
    <3>1. CASE c = d
      <4>1. Len(wire[c]) \in Nat /\ Len(inbox[c]) \in Nat /\ Fields \in Nat /\ got \in Nat
        BY Lengths DEF Inv
      <4>2. ToCome(c)' >= Fields /\ got' + ToCome(c)' >= Fields
        BY <1>1, <2>1, <3>1, <4>1 DEF ToCome
      <4> QED  BY <1>1, <1>4, <4>2 DEF Inv, Connected, Owed
    <3>2. CASE c # d
      <4>1. answers'[c] = answers[c] /\ wire'[c] = wire[c]
        BY <1>4, <2>1, <3>2 DEF Inv, Types
      <4> QED  BY <1>1, <1>4, <4>1 DEF Inv, Connected, Owed, ToCome
    <3> QED  BY <3>1, <3>2
  <2> QED  BY <2>2, <2>3, <2>4 DEF Inv
<1>5. CASE Close(d) /\ UNCHANGED wire
  BY <1>1, <1>5, Closed
<1> QED  BY <1>3, <1>4, <1>5 DEF OnAnswer

LEMMA InvDeliver == Inv /\ (\E d \in Clients : Deliver(d)) => Inv'
<1> SUFFICES ASSUME Inv, NEW d \in Clients, Deliver(d) PROVE Inv'  OBVIOUS
<1>1. /\ wire[d] # <<>> /\ wire' = [wire EXCEPT ![d] = Tail(wire[d])]
      /\ inbox' = [inbox EXCEPT ![d] = Append(inbox[d], Head(wire[d]))]
      /\ UNCHANGED <<link, answers, waiting, serving, at, got, events>>
  BY DEF Deliver, clientVars, serverVars
<1>2. wire[d] \in Seq(1..Fields) /\ inbox[d] \in Seq(1..Fields)
  BY DEF Inv, Types
<1>3. /\ Tail(wire[d]) \in Seq(1..Fields) /\ Len(Tail(wire[d])) = Len(wire[d]) - 1
      /\ Head(wire[d]) \in 1..Fields
  BY <1>1, <1>2, Shorter
<1>4. /\ Append(inbox[d], Head(wire[d])) \in Seq(1..Fields)
      /\ Len(Append(inbox[d], Head(wire[d]))) = Len(inbox[d]) + 1
  BY <1>2, <1>3, AppendProperties
<1>5. Types'  BY <1>1, <1>3, <1>4 DEF Inv, Types
<1>6. Reading'  BY <1>1 DEF Inv, Reading
<1>7. ASSUME NEW c \in Clients PROVE Connected(c)' /\ Owed(c)'
  <2>1. ToCome(c)' = ToCome(c)
    <3>1. CASE c = d
      <4>1. wire'[c] = Tail(wire[d]) /\ inbox'[c] = Append(inbox[d], Head(wire[d]))
        BY <1>1, <3>1 DEF Inv, Types
      <4>2. Len(wire[c]) \in Nat /\ Len(inbox[c]) \in Nat  BY Lengths DEF Inv
      <4>3. Len(wire'[c]) = Len(wire[c]) - 1 /\ Len(inbox'[c]) = Len(inbox[c]) + 1
        BY <1>3, <1>4, <3>1, <4>1
      <4>4. ToCome(c)' = (Len(wire[c]) - 1) + (Len(inbox[c]) + 1)
        BY <4>3 DEF ToCome
      <4>5. ToCome(c)' = Len(wire[c]) + Len(inbox[c])  BY <4>2, <4>4, Sums
      <4> QED  BY <4>5 DEF ToCome
    <3>2. CASE c # d
      <4>1. wire'[c] = wire[c] /\ inbox'[c] = inbox[c]
        BY <1>1, <3>2 DEF Inv, Types
      <4> QED  BY <4>1 DEF ToCome
    <3> QED  BY <3>1, <3>2
  <2> QED  BY <1>1, <2>1 DEF Inv, Connected, Owed
<1> QED  BY <1>5, <1>6, <1>7 DEF Inv

-----------------------------------------------------------------------------
(* The server.                                                             *)

LEMMA InvSelect == Inv /\ Select => Inv'
<1> SUFFICES ASSUME Inv, Select PROVE Inv'  OBVIOUS
<1>1. /\ events' = Ready
      /\ UNCHANGED <<link, wire, inbox, answers, waiting, serving, at, got>>
  BY DEF Select, Reported, clientVars
<1>2. \A c \in Clients : c \in Ready => link[c] \in {"open", "closed"}
  BY LoopAssumption DEF Ready
<1>3. Types' /\ Reading'  BY <1>1 DEF Inv, Types, Reading
<1>4. \A c \in Clients : Connected(c)' /\ Owed(c)'
  BY <1>1, <1>2 DEF Inv, Connected, Owed, ToCome
<1> QED  BY <1>3, <1>4 DEF Inv

LEMMA InvAccept == Inv /\ accept => Inv'
<1> SUFFICES ASSUME Inv, accept PROVE Inv'  OBVIOUS
<1>1. PICK d \in Clients : link[d] = "connecting" /\ link' = [link EXCEPT ![d] = "open"]
  BY DEF accept
<1>2. /\ events' = events \ {"listener"}
      /\ UNCHANGED <<wire, inbox, answers, waiting, serving, at, got>>
  BY DEF accept, clientVars
<1>3. Types' /\ Reading'  BY <1>1, <1>2 DEF Inv, Types, Reading, Links
<1>4. ASSUME NEW c \in Clients PROVE Connected(c)' /\ Owed(c)'
  <2>1. link'[c] = IF c = d THEN "open" ELSE link[c]  BY <1>1 DEF Inv, Types
  <2> QED  BY <1>2, <2>1 DEF Inv, Connected, Owed, ToCome
<1> QED  BY <1>3, <1>4 DEF Inv

LEMMA InvRead == Inv /\ (\E d \in Clients : read(d)) => Inv'
<1> SUFFICES ASSUME Inv, NEW d \in Clients, read(d) PROVE Inv'  OBVIOUS
<1>1. /\ serving = "nobody" /\ d \in events /\ events' = events \ {d}
      /\ at' = "recv" /\ got' = 0
      /\ UNCHANGED <<wire, inbox, answers, waiting>>
  BY DEF read, clientVars
<1>2. "nobody" \notin Clients /\ Fields \in Nat /\ Fields > 0  BY LoopAssumption
<1>3. CASE AtEnd(d)
  <2>1. /\ link[d] = "closed" /\ link' = [link EXCEPT ![d] = "none"]
        /\ serving' = serving
    BY <1>3 DEF read, AtEnd
  <2>2. Types' /\ Reading'  BY <1>1, <1>2, <2>1 DEF Inv, Types, Reading, Links
  <2>3. ASSUME NEW c \in Clients PROVE Connected(c)' /\ Owed(c)'
    <3>1. link'[c] = IF c = d THEN "none" ELSE link[c]  BY <2>1 DEF Inv, Types
    <3> QED  BY <1>1, <1>2, <2>1, <3>1 DEF Inv, Connected, Owed, ToCome
  <2> QED  BY <2>2, <2>3 DEF Inv
<1>4. CASE ~AtEnd(d)
  <2>1. serving' = d /\ link' = link  BY <1>4 DEF read
  <2>2. Types' /\ Reading'  BY <1>1, <1>2, <2>1 DEF Inv, Types, Reading
  <2>3. ASSUME NEW c \in Clients PROVE Connected(c)' /\ Owed(c)'
    <3>1. Len(wire[c]) \in Nat /\ Len(inbox[c]) \in Nat  BY Lengths DEF Inv
    <3>2. ToCome(c)' = ToCome(c) /\ got' + ToCome(c)' = ToCome(c)
      BY <1>1, <3>1 DEF ToCome
    <3>3. Connected(c) /\ Owed(c) /\ serving # c  BY <1>1, <1>2 DEF Inv
    <3>4. Connected(c)'  BY <1>1, <2>1, <3>3 DEF Inv, Connected
    <3>5. Owed(c)'  BY <1>1, <3>2, <3>3 DEF Owed
    <3> QED  BY <3>4, <3>5
  <2> QED  BY <2>2, <2>3 DEF Inv
<1> QED  BY <1>3, <1>4

\* The handler ends with an answer.
LEMMA InvAnswer ==
  ASSUME Inv, NEW d \in Clients, NEW a \in {"ok", "error"}, serving = d, Answer(d, a),
         inbox' \in [Clients -> Seq(1..Fields)],
         \A c \in Clients : c # d => inbox'[c] = inbox[c],
         got' \in Nat, at' = at, UNCHANGED <<link, wire, waiting, events>>
  PROVE  Inv'
<1>1. /\ serving' = "nobody"
      /\ answers' \in [Clients -> Seq({"ok", "error"})]
      /\ waiting[d] => answers'[d] # <<>>
      /\ \A c \in Clients : c # d => answers'[c] = answers[c]
  BY AnswerGiven
<1>2. Types' /\ Reading'  BY <1>1 DEF Inv, Types, Reading
<1>3. ASSUME NEW c \in Clients PROVE Connected(c)' /\ Owed(c)'
  <2>1. serving' # c  BY <1>1, LoopAssumption
  <2>2. CASE c = d  BY <1>1, <2>1, <2>2 DEF Inv, Connected, Owed
  <2>3. CASE c # d  BY <1>1, <2>1, <2>3 DEF Inv, Connected, Owed, ToCome
  <2> QED  BY <2>2, <2>3
<1> QED  BY <1>2, <1>3 DEF Inv

LEMMA InvRecv == Inv /\ (\E d \in Clients : recv(d)) => Inv'
<1> SUFFICES ASSUME Inv, NEW d \in Clients, recv(d) PROVE Inv'  OBVIOUS
<1>1. /\ serving = d /\ at = "recv" /\ inbox[d] # <<>>
      /\ inbox' = [inbox EXCEPT ![d] = Tail(inbox[d])] /\ got' = got + 1
      /\ UNCHANGED <<link, wire, waiting, events>>
  BY DEF recv, clientVars
<1>2. Tail(inbox[d]) \in Seq(1..Fields) /\ Len(Tail(inbox[d])) = Len(inbox[d]) - 1
  BY <1>1, Shorter DEF Inv, Types
<1>3. /\ inbox' \in [Clients -> Seq(1..Fields)] /\ inbox'[d] = Tail(inbox[d])
      /\ \A c \in Clients : c # d => inbox'[c] = inbox[c]
      /\ got' \in Nat
  BY <1>1, <1>2 DEF Inv, Types
<1>4. CASE Answer(d, "ok") /\ UNCHANGED at
  BY <1>1, <1>3, <1>4, InvAnswer
<1>5. CASE /\ got' < Fields \/ at' = "clean_buffer"
           /\ at' \in {"recv", "clean_buffer"} /\ UNCHANGED <<answers, serving>>
  <2>1. Types' /\ Reading'  BY <1>1, <1>3, <1>5 DEF Inv, Types, Reading
  <2>2. ASSUME NEW c \in Clients PROVE Connected(c)' /\ Owed(c)'
    <3>1. CASE c = d
      <4>1. /\ Len(wire[c]) \in Nat /\ Len(inbox[c]) \in Nat /\ got \in Nat
            /\ Fields \in Nat
        BY Lengths DEF Inv
      <4>2. Len(wire'[c]) = Len(wire[c]) /\ Len(inbox'[c]) = Len(inbox[c]) - 1
        BY <1>1, <1>2, <1>3, <3>1
      <4>3. ToCome(c)' = Len(wire[c]) + (Len(inbox[c]) - 1)  BY <4>2 DEF ToCome
      <4>4. got' + ToCome(c)' = got + ToCome(c)
        <5>1. got' + ToCome(c)' = (got + 1) + (Len(wire[c]) + (Len(inbox[c]) - 1))
          BY <1>1, <4>3
        <5>2. got' + ToCome(c)' = got + (Len(wire[c]) + Len(inbox[c]))
          BY <4>1, <5>1, Sums
        <5> QED  BY <5>2 DEF ToCome
      <4> QED  BY <1>1, <1>5, <3>1, <4>4 DEF Inv, Connected, Owed
    <3>2. CASE c # d
      BY <1>1, <1>3, <1>5, <3>2 DEF Inv, Connected, Owed, ToCome
    <3> QED  BY <3>1, <3>2
  <2> QED  BY <2>1, <2>2 DEF Inv
<1> QED  BY <1>1, <1>4, <1>5 DEF recv

LEMMA InvRecvNothing == Inv /\ (\E d \in Clients : recv_nothing(d)) => Inv'
<1> SUFFICES ASSUME Inv, NEW d \in Clients, recv_nothing(d) PROVE Inv'  OBVIOUS
<1>1. /\ serving = d /\ at' = "clean_buffer"
      /\ UNCHANGED <<link, wire, inbox, answers, waiting, events, serving, got>>
  BY DEF recv_nothing, clientVars
<1>2. Types' /\ Reading'  BY <1>1 DEF Inv, Types, Reading
<1>3. \A c \in Clients : Connected(c)' /\ Owed(c)'
  BY <1>1 DEF Inv, Connected, Owed, ToCome
<1> QED  BY <1>2, <1>3 DEF Inv

LEMMA InvCleanBuffer == Inv /\ (\E d \in Clients : clean_buffer(d)) => Inv'
<1> SUFFICES ASSUME Inv, NEW d \in Clients, clean_buffer(d) PROVE Inv'  OBVIOUS
<1>1. /\ serving = d /\ at' = "send_error" /\ inbox' = [inbox EXCEPT ![d] = <<>>]
      /\ UNCHANGED <<link, wire, answers, waiting, events, serving, got>>
  BY DEF clean_buffer, clientVars
<1>2. <<>> \in Seq(1..Fields)  OBVIOUS
<1>3. Types' /\ Reading'  BY <1>1, <1>2 DEF Inv, Types, Reading
<1>4. ASSUME NEW c \in Clients PROVE Connected(c)' /\ Owed(c)'
  <2>1. c # d => inbox'[c] = inbox[c]  BY <1>1 DEF Inv, Types
  <2> QED  BY <1>1, <2>1 DEF Inv, Connected, Owed, ToCome
<1> QED  BY <1>3, <1>4 DEF Inv

LEMMA InvSendError == Inv /\ (\E d \in Clients : send_error(d)) => Inv'
<1> SUFFICES ASSUME Inv, NEW d \in Clients, send_error(d) PROVE Inv'  OBVIOUS
<1>1. /\ serving = d /\ Answer(d, "error") /\ at' = at
      /\ UNCHANGED <<link, wire, inbox, waiting, events, got>>
  BY DEF send_error, clientVars
<1>2. inbox \in [Clients -> Seq(1..Fields)] /\ got \in Nat  BY DEF Inv, Types
<1> QED  BY <1>1, <1>2, InvAnswer

-----------------------------------------------------------------------------
(* The theorem.                                                            *)

LEMMA InvNext == Inv /\ [Next]_vars => Inv'
<1> SUFFICES ASSUME Inv, [Next]_vars PROVE Inv'  OBVIOUS
<1>1. CASE \E c \in Clients : Connect(c) \/ ClientStep(c) \/ Deliver(c)
  BY <1>1, InvConnect, InvRequest, InvLeave, InvOnAnswer, InvDeliver DEF ClientStep
<1>2. CASE ServerStep
  BY <1>2, InvSelect, InvAccept, InvRead, InvRecv, InvRecvNothing, InvCleanBuffer,
     InvSendError DEF ServerStep
<1>3. CASE UNCHANGED vars
  <2>1. Types' /\ Reading'
    BY <1>3 DEF Inv, Types, Reading, vars, clientVars, serverVars
  <2>2. \A c \in Clients : Connected(c)' /\ Owed(c)'
    BY <1>3 DEF Inv, Connected, Owed, ToCome, vars, clientVars, serverVars
  <2> QED  BY <2>1, <2>2 DEF Inv
<1> QED  BY <1>1, <1>2, <1>3 DEF Next

LEMMA LoopInvariant == Spec => []Inv
<1> QED  BY InvInit, InvNext, PTL DEF Spec

\* The only thread of the server never waits in a blocking recv
\* (various_functions.py:60) for a client that itself waits for an answer with
\* nothing under way: clean_buffer, which makes the connection blocking and
\* throws bytes away, is always followed by an answer (server.py), so what the
\* client sent since its last answer is still to come, a whole request.
THEOREM NobodyWaitsForEachOther == Spec => []NoEmbrace
<1>1. Inv => NoEmbrace
  <2> SUFFICES ASSUME Inv, NEW c \in Clients, serving = c, waiting[c], at = "recv",
                      answers[c] = <<>>
               PROVE  wire[c] \o inbox[c] # <<>>
    BY DEF NoEmbrace
  <2>1. got < Fields /\ got + ToCome(c) >= Fields
    BY LoopAssumption DEF Inv, Reading, Owed
  <2>2. /\ Len(wire[c]) \in Nat /\ Len(inbox[c]) \in Nat /\ Fields \in Nat /\ got \in Nat
        /\ wire[c] \in Seq(1..Fields) /\ inbox[c] \in Seq(1..Fields)
    BY Lengths DEF Inv
  <2>3. got < Fields /\ got + (Len(wire[c]) + Len(inbox[c])) >= Fields
    BY <2>1 DEF ToCome
  <2>4. Len(wire[c]) + Len(inbox[c]) > 0  BY <2>2, <2>3, Sums
  <2> QED  BY <2>2, <2>4, Underway
<1> QED  BY <1>1, LoopInvariant, PTL
=============================================================================
