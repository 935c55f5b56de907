----------------------------- MODULE EventLoop -----------------------------
(***************************************************************************)
(* The select loop of server.py with several clients at once. It is one    *)
(* thread: while a handler waits in recv, nobody else is served. A new     *)
(* connection is non-blocking, recv then raises when nothing has arrived;  *)
(* after an error clean_buffer leaves the connection blocking.             *)
(*                                                                         *)
(* A request is its fields 1..Fields, one recv each; the network delivers  *)
(* them one by one. Only requests that are answered are considered. What   *)
(* the requests mean, and the server's exit on a connection reset, are in  *)
(* TransferServer.                                                         *)
(***************************************************************************)
EXTENDS Integers, Sequences

CONSTANTS
  Clients,
  Fields,      \* fields of a request
  MaxTries,    \* MAX_TRIES
  MaxRequests  \* bound: requests in one run of the client

ASSUME LoopAssumption ==
  /\ {Fields, MaxTries, MaxRequests} \subseteq Nat \ {0}
  /\ {"listener", "nobody"} \cap Clients = {}

VARIABLES
  link,      \* per client: "none", "connecting", "open", "closed" by it
  wire,      \* fields on their way
  inbox,     \* fields that have arrived
  answers,   \* answers the client has not read: "ok" or "error"
  waiting,   \* the client waits for an answer
  left,      \* requests it still has to send
  failures,  \* of the request it sends
  blocking,  \* mode of the server's socket
  events,    \* what the last select returned and was not served yet
  serving,   \* the connection a handler runs for, or "nobody"
  at,        \* where it is: "recv", "clean_buffer", "send_error"
  got,       \* fields it has read
  misfit     \* one of them was not the one it took it for

clientVars == <<waiting, left, failures>>
serverVars == <<blocking, events, serving, at, got, misfit>>
vars == <<link, wire, inbox, answers, clientVars, serverVars>>

Init ==
  /\ link = [c \in Clients |-> "none"]
  /\ wire = [c \in Clients |-> <<>>] /\ inbox = [c \in Clients |-> <<>>]
  /\ answers = [c \in Clients |-> <<>>]
  /\ waiting = [c \in Clients |-> FALSE]
  /\ left = [c \in Clients |-> 0] /\ failures = [c \in Clients |-> 0]
  /\ blocking = [c \in Clients |-> FALSE]
  /\ events = {} /\ serving = "nobody"
  /\ at = "recv" /\ got = 0 /\ misfit = FALSE

-----------------------------------------------------------------------------
(* The clients and the network.                                            *)

Connect(c) ==
  /\ link[c] = "none"
  /\ link' = [link EXCEPT ![c] = "connecting"]
  /\ left' = [left EXCEPT ![c] = MaxRequests]
  /\ UNCHANGED <<wire, inbox, answers, waiting, failures, serverVars>>

Send(c) == wire' = [wire EXCEPT ![c] = @ \o [k \in 1..Fields |-> k]]

Request(c) ==
  /\ link[c] \in {"connecting", "open"} /\ ~waiting[c] /\ left[c] > 0
  /\ Send(c)
  /\ waiting' = [waiting EXCEPT ![c] = TRUE]
  /\ failures' = [failures EXCEPT ![c] = 0]
  /\ UNCHANGED <<link, inbox, answers, left, serverVars>>

Close(c) ==
  /\ link' = [link EXCEPT ![c] = "closed"]
  /\ waiting' = [waiting EXCEPT ![c] = FALSE]
  /\ answers' = [answers EXCEPT ![c] = <<>>]

Leave(c) ==
  /\ link[c] = "open" /\ ~waiting[c] /\ left[c] = 0
  /\ Close(c)
  /\ UNCHANGED <<wire, inbox, left, failures, serverVars>>

\* get_header_from_server and general_error_handle
OnAnswer(c) ==
  /\ waiting[c] /\ answers[c] # <<>>
  /\ UNCHANGED <<inbox, serverVars>>
  /\ \/ /\ Head(answers[c]) = "ok"
        /\ answers' = [answers EXCEPT ![c] = Tail(@)]
        /\ waiting' = [waiting EXCEPT ![c] = FALSE]
        /\ left' = [left EXCEPT ![c] = @ - 1]
        /\ UNCHANGED <<link, wire, failures>>
     \/ /\ Head(answers[c]) = "error" /\ failures[c] + 1 < MaxTries
        /\ answers' = [answers EXCEPT ![c] = Tail(@)]
        /\ failures' = [failures EXCEPT ![c] = @ + 1]
        /\ Send(c)
        /\ UNCHANGED <<link, waiting, left>>
     \/ /\ Head(answers[c]) = "error" /\ failures[c] + 1 = MaxTries
        /\ Close(c)
        /\ UNCHANGED <<wire, left, failures>>

Deliver(c) ==
  /\ wire[c] # <<>>
  /\ wire' = [wire EXCEPT ![c] = Tail(@)]
  /\ inbox' = [inbox EXCEPT ![c] = Append(@, Head(wire[c]))]
  /\ UNCHANGED <<link, answers, clientVars, serverVars>>

ClientStep(c) == Request(c) \/ Leave(c) \/ OnAnswer(c)

-----------------------------------------------------------------------------
(* The server.                                                             *)

AtEnd(c) == link[c] = "closed" /\ wire[c] = <<>> /\ inbox[c] = <<>>
Ready ==
  {c \in Clients : link[c] \in {"open", "closed"}
                   /\ (inbox[c] # <<>> \/ AtEnd(c))}
  \cup {l \in {"listener"} : \E c \in Clients : link[c] = "connecting"}

\* sel.select(): all that can be read
Reported_One(ready) == {CHOOSE e \in ready : TRUE}  \* mutant: just one
Reported(ready) == ready
Select ==
  /\ serving = "nobody" /\ events = {} /\ Ready # {}
  /\ events' = Reported(Ready)
  /\ UNCHANGED <<link, wire, inbox, answers, clientVars, blocking, serving, at,
                 got, misfit>>

accept ==
  /\ serving = "nobody" /\ "listener" \in events
  /\ events' = events \ {"listener"}
  /\ \E c \in Clients :
       /\ link[c] = "connecting"
       /\ link' = [link EXCEPT ![c] = "open"]
       /\ blocking' = [blocking EXCEPT ![c] = FALSE]
  /\ UNCHANGED <<wire, inbox, answers, clientVars, serving, at, got, misfit>>

\* read(conn): the end of the connection, or a request
read(c) ==
  /\ serving = "nobody" /\ c \in events
  /\ events' = events \ {c}
  /\ IF AtEnd(c)
     THEN link' = [link EXCEPT ![c] = "none"] /\ UNCHANGED serving
     ELSE serving' = c /\ UNCHANGED link
  /\ at' = "recv" /\ got' = 0 /\ misfit' = FALSE
  /\ UNCHANGED <<wire, inbox, answers, clientVars, blocking>>

Answer(c, a) ==
  /\ answers' = [answers EXCEPT ![c] = IF link[c] = "open" THEN Append(@, a)
                                       ELSE @]
  /\ serving' = "nobody"

(* One field. A field that belongs elsewhere may be refused at once, as    *)
(* the version of a header, or only when all was read.                     *)
recv(c) ==
  /\ serving = c /\ at = "recv" /\ inbox[c] # <<>>
  /\ inbox' = [inbox EXCEPT ![c] = Tail(@)]
  /\ got' = got + 1
  /\ misfit' = (misfit \/ Head(inbox[c]) # got')
  /\ \/ got' < Fields /\ UNCHANGED <<at, answers, serving>>
     \/ misfit' /\ at' = "clean_buffer" /\ UNCHANGED <<answers, serving>>
     \/ got' = Fields /\ ~misfit' /\ Answer(c, "ok") /\ UNCHANGED at
  /\ UNCHANGED <<link, wire, clientVars, blocking, events>>

\* Nothing there: BlockingIOError, or the empty string at the end.
recv_nothing(c) ==
  /\ serving = c /\ at = "recv" /\ inbox[c] = <<>>
  /\ ~blocking[c] \/ AtEnd(c)
  /\ at' = "clean_buffer"
  /\ UNCHANGED <<link, wire, inbox, answers, clientVars, blocking, events,
                 serving, got, misfit>>

\* What has arrived is thrown away; conn.setblocking(1)
clean_buffer(c) ==
  /\ serving = c /\ at = "clean_buffer"
  /\ inbox' = [inbox EXCEPT ![c] = <<>>]
  /\ blocking' = [blocking EXCEPT ![c] = TRUE]
  /\ at' = "send_error"
  /\ UNCHANGED <<link, wire, answers, clientVars, events, serving, got, misfit>>

send_error_OnlyWhenAligned(c) ==  \* mutant: a header that is none is ignored
  /\ serving = c /\ at = "send_error"
  /\ IF misfit THEN serving' = "nobody" /\ UNCHANGED answers
     ELSE Answer(c, "error")
  /\ UNCHANGED <<link, wire, inbox, clientVars, blocking, events, at, got,
                 misfit>>
send_error(c) ==
  /\ serving = c /\ at = "send_error"
  /\ Answer(c, "error")
  /\ UNCHANGED <<link, wire, inbox, clientVars, blocking, events, at, got,
                 misfit>>

ServerStep ==
  \/ Select \/ accept
  \/ \E c \in Clients : read(c) \/ recv(c) \/ recv_nothing(c)
                        \/ clean_buffer(c) \/ send_error(c)

Next ==
  \/ \E c \in Clients : Connect(c) \/ ClientStep(c) \/ Deliver(c)
  \/ ServerStep

Spec == Init /\ [][Next]_vars

(* One server that goes on as long as it can, clients that go on until     *)
(* they wait, a network that delivers. Nobody has to start a client.       *)
FairSpec ==
  /\ Spec
  /\ WF_vars(ServerStep)
  /\ \A c \in Clients : WF_vars(ClientStep(c)) /\ WF_vars(Deliver(c))

-----------------------------------------------------------------------------
(* Properties.                                                             *)

\* The server never waits in recv (various_functions.py:60) for a client
\* that itself waits for an answer, with nothing on its way between them.
NoEmbrace ==
  \A c \in Clients :
     serving = c /\ waiting[c] /\ at = "recv" /\ blocking[c]
       => wire[c] \o inbox[c] # <<>> \/ answers[c] # <<>>

\* Whoever sends a request is answered or gives up, however the others'
\* requests arrive: one batch of select serves everybody (server.py:92-96).
EveryoneAnswered ==
  \A c \in Clients : waiting[c] ~> ~waiting[c]
=============================================================================
