----------------------------- MODULE Connection -----------------------------
(***************************************************************************)
(* The TCP connections between the runs of one client installation and the *)
(* server, and the faults of the environment. Run n of the client program  *)
(* has connection n.                                                       *)
(*                                                                         *)
(* A stream is a FIFO of requests; how much of it has arrived is decided   *)
(* when the server reads (recv returns what is there). A connection the    *)
(* client's process left is "closed" (FIN) or, when it left bytes of the   *)
(* server unread, "reset" (RST); it is "lost" when the server's process    *)
(* died under it and "gone" when neither side has it.                      *)
(***************************************************************************)
EXTENDS Protocol

CONSTANTS
  MaxRuns,      \* bound: runs of the client program
  MaxFaults,    \* bound: faults of the environment in a behaviour
  FaultKinds    \* which faults it may produce

ASSUME ConnectionAssumption ==
  /\ MaxRuns \in Nat \ {0}
  /\ MaxFaults \in Nat
  /\ FaultKinds \subseteq {"split", "noise", "io", "kill"}

VARIABLES
  stream,    \* per connection: requests sent and not yet read by the server
  answers,   \* per connection: answers sent and not yet read by the client
  link,      \* per connection: its state
  faults     \* faults left

connectionVars == <<stream, answers, link, faults>>

Conns == 1..MaxRuns
Links == {"idle", "open", "closed", "reset", "lost", "gone"}

ConnectionTypeOK ==
  /\ stream \in [Conns -> Seq(Requests)]
  /\ answers \in [Conns -> Seq(Answers)]
  /\ link \in [Conns -> Links]
  /\ faults \in 0..MaxFaults

ConnectionInit ==
  /\ stream = [c \in Conns |-> <<>>]
  /\ answers = [c \in Conns |-> <<>>]
  /\ link = [c \in Conns |-> "idle"]
  /\ faults = MaxFaults

Fault(kind) == kind \in FaultKinds /\ faults > 0
=============================================================================
