-------------------------- MODULE TransferSession ---------------------------
(***************************************************************************)
(* The client installation and the server joined by their connections:     *)
(* the whole of a file transfer, with runs of the client that end badly    *)
(* and are repeated.                                                       *)
(***************************************************************************)
EXTENDS TransferClient, TransferServer, FiniteSets

CONSTANT Situations  \* how installation and server may stand at the start

vars == <<connectionVars, clientVars, serverVars>>

AllSituations == {"fresh", "known", "taken", "forgotten", "usurped"}
ASSUME SituationsAssumption ==
  Situations \subseteq AllSituations /\ Situations # {}

\* The installation has been registered and has its id and key files.
HasFiles(s) == s \in {"known", "forgotten", "usurped"}

(* fresh: neither knows the other. known: an earlier run registered and    *)
(* stored a public key. taken: another installation has the name.          *)
(* forgotten: the server starts with a new database. usurped: and another  *)
(* installation has registered the name since.                             *)
Init ==
  /\ ConnectionInit
  /\ up = TRUE
  /\ file = "absent" /\ disk = <<>>
  /\ run = 0 /\ pc = "off" /\ outcome = "none"
  /\ failures = 0 /\ packet_number = 1 /\ verdict = 0
  /\ client_id = "none" /\ my_pair = 0 /\ session_key = 0
  /\ \E s \in Situations :
       /\ registered = IF s = "known" THEN "old"
                       ELSE IF s \in {"taken", "usurped"} THEN "other"
                       ELSE "none"
       /\ nul_id \in IF s = "known" THEN NulIds ELSE {FALSE}
       /\ public_key = IF s = "known" THEN 1 ELSE 0
       /\ aes_key = IF s = "known" THEN 1 ELSE 0
       /\ table = [id |-> registered, public_key |-> public_key,
                   aes_key |-> aes_key, file |-> "absent"]
       /\ me_info = IF HasFiles(s) THEN "old" ELSE "none"
       /\ priv_key = IF HasFiles(s) THEN 1 ELSE 0
       /\ last_pair = IF HasFiles(s) THEN 1 ELSE 0

\* The client can connect only to a server that runs.
Start == StartRun /\ up /\ UNCHANGED serverVars

Client == ClientStep(nul_id) /\ UNCHANGED serverVars
ClientKilled == Kill /\ UNCHANGED serverVars
Server(c) == ServerStep(c) /\ UNCHANGED clientVars
ServerRestart == Restart /\ UNCHANGED clientVars

\* Everything has come to rest.
Finished ==
  /\ pc = "off" /\ run = MaxRuns /\ up
  /\ \A c \in Conns : link[c] = "gone"
  /\ UNCHANGED vars

Next ==
  \/ Start
  \/ Client
  \/ ClientKilled
  \/ \E c \in Conns : Server(c)
  \/ ServerRestart
  \/ Finished

Spec == Init /\ [][Next]_vars

(* A running client goes on unless it waits; select reports every readable *)
(* connection again and again until it is served; the operator restarts a  *)
(* server that died. Nobody has to start the client.                       *)
Fairness ==
  /\ WF_vars(Client)
  /\ \A c \in Conns : WF_vars(Server(c))
  /\ WF_vars(ServerRestart)

FairSpec == Spec /\ Fairness

-----------------------------------------------------------------------------
(* Every variable keeps its type; in particular no failure counter, which  *)
(* addFailure raises, reaches MAX_TRIES without the program having ended.  *)
TypeOK == ConnectionTypeOK /\ ClientTypeOK /\ ServerTypeOK

(* What the client reports at the end of a run is what the server has      *)
(* recorded, in the list and for the next start: after the_end with 900    *)
(* the file is marked valid, after the one with 902 neither the file nor   *)
(* its record is left (request.py:191-203). Requests may still be on their *)
(* way to the server then.                                                 *)
VerdictAgreement ==
  /\ outcome = "success" => {file, table.file} = {"verified"}
  /\ outcome = "deleted" => {file, table.file} = {"absent"} /\ disk = <<>>

(* As long as no call to the database or the disk fails, a restart changes *)
(* nothing (server.py:61-76): whenever the server waits for requests its   *)
(* tables hold what its lists hold, and every file they list is on the     *)
(* disk, whatever the connections do and wherever the clients end.         *)
RestartReadsBack ==
  /\ table = [id |-> registered, public_key |-> public_key,
              aes_key |-> aes_key, file |-> file]
  /\ table.file # "absent" => disk # <<>>

(* Whichever call fails, what list and table say differently is harmless   *)
(* in two ways, because each handler makes its changes in the right order: *)
(* a client with a row is in the list under the same id, so no name gets a *)
(* second row (request.py:81-82), and a file in the list has its row, so a *)
(* restart does not forget it (request.py:168-169, 201-202).               *)
ListAndRows ==
  /\ table.id # "none" => registered = table.id
  /\ file # "absent" => table.file # "absent"

(* A file marked valid_crc is on the disk, whole and decrypted.            *)
VerifiedMeansIntact ==
  file = "verified" => IntactFile(disk)

(* When a client reports success, the file it has sent is on the server's  *)
(* disk, whole and decrypted, whichever of the server's calls failed and   *)
(* whatever an earlier run left there (request.py:145-172, 191-195).       *)
SuccessIsIntact ==
  outcome = "success" => IntactFile(disk)

(* The AES key a client encrypts its file with is the one the server will  *)
(* decrypt it with.                                                        *)
KeyAgreement ==
  pc \in {"send_file", "await_828"} /\ link[run] = "open"
    => session_key = aes_key

(* Requests that call for an answer and answers nobody has read: exactly   *)
(* one while the client waits, none while it does not. So no answer is     *)
(* ever taken for the answer to another request.                           *)
CallsForAnswer(r) ==
  ~ \/ r.code = WRONG_CRC_TRY_AGAIN_901
    \/ r.code = SEND_FILE_828 /\ r.packet # TotalPackets

Outstanding(c) ==
  Cardinality({i \in 1..Len(stream[c]) : CallsForAnswer(stream[c][i])})
    + Len(answers[c])

Lockstep ==
  \A c \in Conns : link[c] = "open" =>
    Outstanding(c) = IF c = run /\ pc \in Waiting THEN 1 ELSE 0

(* Over a network that only damages packets every run ends with the file   *)
(* verified; it ends with the file deleted, or given up, only after        *)
(* MAX_TRIES damaged sendings, or because the name belongs to somebody     *)
(* else; and the server survives it.                                       *)
OrderlyEnd ==
  /\ up
  /\ \/ outcome \in {"none", "running", "success"}
     \/ /\ outcome \in {"deleted", "too_many_sends"}
        /\ MaxFaults - faults >= MaxTries
     \/ outcome = "too_many_tries" /\ registered = "other"

-----------------------------------------------------------------------------
(* Installations that can and that cannot come back.                       *)

AtRest ==
  pc = "off" /\ \A c \in Conns : link[c] \in {"idle", "gone"}

\* me.info without priv.key: the client exits before it sends anything.
NoKey == me_info # "none" /\ priv_key = 0

(* The files of the installation and the records of the server no longer   *)
(* fit together: the name is in the table, under an id that is not the     *)
(* installation's or that the client cannot read back, or with a key that  *)
(* is not the installation's, and neither is the key of the list. A name   *)
(* that is in the list only is free again after a restart.                 *)
LockedOut ==
  \/ NoKey
  \/ /\ table.id # "none"
     /\ \/ me_info # table.id
        \/ priv_key \notin {public_key, table.public_key}
        \/ nul_id

(* Nothing in the protocol repairs a lockout, and no restart does: no run  *)
(* that is started later succeeds.                                         *)
LockoutIsFinal ==
  \A n \in 0..(MaxRuns - 1) :
    [](AtRest /\ LockedOut /\ run = n => [](run > n => outcome # "success"))

(* An installation that has just succeeded can come back: a restart of the *)
(* server does not lock it out (server.py:61-68, request.py:121-125). This *)
(* holds for a run, and for any number of them while no call fails: an     *)
(* earlier run may have left a key that is in the list only.               *)
SuccessLasts == AtRest /\ outcome = "success" => ~LockedOut

(* Two more things stand in the way until the next restart: a list that    *)
(* does not fit the installation, saved or not, and a row that a failed    *)
(* delete_file left behind, on whose primary key every first packet fails  *)
(* (request.py:168, 202).                                                  *)
Misfit ==
  /\ registered # "none"
  /\ me_info # registered \/ priv_key # public_key \/ nul_id
LeftRow == file = "absent" /\ table.file # "absent"

(* And nothing else does: a run that starts when the old connections are   *)
(* gone and nothing fails any more succeeds, whatever the runs before it   *)
(* left behind.                                                            *)
GoodStart ==
  /\ pc \in {"register", "reconnect"} /\ client_id = "none" /\ failures = 0
  /\ up /\ link[run] = "open"
  /\ \A c \in Conns \ {run} : link[c] \in {"idle", "gone"}
  /\ faults = 0
  /\ ~NoKey /\ ~Misfit /\ ~LeftRow

RetrySucceeds == GoodStart ~> outcome = "success"

(* Every run of the client ends.                                           *)
RunsEnd == pc # "off" ~> pc = "off"

-----------------------------------------------------------------------------
(* One run as an upload: the client decides when it sends 900 or 902; what *)
(* is recorded is the row, which a restart reads; the server has settled   *)
(* the file when row and list are what was decided; and the user is told   *)
(* when the program ends.                                                  *)

upload == INSTANCE Upload WITH
  decision <- CASE verdict = VALID_CRC_900 -> "keep"
                [] verdict = WRONG_CRC_4TH_902 -> "drop"
                [] OTHER -> "open",
  record <- table.file,
  settled <-
    \/ verdict = VALID_CRC_900 /\ {file, table.file} = {"verified"}
    \/ verdict = WRONG_CRC_4TH_902 /\ {file, table.file} = {"absent"},
  report <- CASE outcome \in {"none", "running"} -> "none"
              [] outcome = "success" -> "kept"
              [] outcome = "deleted" -> "dropped"
              [] OTHER -> "failed"

(* A run of the client, under every fault of the model, is such an upload: *)
(* decided once, settled once as it was decided, untouched by any packet   *)
(* and any restart afterwards, and reported only then.                     *)
IsUpload == upload!Spec
=============================================================================
