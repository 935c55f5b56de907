------------------------------- MODULE Upload -------------------------------
(***************************************************************************)
(* What one run of the client and the server promise each other about the  *)
(* uploaded file, with no word on packets, codes, keys or retries.         *)
(*                                                                         *)
(* The server stores what it receives as unverified. The client decides    *)
(* once, to keep the file or to drop it; the server settles the file the   *)
(* way the client decided, once, and never touches it again; the client    *)
(* reports the decision only after it was carried out, and may fail at any *)
(* moment instead.                                                         *)
(***************************************************************************)

VARIABLES
  decision,  \* the client's: "open", "keep" or "drop"
  record,    \* the server's record of the file
  settled,   \* the server has carried the decision out
  report     \* what the user is told: "none", "kept", "dropped" or "failed"

uploadVars == <<decision, record, settled, report>>

Init ==
  /\ decision = "open"
  /\ record = "absent"
  /\ settled = FALSE
  /\ report = "none"

Store ==
  /\ ~settled
  /\ record' = "unverified"
  /\ UNCHANGED <<decision, settled, report>>

Decide ==
  /\ decision = "open" /\ report = "none"
  /\ decision' \in {"keep", "drop"}
  /\ UNCHANGED <<record, settled, report>>

Settle ==
  /\ ~settled /\ record = "unverified"
  /\ \/ decision = "keep" /\ record' = "verified"
     \/ decision = "drop" /\ record' = "absent"
  /\ settled' = TRUE
  /\ UNCHANGED <<decision, report>>

Report ==
  /\ report = "none" /\ settled
  /\ report' = IF decision = "keep" THEN "kept" ELSE "dropped"
  /\ UNCHANGED <<decision, record, settled>>

Fail ==
  /\ report = "none"
  /\ report' = "failed"
  /\ UNCHANGED <<decision, record, settled>>

Next == Store \/ Decide \/ Settle \/ Report \/ Fail

Spec == Init /\ [][Next]_uploadVars
=============================================================================
