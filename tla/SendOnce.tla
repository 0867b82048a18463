------------------------------ MODULE SendOnce ------------------------------
(***************************************************************************)
(* What `tele send` promises, whatever way a request takes: Telegram gets  *)
(* the message at most once, "sent" means that it has it, an ordinary      *)
(* error that it has not and never will, and every other answer leaves it  *)
(* open.                                                                   *)
(***************************************************************************)
EXTENDS Naturals

CONSTANT Requests

VARIABLES
  copies,     \* how often Telegram has the message of a request
  outcome     \* what the command told its caller

Outcomes == {"none", "sent", "not_sent", "unknown"}

OnceInit ==
  /\ copies = [r \in Requests |-> 0]
  /\ outcome = [r \in Requests |-> "none"]

(* Telegram may accept a message long after the sender gave up on it, but  *)
(* not after the sender has said that it was not sent.                     *)
Accept(r) ==
  /\ copies[r] = 0
  /\ outcome[r] # "not_sent"
  /\ copies' = [copies EXCEPT ![r] = 1]
  /\ UNCHANGED outcome

Report(r) ==
  /\ outcome[r] = "none"
  /\ \E o \in Outcomes \ {"none"} :
       /\ o = "sent" => copies[r] = 1
       /\ o = "not_sent" => copies[r] = 0
       /\ outcome' = [outcome EXCEPT ![r] = o]
  /\ UNCHANGED copies

OnceNext == \E r \in Requests : Accept(r) \/ Report(r)

OnceSpec == OnceInit /\ [][OnceNext]_<<copies, outcome>>
=============================================================================
