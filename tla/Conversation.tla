---------------------------- MODULE Conversation ----------------------------
(***************************************************************************)
(* An agent talking in one chat: it sends with `tele send`, one request at *)
(* a time, and listens with `tele wait --after`, starting from the ID of   *)
(* what it sent.  Both commands meet in the chat: a message whose fate was *)
(* left open may still turn up while the agent waits, and the other side   *)
(* may write at any time.  Of `tele send` only what SendOnce promises is   *)
(* used; IpcSend shows that it keeps the promise.                          *)
(***************************************************************************)
EXTENDS TeleWait, FiniteSets

CONSTANT None         \* no request

VARIABLES
  asking,     \* the request of the running `tele send`
  outcome     \* what each one has answered

sendVars == <<asking, outcome>>
vars == <<chat, sendVars, waitVars>>

Once == INSTANCE SendOnce WITH
          copies <- [r \in Requests |-> Cardinality(Copies(r))],
          outcome <- outcome

TypeOK ==
  /\ chat \in Seq(Authors) /\ Len(chat) <= MaxChat
  /\ asking \in Requests \cup {None}
  /\ outcome \in [Requests -> Once!Outcomes]
  /\ WaitTypeOK

Init == chat = <<>> /\ asking = None /\ Once!OnceInit /\ WaitInit

(* One command at a time.                                                  *)
AgentSends(r) ==
  /\ step = "idle" /\ asking = None /\ outcome[r] = "none"
  /\ asking' = r
  /\ UNCHANGED <<chat, outcome, waitVars>>

SendEnds ==
  /\ asking # None /\ asking' = None
  /\ UNCHANGED <<chat, waitVars>>
  /\ Once!Report(asking) /\ \A r \in Requests : r # asking => outcome'[r] = outcome[r]

TelegramAccepts(r) ==
  /\ r = asking \/ outcome[r] # "none"
  /\ Accepted(r)
  /\ Once!Accept(r)
  /\ UNCHANGED <<asking, waitVars>>

PeerWrites == Accepted(Peer) /\ UNCHANGED <<sendVars, waitVars>>

AgentWaits == asking = None /\ WaitBegin /\ UNCHANGED sendVars

(* The agent goes on from the ID of a message it was given, or keeps the   *)
(* cursor the answer returned.                                             *)
AgentGoesOn ==
  /\ step = "idle"
  /\ \E i \in got : i > cursor /\ cursor' = i
  /\ UNCHANGED <<step, wait, origin, got, fails, chat, sendVars>>

(* The agent takes the ID of a message it sent for its cursor.             *)
AgentFollows(r) ==
  /\ step = "idle" /\ outcome[r] = "sent"
  /\ \E i \in Copies(r) : i > cursor /\ cursor' = i /\ origin' = i
  /\ UNCHANGED <<step, wait, got, fails, chat, sendVars>>

CallWait == WaitStep /\ UNCHANGED sendVars

Next ==
  \/ PeerWrites \/ SendEnds \/ AgentWaits \/ AgentGoesOn \/ CallWait
  \/ \E r \in Requests : AgentSends(r) \/ TelegramAccepts(r) \/ AgentFollows(r)
  \/ Dispatch /\ UNCHANGED sendVars

(* A `tele send` ends (IpcSend!RequestsEnd), the agent keeps calling `tele *)
(* wait` and does not for ever keep a cursor whose message it has, and a   *)
(* call's own steps have limits or break with their connection; calls fail *)
(* only so often.                                                          *)
Fairness ==
  /\ WF_vars(SendEnds) /\ WF_vars(AgentWaits) /\ SF_vars(AgentGoesOn) /\ WF_vars(CallWait)

Spec == Init /\ [][Next]_vars /\ Fairness
=============================================================================
