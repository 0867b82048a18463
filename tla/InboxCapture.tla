---------------------------- MODULE InboxCapture -----------------------------
(***************************************************************************)
(* `tele listen` writing the inbox of one account: updates from Telegram   *)
(* become capture tasks, each a transaction tried up to CAPTURE_ATTEMPTS   *)
(* times, while the process may stop, be killed and be started again, and  *)
(* other processes store and delete message rows.                          *)
(*                                                                         *)
(* Messages are numbered in the order Telegram sent them.  Telethon keeps  *)
(* how far it has got in its session file; `session` is the part of it     *)
(* that survives the process.  Updates flow from the moment the listener   *)
(* connects until it disconnects, its handler exists for a part of that    *)
(* time only.  A transaction is one step: it holds the account's inbox     *)
(* lock until it commits.                                                  *)
(***************************************************************************)
EXTENDS InboxLog

CONSTANTS
  MaxMessage,        \* how many messages are sent
  CAPTURE_ATTEMPTS,  \* tries per message before it is given up
  MaxStops,          \* bound: times the listener ends
  MaxDrops           \* bound: message rows deleted by `tele get`

ASSUME CaptureAssumption ==
  /\ MaxMessage \in Nat /\ Messages = 1..MaxMessage
  /\ CAPTURE_ATTEMPTS \in Nat \ {0}
  /\ MaxStops \in Nat
  /\ MaxDrops \in Nat

VARIABLES
  arrived,     \* messages sent so far
  stage,       \* of the listener process; its handler exists while "listening"
  dispatched,  \* updates this listener process has got
  passed,      \* those of them that found no handler
  session,     \* updates its session file remembers
  task,        \* the next attempt of each message's handler, 0 without one
  messages,    \* messages with a row in table messages
  reported,    \* messages given up with a message_error
  lost,        \* messages the session is past, without a handler that ended
  stops, drops \* how often the bounded steps have been taken

inbox == <<events, sequence>>
captureVars ==
  <<arrived, stage, dispatched, passed, session, task, messages, inbox, reported, lost,
    stops, drops>>

CaptureTypeOK ==
  /\ arrived \in 0..MaxMessage
  /\ stage \in {"down", "connected", "listening", "stopping"}
  /\ dispatched \in 0..arrived
  /\ passed \subseteq 1..dispatched /\ (stage = "down" => passed = {})
  /\ session \in 0..dispatched
  /\ task \in [Messages -> 0..CAPTURE_ATTEMPTS]
  /\ messages \subseteq Messages
  /\ events \subseteq Events
  /\ sequence \in Nat
  /\ reported \subseteq Messages
  /\ lost \subseteq Messages
  /\ stops \in 0..MaxStops
  /\ drops \in 0..MaxDrops

HasEvent(m) == \E e \in events : e.message = m

CaptureInit ==
  /\ arrived = 0
  /\ stage = "down"
  /\ dispatched = 0
  /\ passed = {}
  /\ session = 0
  /\ task = [m \in Messages |-> 0]
  /\ messages = {}
  /\ LogInit
  /\ reported = {}
  /\ lost = {}
  /\ stops = 0
  /\ drops = 0

-----------------------------------------------------------------------------
Arrive ==
  /\ arrived < MaxMessage
  /\ arrived' = arrived + 1
  /\ UNCHANGED <<stage, dispatched, passed, session, task, messages, inbox, reported, lost,
                 stops, drops>>

(* Another process stores a message the listener may not have captured.    *)
StoreRow(m) ==
  /\ m <= arrived
  /\ messages' = messages \cup {m}
  /\ UNCHANGED <<arrived, stage, dispatched, passed, session, task, inbox, reported, lost,
                 stops, drops>>

(* `tele get` no longer finds the message; its event is deleted with it.   *)
DropRow(m) ==
  /\ drops < MaxDrops
  /\ m \in messages
  /\ messages' = messages \ {m}
  /\ Drop(m)
  /\ drops' = drops + 1
  /\ UNCHANGED <<arrived, stage, dispatched, passed, session, task, reported, lost, stops>>

(* Telethon gives the next update, live or from catch_up, to a new task.   *)
Dispatch ==
  /\ stage = "listening" /\ dispatched < arrived
  /\ dispatched' = dispatched + 1
  /\ task' = [task EXCEPT ![dispatched'] = 1]
  /\ UNCHANGED <<arrived, stage, passed, session, messages, inbox, reported, lost, stops, drops>>

(* An update that comes before the handler is registered, or after it is   *)
(* removed: Telethon has then processed it, and catch_up starts after it.  *)
Pass ==
  /\ stage \in {"connected", "stopping"} /\ dispatched < arrived
  /\ dispatched' = dispatched + 1
  /\ passed' = passed \cup {dispatched'}
  /\ UNCHANGED <<arrived, stage, session, task, messages, inbox, reported, lost, stops, drops>>

(* client.session.save(): what Telethon had noted down of its progress.    *)
SaveSession == session' \in session..dispatched

(* The save after catch_up and in the heartbeat loop, whatever captures    *)
(* are under way.                                                          *)
HeartbeatSave ==
  /\ stage = "listening"
  /\ SaveSession
  /\ UNCHANGED <<arrived, stage, dispatched, passed, task, messages, inbox, reported, lost,
                 stops, drops>>

SaveByRow(m) ==                       \* mutant: looks for the row, not the event
  /\ messages' = messages \cup {m}
  /\ IF m \in messages
       THEN UNCHANGED inbox
       ELSE /\ sequence' = sequence + 1
            /\ events' = events \cup {[id |-> sequence', message |-> m]}

SaveAlways(m) ==                      \* mutant: an event for every delivery
  /\ messages' = messages \cup {m}
  /\ sequence' = sequence + 1
  /\ events' = events \cup {[id |-> sequence', message |-> m]}

SaveAfterNewest(m) ==                 \* mutant: MAX(event_id) + 1
  /\ messages' = messages \cup {m}
  /\ IF HasEvent(m)
       THEN UNCHANGED inbox
       ELSE /\ \E n \in {e.id : e \in events} \cup {0} :
                 /\ \A e \in events : e.id <= n
                 /\ sequence' = n + 1
            /\ events' = events \cup {[id |-> sequence', message |-> m]}

(* save_inbox_message: the row always, an event unless there is one.       *)
SaveInboxMessage(m) ==
  /\ messages' = messages \cup {m}
  /\ IF HasEvent(m)
       THEN UNCHANGED inbox
       ELSE /\ sequence' = sequence + 1
            /\ events' = events \cup {[id |-> sequence', message |-> m]}

(* The transaction commits and so does the save of the session after it.   *)
Capture(m) ==
  /\ task[m] # 0
  /\ SaveInboxMessage(m)
  /\ SaveSession
  /\ task' = [task EXCEPT ![m] = 0]
  /\ UNCHANGED <<arrived, stage, dispatched, passed, reported, lost, stops, drops>>

CountStop == stops < MaxStops /\ stops' = stops + 1

(* Interrupted, disconnected, or stopped by an error: the handler is       *)
(* removed, the listener closes its socket and gives up its lease.         *)
BeginStop == stage = "listening" /\ stage' = "stopping" /\ CountStop

(* The process ends: its tasks go with it, and whatever of their messages, *)
(* and of those without a task, the session file is past is not delivered  *)
(* again.                                                                  *)
End ==
  /\ IF stage = "stopping" THEN UNCHANGED stops ELSE CountStop
  /\ stage' = "down"
  /\ lost' = lost \cup {m \in Messages : (task[m] # 0 \/ m \in passed) /\ m <= session'}
  /\ passed' = {}
  /\ task' = [m \in Messages |-> 0]

AgainBeyondLast(m) ==                 \* mutant: <= for < in the last attempt
  IF task[m] <= CAPTURE_ATTEMPTS
    THEN /\ task' = [task EXCEPT ![m] = task[m] + 1]
         /\ UNCHANGED <<stage, reported, stops>>
    ELSE /\ reported' = reported \cup {m}
         /\ task' = [task EXCEPT ![m] = 0]
         /\ UNCHANGED <<stage, stops>>

(* An attempt raised: wait and try again, or report the message and, if    *)
(* the error is one of the infrastructure, stop the listener.              *)
Again(m) ==
  IF task[m] < CAPTURE_ATTEMPTS
    THEN /\ task' = [task EXCEPT ![m] = task[m] + 1]
         /\ UNCHANGED <<stage, reported, stops>>
    ELSE /\ reported' = reported \cup {m}
         /\ task' = [task EXCEPT ![m] = 0]
         /\ UNCHANGED <<stage, stops>> \/ BeginStop

(* Rolled back, or failed before the transaction.                          *)
AttemptFails(m) ==
  /\ task[m] # 0
  /\ Again(m)
  /\ UNCHANGED <<arrived, dispatched, passed, session, messages, inbox, lost, drops>>

(* Committed, but the connection dropped before the answer, or the session *)
(* file was locked: the handler cannot tell and tries again.               *)
AttemptUnknown(m) ==
  /\ task[m] # 0
  /\ SaveInboxMessage(m)
  /\ Again(m)
  /\ UNCHANGED <<arrived, dispatched, passed, session, lost, drops>>

Stop ==
  /\ BeginStop
  /\ UNCHANGED <<arrived, dispatched, passed, session, task, messages, inbox, reported, lost,
                 drops>>

(* Leaving authorized_client, also when starting failed: disconnecting     *)
(* saves the session.                                                      *)
Disconnect ==
  /\ stage \in {"connected", "stopping"} /\ SaveSession /\ End
  /\ UNCHANGED <<arrived, dispatched, messages, inbox, reported, drops>>

KillListener ==
  /\ stage # "down" /\ UNCHANGED session /\ End
  /\ UNCHANGED <<arrived, dispatched, messages, inbox, reported, drops>>

(* Started, for the first time or again: connecting takes the state of the *)
(* session file up, and updates flow.                                      *)
Connect ==
  /\ stage = "down" /\ stage' = "connected"
  /\ dispatched' = session
  /\ UNCHANGED <<arrived, passed, session, task, messages, inbox, reported, lost, stops, drops>>

ListenLive ==                         \* mutant: no catch_up
  /\ stage = "connected" /\ stage' = "listening"
  /\ dispatched' = arrived
  /\ UNCHANGED <<arrived, passed, session, task, messages, inbox, reported, lost, stops, drops>>

(* The chats are resolved, the lease is claimed, the inbox is open: the    *)
(* handler is registered and catch_up asks for what is not processed yet.  *)
Listen ==
  /\ stage = "connected" /\ stage' = "listening"
  /\ UNCHANGED <<arrived, dispatched, passed, session, task, messages, inbox, reported, lost,
                 stops, drops>>

Attempt(m) == Capture(m) \/ AttemptFails(m) \/ AttemptUnknown(m)

CaptureNext ==
  \/ Arrive \/ Connect \/ Listen \/ Dispatch \/ Pass \/ HeartbeatSave
  \/ Stop \/ Disconnect \/ KillListener
  \/ \E m \in Messages : StoreRow(m) \/ DropRow(m) \/ Attempt(m)

(* systemd starts the service again, which then gets ready or fails, one   *)
(* that stops goes on to its end, Telethon delivers what is pending and    *)
(* the event loop runs every handler; the attempts may all fail.           *)
Fairness ==
  /\ WF_captureVars(Connect)
  /\ WF_captureVars(Listen)
  /\ WF_captureVars(stage = "stopping" /\ Disconnect)
  /\ WF_captureVars(Dispatch)
  /\ \A m \in Messages : WF_captureVars(Attempt(m))

CaptureSpec == CaptureInit /\ [][CaptureNext]_captureVars

FairCaptureSpec == CaptureSpec /\ Fairness

-----------------------------------------------------------------------------
(* "Một message chỉ tạo một inbox_events row" (docs: one event per         *)
(* message), and event IDs identify events: through retries of a commit    *)
(* whose outcome is unknown and messages delivered again after a restart.  *)
EventsNumbered ==
  /\ \A e \in events : 0 < e.id /\ e.id <= sequence
  /\ \A e, f \in events : e.id = f.id \/ e.message = f.message => e = f

(* The inbox implements the log its readers rely on: it numbers events in  *)
(* commit order and never hands out an ID twice, also after a deletion.    *)
ImplementsLog == LogSpec

(* Every message sent is captured, or reported as a message_error, or is   *)
(* one of two kinds that nothing delivers again: its handler was cut short *)
(* once the session file was past it, or it came while the listener was    *)
(* connected without its handler.  A message sent while the listener is    *)
(* down, stored first by another process, delivered twice, or shown to a   *)
(* process that died before it saved how far it was, is not forgotten.     *)
EventuallySettled ==
  \A m \in Messages :
    <>(m <= arrived) =>
      \/ <>(HasEvent(m) \/ m \in reported \/ m \in lost)
      \/ <>[](m \in passed)
=============================================================================
